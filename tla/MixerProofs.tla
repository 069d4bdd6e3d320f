----------------------------- MODULE MixerProofs -----------------------------
(***************************************************************************)
(* Theorems about the mixer: whatever its callers, users and ports, an     *)
(* audio call and a change that run at the same time do each other no      *)
(* harm.                                                                   *)
(***************************************************************************)
EXTENDS Mixer, TLAPS, SequenceTheorems

AudioPCs == {"idle", "loop", "array", "caller", "call", "end"}

Holding == {"copy", "count", "free", "search", "move", "not_found", "wait", "unlock"}

UserPCs == {"idle", "add", "remove"} \cup Holding

Hearings == [caller : Callers, data : Callers \cup {"garbage"}]

\* Whatever num_outputs is.
MixerType ==
  [num_outputs : {mixer.num_outputs}, num_callers : Nat, callers : 1..Len(arrays),
   is_calling : 0..1]

UserType(n) == [at : UserPCs, caller : Callers \cup {nobody}, old : 1..n]

Types ==
  /\ mixer \in MixerType
  /\ arrays \in Seq(Seq(Callers))
  /\ freed \subseteq 1..Len(arrays)
  /\ mutex \in Users \cup {"free"}
  /\ audio \in [at : AudioPCs, lokke : Nat, array : 1..Len(arrays),
                caller : Callers \cup {nobody}]
  /\ user \in [Users -> UserType(Len(arrays))]
  /\ heard \in Seq(Hearings)

\* The array of the mixer, and how many callers it is said to have.
Array == arrays[mixer.callers]
Num == mixer.num_callers

At(u, places) == user[u].at \in places

(***************************************************************************)
(* The users.                                                              *)
(***************************************************************************)
\* Who is inside holds the mutex, and no two users work on the same caller.
Guarded ==
  /\ \A u \in Users : At(u, Holding) <=> mutex = u
  /\ \A u \in Users : ~At(u, {"idle"}) => user[u].caller \in Callers
  /\ \A u, v \in Users :
       u # v /\ ~At(u, {"idle"}) /\ ~At(v, {"idle"}) => user[u].caller # user[v].caller

\* How many places of the array are in use, the one that is being filled or
\* emptied included: no caller is in two of them.
Used == IF \E u \in Users : At(u, {"count", "move"}) THEN Num + 1 ELSE Num

Distinct ==
  /\ Used <= Len(Array)
  /\ \A i, j \in 1..Used : Array[i] = Array[j] => i = j

\* What a user knows about the caller it adds or removes, and about the array it
\* replaces.
Knows(u) ==
  /\ At(u, {"add", "copy"}) => user[u].caller \notin Callable
  /\ At(u, {"move"}) => \E i \in 1..Num : Array[i] = user[u].caller
  /\ At(u, {"count"}) => Array[Num + 1] = user[u].caller
  /\ At(u, {"count", "free"}) => user[u].old # mixer.callers /\ user[u].old \notin freed

Changing ==
  /\ mixer.callers \notin freed
  /\ \A u \in Users : Knows(u)

(***************************************************************************)
(* The audio thread, and what the users do to it.                          *)
(***************************************************************************)
Busy == audio.at # "idle"
Ahead == audio.at \in {"array", "caller", "call"}

\* The callers it has loaded, and the last place it has looked at.
Loaded == [i \in 1..audio.lokke + 1 |->
             IF i <= audio.lokke THEN heard[i].caller ELSE audio.caller]
NumLoaded == IF audio.at = "call" THEN audio.lokke + 1 ELSE audio.lokke
Reached == IF Ahead THEN audio.lokke + 1 ELSE audio.lokke

\* u waits, and what it has removed is no longer in the array.
Gone(u) == At(u, {"wait"}) /\ user[u].caller \notin Members

\* It has passed the end only when a caller was removed meanwhile; the last one,
\* which has taken that caller's place, it has not called there.
Reaches ==
  Busy => \/ Reached <= Num
          \/ /\ Reached = Num + 1 /\ Reached <= Len(Array)
             /\ \E u \in Users :
                  \/ At(u, {"move"})
                  \/ /\ Gone(u)
                     /\ \E i \in 1..Num : Loaded[i] = user[u].caller
                                            /\ Array[i] = Array[Num + 1]

\* What it has loaded is what the array holds, but for a caller that was removed.
Follows ==
  Busy => \A i \in 1..NumLoaded :
            \/ Loaded[i] = Array[i]
            \/ i <= Num /\ Array[i] = Array[Num + 1]
                 /\ \E u \in Users : Gone(u) /\ Loaded[i] = user[u].caller

\* The array it has loaded holds what that of the mixer holds, and if it is
\* another then it is the one that is being replaced.
Loads ==
  audio.at = "caller" =>
    /\ Reached <= Len(arrays[audio.array])
    /\ arrays[audio.array][Reached] = Array[Reached]
    /\ \/ audio.array = mixer.callers
       \/ \E u \in Users : At(u, {"count", "free", "wait"}) /\ user[u].old = audio.array

\* Whatever it is about to call may be called.
CallsCallable ==
  /\ audio.at \in {"array", "caller"} => Array[Reached] \in Callable
  /\ audio.at = "call" => audio.caller \in Callable

\* The callers that are steady were called or are in front of it.
KeepsSteady ==
  /\ Busy => \A c \in steady :
       \/ \E i \in 1..NumLoaded : Loaded[i] = c
       \/ audio.at # "end" /\ \E i \in NumLoaded + 1..Num : Array[i] = c
  /\ \A u \in Users : Busy /\ At(u, {"move"}) => user[u].caller \notin steady

Hears ==
  /\ Len(heard) = audio.lokke /\ (~Busy => audio.lokke = 0)
  /\ \A i, j \in 1..Len(heard) : heard[i].caller = heard[j].caller => i = j
  /\ mixer.is_calling = (IF Busy THEN 1 ELSE 0)
  /\ audio.at = "call" => audio.caller \in Callers

Audible ==
  /\ Hears /\ Reaches /\ Follows /\ Loads /\ CallsCallable /\ KeepsSteady

\* The outputs are the sum of what was heard so far.
Sums ==
  heard # <<>> =>
    \A o \in 1..Ports :
      outputs[o] = {h.data : h \in {g \in ToSet(heard) : o <= OutputsOf[g.caller]}}

Inv == Types /\ Guarded /\ Distinct /\ Changing /\ Audible /\ Sums

(***************************************************************************)
(* What the steps do to the array of the mixer.                            *)
(***************************************************************************)
\* The mixer has an array of callers.
LEMMA ArrayType ==
  ASSUME Types
  PROVE  Array \in Seq(Callers) /\ Len(Array) \in Nat /\ Num \in Nat
<1>1. Array \in Seq(Callers)
  BY ElementOfSeq DEF Types, MixerType, Array
<1>. QED
  BY <1>1, LenProperties DEF Types, MixerType, Num

\* A user that goes on.
LEMMA UserAtEffect ==
  ASSUME Types, NEW u \in Users, NEW from \in UserPCs, NEW to \in UserPCs,
         UserAt(u, from, to)
  PROVE  /\ user[u].at = from /\ user'[u].at = to
         /\ user'[u].caller = user[u].caller /\ user'[u].old = user[u].old
         /\ \A v \in Users \ {u} : user'[v] = user[v]
         /\ user' \in [Users -> UserType(Len(arrays))]
BY DEF UserAt, Types, UserType

\* A caller is added to a copy of the array.
LEMMA AddPublishEffect ==
  ASSUME Types, Guarded, Distinct, NEW u \in Users, AddPublish(u)
  PROVE  /\ user[u].at = "copy" /\ user'[u].at = "count"
         /\ user'[u].caller = user[u].caller /\ user'[u].old = mixer.callers
         /\ \A v \in Users \ {u} : user'[v] = user[v]
         /\ arrays' \in Seq(Seq(Callers)) /\ Len(arrays') = Len(arrays) + 1
         /\ \A k \in 1..Len(arrays) : arrays'[k] = arrays[k]
         /\ mixer'.callers = Len(arrays) + 1
         /\ Num' = Num /\ mixer'.is_calling = mixer.is_calling
         /\ Len(Array') = Num + 1
         /\ \A i \in 1..Num : Array'[i] = Array[i]
         /\ Array'[Num + 1] = user[u].caller
<1>1. user[u].at = "copy" /\ user[u].caller \in Callers
  BY DEF AddPublish, Guarded, At
<1>2. Num <= Len(Array) /\ Num \in Nat /\ Array \in Seq(Callers) /\ Len(Array) \in Nat
  BY ArrayType DEF Distinct, Used
<1>. DEFINE copy == SubSeq(Array, 1, Num)
<1>3. \A i \in 1..Num : Array[i] \in Callers
  BY <1>2, ElementOfSeq
<1>4. copy \in Seq(Callers) /\ Len(copy) = Num /\ \A i \in 1..Num : copy[i] = Array[i]
  BY <1>2, <1>3, SubSeqProperties
<1>. DEFINE new == Append(copy, user[u].caller)
<1>5. arrays' = Append(arrays, new)
  BY DEF AddPublish, Array, Num
<1>. HIDE DEF copy
<1>6. /\ new \in Seq(Callers) /\ Len(new) = Num + 1
      /\ \A i \in 1..Num : new[i] = Array[i]
      /\ new[Num + 1] = user[u].caller
  BY <1>1, <1>4, AppendProperties
<1>. HIDE DEF new
<1>7. /\ arrays' \in Seq(Seq(Callers)) /\ Len(arrays') = Len(arrays) + 1
      /\ \A k \in 1..Len(arrays) : arrays'[k] = arrays[k]
      /\ arrays'[Len(arrays) + 1] = new
  BY <1>5, <1>6, AppendProperties DEF Types
<1>8. /\ mixer'.callers = Len(arrays) + 1
      /\ Num' = Num /\ mixer'.is_calling = mixer.is_calling
  BY <1>7 DEF AddPublish, Types, MixerType, Num
<1>9. Array' = new
  BY <1>7, <1>8 DEF Array
<1>10. /\ user'[u].at = "count" /\ user'[u].caller = user[u].caller
       /\ user'[u].old = mixer.callers /\ \A v \in Users \ {u} : user'[v] = user[v]
  BY DEF AddPublish, Types
<1>. QED
  BY <1>1, <1>6, <1>7, <1>8, <1>9, <1>10

\* The last caller takes the place of the one that is removed.
LEMMA RemoveMoveEffect ==
  ASSUME Types, Guarded, Distinct, Changing, NEW u \in Users, RemoveMove(u)
  PROVE  /\ user[u].at = "move" /\ user'[u].at = "wait"
         /\ user'[u].caller = user[u].caller /\ user'[u].old = user[u].old
         /\ \A v \in Users \ {u} : user'[v] = user[v]
         /\ arrays' \in Seq(Seq(Callers)) /\ Len(arrays') = Len(arrays)
         /\ \A k \in 1..Len(arrays) : Len(arrays'[k]) = Len(arrays[k])
              /\ (k # mixer.callers => arrays'[k] = arrays[k])
         /\ mixer'.callers = mixer.callers
         /\ Num' = Num /\ mixer'.is_calling = mixer.is_calling
         /\ Len(Array') = Len(Array) /\ Num + 1 <= Len(Array)
         /\ \E place \in 1..Num :
              /\ Array[place] = user[u].caller
              /\ \A i \in 1..Len(Array) :
                   Array'[i] = IF i = place THEN Array[Num + 1] ELSE Array[i]
<1>1. user[u].at = "move"
  BY DEF RemoveMove, UserAt
<1>2. /\ Num + 1 <= Len(Array) /\ Num \in Nat /\ Array \in Seq(Callers)
      /\ Len(Array) \in Nat
      /\ \A i, j \in 1..Num + 1 : Array[i] = Array[j] => i = j
  BY <1>1, ArrayType DEF Distinct, Used, At
<1>3. PICK p \in 1..Num : Array[p] = user[u].caller
  BY <1>1 DEF Changing, Knows, At
<1>. DEFINE place == CHOOSE i \in 1..Num :
                     Array[i] = user[u].caller
                       /\ \A j \in 1..i - 1 : Array[j] # user[u].caller
<1>4. \A j \in 1..p - 1 : Array[j] # user[u].caller
  BY <1>2, <1>3
<1>5. place = p
  <2>1. place \in 1..Num /\ Array[place] = user[u].caller
    BY <1>3, <1>4
  <2>. QED
    BY <1>2, <1>3, <2>1
<1>. DEFINE moved == [Array EXCEPT ![place] = Array[Num + 1]]
<1>6. /\ arrays' = [arrays EXCEPT ![mixer.callers] = moved]
      /\ mixer' = [mixer EXCEPT !.num_outputs = MostOutputs(moved, mixer.num_callers)]
  BY DEF RemoveMove, Array, Num
<1>7. Array[Num + 1] \in Callers
  BY <1>2, ElementOfSeq
<1>. HIDE DEF place
<1>8. /\ moved \in Seq(Callers) /\ Len(moved) = Len(Array)
      /\ \A i \in 1..Len(Array) : moved[i] = IF i = p THEN Array[Num + 1] ELSE Array[i]
  BY <1>2, <1>5, <1>7, ExceptSeq
<1>. HIDE DEF moved
<1>9. /\ arrays' \in Seq(Seq(Callers)) /\ Len(arrays') = Len(arrays)
      /\ \A k \in 1..Len(arrays) :
           arrays'[k] = IF k = mixer.callers THEN moved ELSE arrays[k]
  BY <1>6, <1>8, ExceptSeq DEF Types, MixerType
<1>10. /\ mixer'.callers = mixer.callers
       /\ Num' = Num /\ mixer'.is_calling = mixer.is_calling
  BY <1>6 DEF Types, MixerType, Num
<1>11. Array' = moved
  BY <1>9, <1>10 DEF Array, Types, MixerType
<1>12. \A k \in 1..Len(arrays) : Len(arrays'[k]) = Len(arrays[k])
              /\ (k # mixer.callers => arrays'[k] = arrays[k])
  BY <1>8, <1>9 DEF Array
<1>13. /\ user'[u].at = "wait"
       /\ user'[u].caller = user[u].caller /\ user'[u].old = user[u].old
       /\ \A v \in Users \ {u} : user'[v] = user[v]
  BY DEF RemoveMove, UserAt, Types
<1>. QED
  BY <1>1, <1>2, <1>3, <1>8, <1>9, <1>10, <1>11, <1>12, <1>13

(***************************************************************************)
(* Types.                                                                  *)
(***************************************************************************)
\* The arrays, the mixer and the audio thread start out as they should be.
LEMMA InitTypes == Init => Types
<1>. SUFFICES ASSUME Init PROVE Types
  OBVIOUS
<1>1. arrays \in Seq(Seq(Callers)) /\ Len(arrays) = 1
  BY DEF Init
<1>2. heard \in Seq(Hearings)
  BY DEF Init
<1>. QED
  BY <1>1, <1>2 DEF Init, Types, MixerType, UserType, AudioPCs, UserPCs, outside, idle

\* The audio thread has a place, an array and a caller, and appends to what was
\* heard.
LEMMA AudioTypesFrom ==
  ASSUME Types, NEW at \in AudioPCs, NEW n \in Nat, NEW a \in 1..Len(arrays),
         NEW c \in Callers \cup {nobody}, NEW is \in 0..1,
         audio' = [at |-> at, lokke |-> n, array |-> a, caller |-> c],
         mixer' = [mixer EXCEPT !.is_calling = is],
         heard' \in Seq(Hearings),
         UNCHANGED <<arrays, freed, users>>
  PROVE  Types'
<1>1. mixer' \in MixerType'
  BY DEF Types, MixerType
<1>2. /\ audio' \in [at : AudioPCs, lokke : Nat, array : 1..Len(arrays'),
                     caller : Callers \cup {nobody}]
      /\ user' \in [Users -> UserType(Len(arrays'))]
  BY DEF Types, users
<1>. QED
  BY <1>1, <1>2 DEF Types, users

\* The audio thread's steps keep the types.
LEMMA AudioTypes ==
  ASSUME Inv, CallBegin \/ AudioStep
  PROVE  Types'
<1>0. /\ Types /\ heard \in Seq(Hearings) /\ arrays \in Seq(Seq(Callers))
      /\ audio \in [at : AudioPCs, lokke : Nat, array : 1..Len(arrays),
                    caller : Callers \cup {nobody}]
      /\ mixer = [mixer EXCEPT !.is_calling = mixer.is_calling]
      /\ mixer.is_calling \in 0..1 /\ mixer.callers \in 1..Len(arrays)
      /\ audio.lokke \in Nat /\ audio.array \in 1..Len(arrays)
      /\ audio.caller \in Callers \cup {nobody}
  BY DEF Inv, Types, MixerType
<1>1. CASE CallBegin
  <2>1. heard' \in Seq(Hearings)
    BY <1>0, <1>1 DEF CallBegin
  <2>2. /\ audio' = [at |-> "loop", lokke |-> 0, array |-> audio.array,
                     caller |-> audio.caller]
        /\ mixer' = [mixer EXCEPT !.is_calling = 1]
    BY <1>0, <1>1 DEF CallBegin
  <2>3. UNCHANGED <<arrays, freed, users>> /\ "loop" \in AudioPCs
    BY <1>1 DEF CallBegin, AudioPCs
  <2>4. 0 \in Nat /\ 1 \in 0..1
    OBVIOUS
  <2>. QED
    BY <1>0, <2>1, <2>2, <2>3, <2>4, AudioTypesFrom
<1>2. CASE CallLoop
  <2>1. PICK at \in AudioPCs : audio' = [at |-> at, lokke |-> audio.lokke,
                                   array |-> audio.array, caller |-> audio.caller]
    BY <1>0, <1>2 DEF CallLoop, AudioAt, AudioPCs
  <2>. QED
    BY <1>0, <1>2, <2>1, AudioTypesFrom DEF CallLoop
<1>3. CASE CallLoadArray
  <2>1. audio' = [at |-> "caller", lokke |-> audio.lokke, array |-> mixer.callers,
                  caller |-> audio.caller]
    BY <1>0, <1>3 DEF CallLoadArray
  <2>2. UNCHANGED <<mixer, arrays, freed, users, heard>> /\ "caller" \in AudioPCs
    BY <1>3 DEF CallLoadArray, AudioPCs
  <2>. QED
    BY <1>0, <2>1, <2>2, AudioTypesFrom
<1>4. CASE CallLoadCaller
  <2>. DEFINE c == arrays[audio.array][audio.lokke + 1]
  <2>1. arrays[audio.array] \in Seq(Callers)
    BY <1>0, ElementOfSeq
  <2>2. audio.lokke + 1 \in 1..Len(arrays[audio.array])
    BY <1>0, <1>4, <2>1, LenProperties
    DEF CallLoadCaller, Inv, Audible, Loads, Reached, Ahead
  <2>3. c \in Callers
    BY <2>1, <2>2, ElementOfSeq
  <2>5. audio.lokke < Len(arrays[audio.array])
    BY <1>0, <2>1, <2>2, LenProperties
  <2>4. /\ audio' = [at |-> "call", lokke |-> audio.lokke, array |-> audio.array,
                     caller |-> c]
        /\ UNCHANGED <<mixer, arrays, freed, users, heard>> /\ "call" \in AudioPCs
    BY <1>0, <1>4, <2>5 DEF CallLoadCaller, AudioPCs
  <2>. HIDE DEF c
  <2>. QED
    BY <1>0, <2>3, <2>4, AudioTypesFrom
<1>5. CASE CallAndMix
  <2>1. PICK d \in {audio.caller} \cup {"garbage"} :
          heard' = Append(heard, [caller |-> audio.caller, data |-> d])
    BY <1>5 DEF CallAndMix
  <2>2. audio.caller \in Callers
    BY <1>5 DEF CallAndMix, Inv, Audible, Hears
  <2>3. heard' \in Seq(Hearings)
    BY <1>0, <2>1, <2>2, AppendProperties DEF Hearings
  <2>4. /\ audio' = [at |-> "loop", lokke |-> audio.lokke + 1, array |-> audio.array,
                     caller |-> audio.caller]
        /\ UNCHANGED <<mixer, arrays, freed, users>> /\ "loop" \in AudioPCs
    BY <1>0, <1>5 DEF CallAndMix, AudioPCs
  <2>5. audio.lokke + 1 \in Nat
    BY <1>0
  <2>. QED
    BY <1>0, <2>3, <2>4, <2>5, AudioTypesFrom
<1>6. CASE CallEnd
  <2>1. /\ audio' = [at |-> "idle", lokke |-> 0, array |-> 1, caller |-> nobody]
        /\ mixer' = [mixer EXCEPT !.is_calling = 0]
        /\ heard' = <<>> /\ UNCHANGED <<arrays, freed, users>>
    BY <1>6 DEF CallEnd, outside
  <2>2. /\ heard' \in Seq(Hearings) /\ 1 \in 1..Len(arrays)
        /\ "idle" \in AudioPCs /\ 0 \in Nat /\ 0 \in 0..1 /\ nobody \in Callers \cup {nobody}
    BY <1>0, <2>1 DEF AudioPCs
  <2>. QED
    BY <1>0, <2>1, <2>2, AudioTypesFrom
<1>. QED
  BY <1>1, <1>2, <1>3, <1>4, <1>5, <1>6 DEF AudioStep

\* A user changes nothing that the audio thread has, and arrays are only added.
LEMMA UserTypesFrom ==
  ASSUME Types, UNCHANGED <<audio, heard>>,
         arrays' \in Seq(Seq(Callers)), Len(arrays') >= Len(arrays),
         mixer' \in MixerType', freed' \subseteq 1..Len(arrays'),
         mutex' \in Users \cup {"free"}, user' \in [Users -> UserType(Len(arrays'))]
  PROVE  Types'
<1>1. Len(arrays) \in Nat /\ Len(arrays') \in Nat
  BY LenProperties DEF Types
<1>2. audio' \in [at : AudioPCs, lokke : Nat, array : 1..Len(arrays'),
                  caller : Callers \cup {nobody}]
  BY <1>1 DEF Types
<1>. QED
  BY <1>2 DEF Types

\* A user begins a change with a caller that no other is at work on and that it
\* does not add again.
LEMMA BeginEffect ==
  ASSUME Types, NEW u \in Users, NEW what \in UserPCs, NEW c \in Callers,
         odd' = {}, Begin(u, what, c)
  PROVE  /\ user[u].at = "idle" /\ user'[u].at = what /\ user'[u].caller = c
         /\ \A v \in Users \ {u} : user'[v] = user[v]
         /\ \A v \in Users \ {u} : user[v].at # "idle" => user[v].caller # c
         /\ what = "add" => c \notin Callable
         /\ user' \in [Users -> UserType(Len(arrays))]
         /\ UNCHANGED <<mixer, arrays, freed, mutex, audio, outputs, heard, steady>>
<1>1. 1 \in 1..Len(arrays)
  BY LenProperties DEF Types
<1>2. user' = [user EXCEPT ![u] = [at |-> what, caller |-> c, old |-> 1]]
  BY DEF Begin
<1>3. ~Again(u, what, c)
  <2>1. odd' # odd \cup {"twice"}
    OBVIOUS
  <2>. QED
    BY <2>1 DEF Begin
<1>. QED
  BY <1>1, <1>2, <1>3 DEF Begin, Again, Types, UserType, sound

\* The callers of the mixer are callers.
LEMMA MembersType ==
  ASSUME Types, Distinct
  PROVE  Members = {Array[i] : i \in 1..Num} /\ Members \subseteq Callers
<1>1. Members = {Array[i] : i \in 1..Num}
  BY DEF Members, Array, Num
<1>2. \A i \in 1..Num : Array[i] \in Callers
  BY ArrayType, ElementOfSeq DEF Distinct, Used
<1>. QED
  BY <1>1, <1>2

\* So do the users' steps.
LEMMA UserTypes ==
  ASSUME Types, Guarded, Distinct, Changing, NEW u \in Users, odd' = {},
         AddBegin(u) \/ RemoveBegin(u) \/ UserStep(u)
  PROVE  Types'
<1>0. /\ {"idle", "add", "remove"} \subseteq UserPCs /\ Holding \subseteq UserPCs
      /\ arrays \in Seq(Seq(Callers)) /\ Len(arrays) \in Nat
      /\ mixer \in MixerType
      /\ mutex \in Users \cup {"free"} /\ freed \subseteq 1..Len(arrays)
      /\ user \in [Users -> UserType(Len(arrays))]
  BY LenProperties DEF UserPCs, Types, MixerType
<1>1. CASE AddBegin(u)
  <2>1. PICK c \in Callers : Begin(u, "add", c)
    BY <1>1 DEF AddBegin
  <2>. QED
    BY <1>0, <2>1, BeginEffect, UserTypesFrom DEF MixerType
<1>2. CASE RemoveBegin(u)
  <2>1. PICK c \in Callers : Begin(u, "remove", c)
    BY <1>2, MembersType DEF RemoveBegin
  <2>. QED
    BY <1>0, <2>1, BeginEffect, UserTypesFrom DEF MixerType
<1>3. CASE AddLock(u) \/ RemoveLock(u)
  <2>1. user' \in [Users -> UserType(Len(arrays))]
    BY <1>3, <1>0, UserAtEffect DEF AddLock, RemoveLock, Lock, Holding
  <2>. QED
    BY <1>0, <1>3, <2>1, UserTypesFrom DEF MixerType, AddLock, RemoveLock, Lock, sound
<1>4. CASE AddPublish(u)
  <2>1. /\ arrays' \in Seq(Seq(Callers)) /\ Len(arrays') = Len(arrays) + 1
        /\ mixer'.callers = Len(arrays) + 1 /\ mixer'.num_callers = mixer.num_callers
    BY <1>4, AddPublishEffect DEF Num
  <2>. DEFINE k == Len(arrays')
  <2>2. mixer' \in MixerType'
    <3>1. mixer' = [mixer EXCEPT !.callers = k] /\ k \in 1..Len(arrays')
      BY <1>0, <1>4, <2>1 DEF AddPublish
    <3>. QED
      BY <1>0, <3>1 DEF MixerType
  <2>3. user' \in [Users -> UserType(Len(arrays) + 1)]
    <3>1. user' = [user EXCEPT ![u].at = "count", ![u].old = mixer.callers]
      BY <1>4 DEF AddPublish
    <3>2. "count" \in UserPCs /\ mixer.callers \in 1..Len(arrays) + 1
      BY <1>0 DEF Holding, MixerType
    <3>3. \A v \in Users : user[v] \in UserType(Len(arrays) + 1)
      BY <1>0 DEF UserType
    <3>. QED
      BY <3>1, <3>2, <3>3, <1>0 DEF UserType
  <2>. QED
    BY <1>0, <1>4, <2>1, <2>2, <2>3, UserTypesFrom DEF MixerType, AddPublish, sound
<1>5. CASE AddCount(u)
  <2>1. user' \in [Users -> UserType(Len(arrays))]
    BY <1>5, <1>0, UserAtEffect DEF AddCount, Holding
  <2>2. mixer' \in MixerType'
    <3>1. PICK n : mixer' = [mixer EXCEPT !.num_callers = @ + 1, !.num_outputs = n]
      BY <1>5 DEF AddCount
    <3>2. arrays' = arrays
      BY <1>5 DEF AddCount
    <3>3. mixer.num_callers + 1 \in Nat
      BY <1>0 DEF MixerType
    <3>. QED
      BY <1>0, <3>1, <3>2, <3>3 DEF MixerType
  <2>. QED
    BY <1>0, <1>5, <2>1, <2>2, UserTypesFrom DEF MixerType, AddCount, sound
<1>6. CASE AddFree(u)
  <2>1. user' \in [Users -> UserType(Len(arrays))]
    BY <1>6, <1>0, UserAtEffect DEF AddFree, Holding
  <2>2. user[u].old \in 1..Len(arrays)
    BY <1>0 DEF UserType
  <2>. QED
    BY <1>0, <1>6, <2>1, <2>2, UserTypesFrom DEF MixerType, AddFree, sound
<1>7. CASE RemoveFound(u)
  <2>1. user' \in [Users -> UserType(Len(arrays))]
    BY <1>7, <1>0, UserAtEffect DEF RemoveFound, Holding
  <2>3. mixer.num_callers - 1 \in Nat
    BY <1>0, <1>7 DEF RemoveFound, Place, MixerType
  <2>2. mixer' \in MixerType'
    BY <1>0, <1>7, <2>3 DEF RemoveFound, MixerType
  <2>. QED
    BY <1>0, <1>7, <2>1, <2>2, <2>3, UserTypesFrom DEF MixerType, RemoveFound, sound
<1>8. CASE RemoveMove(u)
  <2>1. /\ arrays' \in Seq(Seq(Callers)) /\ Len(arrays') = Len(arrays)
        /\ mixer'.callers = mixer.callers /\ mixer'.num_callers = mixer.num_callers
    BY <1>8, RemoveMoveEffect DEF Num
  <2>2. mixer' \in MixerType'
    BY <1>0, <1>8, <2>1 DEF RemoveMove, MixerType
  <2>3. user' \in [Users -> UserType(Len(arrays))]
    BY <1>8, <1>0, UserAtEffect DEF RemoveMove, Holding
  <2>4. UNCHANGED <<freed, mutex, audio, heard>>
    BY <1>8 DEF RemoveMove, sound
  <2>. QED
    BY <1>0, <2>1, <2>2, <2>3, <2>4, UserTypesFrom
<1>9. CASE RemoveNotFound(u) \/ Wait(u)
  <2>1. user' \in [Users -> UserType(Len(arrays))]
    BY <1>9, <1>0, UserAtEffect DEF RemoveNotFound, Wait, Holding
  <2>. QED
    BY <1>0, <1>9, <2>1, UserTypesFrom DEF MixerType, RemoveNotFound, Wait, sound
<1>10. CASE Unlock(u)
  <2>1. user' \in [Users -> UserType(Len(arrays))]
    <3>1. 1 \in 1..Len(arrays)
      BY <1>0 DEF MixerType
    <3>. QED
      BY <1>10, <1>0, <3>1 DEF Unlock, UserType, idle
  <2>. QED
    BY <1>0, <1>10, <2>1, UserTypesFrom DEF MixerType, Unlock, sound
<1>. QED
  BY <1>1, <1>2, <1>3, <1>4, <1>5, <1>6, <1>7, <1>8, <1>9, <1>10 DEF UserStep

(***************************************************************************)
(* The users keep out of each other's way.                                 *)
(***************************************************************************)
\* A user that works on the array is alone.
LEMMA Alone ==
  ASSUME Guarded, NEW u \in Users, At(u, Holding)
  PROVE  /\ mutex = u
         /\ \A v \in Users \ {u} : ~At(v, Holding)
BY DEF Guarded

\* What a step of one user inside makes of the user.
LEMMA InsideEffect ==
  ASSUME Types, NEW u \in Users,
         AddCount(u) \/ AddFree(u) \/ RemoveFound(u) \/ RemoveMove(u)
           \/ RemoveNotFound(u) \/ Wait(u) \/ AddPublish(u)
  PROVE  /\ At(u, Holding) /\ At(u, Holding)' /\ user'[u].caller = user[u].caller
         /\ \A v \in Users \ {u} : user'[v] = user[v]
         /\ UNCHANGED <<mutex, audio, outputs, heard>>
<1>0. Holding \subseteq UserPCs
  BY DEF UserPCs
<1>1. CASE AddPublish(u)
  <2>1. user' = [user EXCEPT ![u].at = "count", ![u].old = mixer.callers]
        /\ user[u].at = "copy"
    BY <1>1 DEF AddPublish
  <2>2. /\ user'[u].at = "count" /\ user'[u].caller = user[u].caller
        /\ \A v \in Users \ {u} : user'[v] = user[v]
    BY <2>1 DEF Types, UserType
  <2>. QED
    BY <1>1, <2>1, <2>2 DEF AddPublish, At, Holding, sound
<1>2. CASE AddCount(u)
  BY <1>0, <1>2, UserAtEffect DEF AddCount, At, Holding, sound
<1>3. CASE AddFree(u)
  BY <1>0, <1>3, UserAtEffect DEF AddFree, At, Holding, sound
<1>4. CASE RemoveFound(u)
  BY <1>0, <1>4, UserAtEffect DEF RemoveFound, At, Holding, sound
<1>5. CASE RemoveMove(u)
  BY <1>0, <1>5, UserAtEffect DEF RemoveMove, At, Holding, sound
<1>6. CASE RemoveNotFound(u) \/ Wait(u)
  BY <1>0, <1>6, UserAtEffect DEF RemoveNotFound, Wait, At, Holding, sound
<1>. QED
  BY <1>1, <1>2, <1>3, <1>4, <1>5, <1>6

\* What locking and unlocking make of the user.
LEMMA LockEffect ==
  ASSUME Types, NEW u \in Users, AddLock(u) \/ RemoveLock(u)
  PROVE  /\ mutex = "free" /\ mutex' = u
         /\ \/ user[u].at = "add" /\ user'[u].at = "copy"
            \/ user[u].at = "remove" /\ user'[u].at = "search"
         /\ user'[u].caller = user[u].caller
         /\ \A v \in Users \ {u} : user'[v] = user[v]
         /\ UNCHANGED <<mixer, arrays, freed, audio, outputs, heard, steady>>
BY UserAtEffect DEF AddLock, RemoveLock, Lock, UserPCs, Holding, sound

\* A user that leaves.
LEMMA UnlockEffect ==
  ASSUME Types, NEW u \in Users, Unlock(u)
  PROVE  /\ user[u].at \in {"unlock", "not_found"} /\ mutex' = "free"
         /\ user'[u].at = "idle"
         /\ \A v \in Users \ {u} : user'[v] = user[v]
         /\ UNCHANGED <<mixer, arrays, freed, audio, outputs, heard, steady>>
BY DEF Unlock, Types, UserType, sound, idle

\* A user that begins is outside.
LEMMA BeginsEffect ==
  ASSUME Types, Distinct, NEW u \in Users, odd' = {}, AddBegin(u) \/ RemoveBegin(u)
  PROVE  /\ user[u].at = "idle" /\ user'[u].at \in {"add", "remove"}
         /\ user'[u].caller \in Callers
         /\ user'[u].at = "add" => user'[u].caller \notin Callable
         /\ \A v \in Users \ {u} : user'[v] = user[v]
         /\ \A v \in Users \ {u} : user[v].at # "idle" => user[v].caller # user'[u].caller
         /\ UNCHANGED <<mixer, arrays, freed, mutex, audio, outputs, heard, steady>>
<1>0. "add" \in UserPCs /\ "remove" \in UserPCs
  BY DEF UserPCs
<1>1. CASE AddBegin(u)
  <2>1. PICK c \in Callers : Begin(u, "add", c)
    BY <1>1 DEF AddBegin
  <2>. QED
    BY <1>0, <2>1, BeginEffect
<1>2. CASE RemoveBegin(u)
  <2>1. PICK c \in Callers : Begin(u, "remove", c)
    BY <1>2, MembersType DEF RemoveBegin
  <2>. QED
    BY <1>0, <2>1, BeginEffect
<1>. QED
  BY <1>1, <1>2

\* Only one user at a time is inside.
LEMMA GuardedStep ==
  ASSUME Types, Guarded, Distinct, NEW u \in Users, odd' = {},
         AddBegin(u) \/ RemoveBegin(u) \/ UserStep(u)
  PROVE  Guarded'
<1>1. CASE AddBegin(u) \/ RemoveBegin(u)
  <2>. QED
    BY <1>1, BeginsEffect DEF Guarded, At, Holding
<1>2. CASE AddLock(u) \/ RemoveLock(u)
  BY <1>2, LockEffect, MixerAssumption DEF Guarded, At, Holding, MixerAssumption
<1>3. CASE Unlock(u)
  BY <1>3, UnlockEffect, MixerAssumption DEF Guarded, At, Holding, MixerAssumption
<1>4. CASE AddCount(u) \/ AddFree(u) \/ RemoveFound(u) \/ RemoveMove(u)
             \/ RemoveNotFound(u) \/ Wait(u) \/ AddPublish(u)
  <2>1. user[u].at # "idle" /\ user'[u].at # "idle"
    BY <1>4, InsideEffect DEF At, Holding
  <2>. QED
    BY <1>4, <2>1, InsideEffect DEF Guarded, At
<1>. QED
  BY <1>1, <1>2, <1>3, <1>4 DEF UserStep

(***************************************************************************)
(* The callers that may be called.                                         *)
(***************************************************************************)
\* What Callable says of the holder of the mutex.
LEMMA CallableIs ==
  \A x : x \in Callable <=>
           \/ x \in Members
           \/ \E v \in Users : At(v, {"move"}) /\ x = Array[Num + 1]
           \/ \E v \in Users : At(v, {"wait"}) /\ x = user[v].caller
<1>. DEFINE Of(v) == CASE user[v].at = "move" -> {arrays[mixer.callers][mixer.num_callers + 1]}
                       [] user[v].at = "wait" -> {user[v].caller}
                       [] OTHER -> {}
<1>1. \A v : Of(v) = IF user[v].at = "move" THEN {Array[Num + 1]}
                     ELSE IF user[v].at = "wait" THEN {user[v].caller} ELSE {}
  BY DEF Array, Num
<1>2. Callable = Members \cup UNION {Of(v) : v \in Users}
  BY DEF Callable
<1>. HIDE DEF Of
<1>. QED
  BY <1>1, <1>2 DEF At

\* The same of the next state.
LEMMA CallableIsNext ==
  \A x : x \in Callable' <=>
           \/ x \in Members'
           \/ \E v \in Users : At(v, {"move"})' /\ x = Array'[Num' + 1]
           \/ \E v \in Users : At(v, {"wait"})' /\ x = user'[v].caller
<1>. DEFINE Of(v) == CASE user'[v].at = "move" -> {arrays'[mixer'.callers][mixer'.num_callers + 1]}
                       [] user'[v].at = "wait" -> {user'[v].caller}
                       [] OTHER -> {}
<1>1. \A v : Of(v) = IF user'[v].at = "move" THEN {Array'[Num' + 1]}
                     ELSE IF user'[v].at = "wait" THEN {user'[v].caller} ELSE {}
  BY DEF Array, Num
<1>2. Callable' = Members' \cup UNION {Of(v) : v \in Users}
  BY DEF Callable
<1>. HIDE DEF Of
<1>. QED
  BY <1>1, <1>2 DEF At

\* The members, in terms of the array.
LEMMA MembersIs ==
  Members = {Array[i] : i \in 1..Num} /\ Members' = {Array'[i] : i \in 1..Num'}
BY DEF Members, Array, Num

\* A step that leaves the array alone.
LEMMA SameArray ==
  ASSUME UNCHANGED <<arrays>>, mixer'.callers = mixer.callers
  PROVE  Array' = Array
BY DEF Array

\* A step of one user makes no caller callable but its own, and only the end of
\* the waiting takes one away.
LEMMA CallableStep ==
  ASSUME Types, Guarded, Distinct, Changing, NEW u \in Users, odd' = {},
         AddBegin(u) \/ RemoveBegin(u) \/ UserStep(u)
  PROVE  /\ \A x \in Callable' :
              x \in Callable \/ (x = user[u].caller /\ At(u, Holding))
         /\ ~Wait(u) => \A x \in Callable : x \in Callable'
<1>0. Num \in Nat
  BY ArrayType
<1>1. CASE AddBegin(u) \/ RemoveBegin(u)
  <2>1. Array' = Array /\ Num' = Num
    BY <1>1, BeginsEffect, SameArray DEF Num
  <2>2. \A v \in Users : /\ At(v, {"move"})' <=> At(v, {"move"})
                         /\ At(v, {"wait"})' <=> At(v, {"wait"})
                         /\ At(v, {"wait"}) => user'[v].caller = user[v].caller
    BY <1>1, BeginsEffect DEF At
  <2>. QED
    BY <2>1, <2>2, CallableIs, CallableIsNext, MembersIs
<1>2. CASE AddLock(u) \/ RemoveLock(u)
  <2>1. Array' = Array /\ Num' = Num
    BY <1>2, LockEffect, SameArray DEF Num
  <2>2. \A v \in Users : /\ At(v, {"move"})' <=> At(v, {"move"})
                         /\ At(v, {"wait"})' <=> At(v, {"wait"})
                         /\ user'[v].caller = user[v].caller
    BY <1>2, LockEffect DEF At
  <2>. QED
    BY <2>1, <2>2, CallableIs, CallableIsNext, MembersIs
<1>3. CASE Unlock(u)
  <2>1. Array' = Array /\ Num' = Num
    BY <1>3, UnlockEffect, SameArray DEF Num
  <2>2. \A v \in Users : /\ At(v, {"move"})' <=> At(v, {"move"})
                         /\ At(v, {"wait"})' <=> At(v, {"wait"})
                         /\ At(v, {"wait"}) => user'[v].caller = user[v].caller
    BY <1>3, UnlockEffect DEF At
  <2>. QED
    BY <2>1, <2>2, CallableIs, CallableIsNext, MembersIs
<1>4. CASE AddFree(u) \/ RemoveNotFound(u) \/ Wait(u)
  <2>1. Array' = Array /\ Num' = Num
    BY <1>4, SameArray DEF AddFree, RemoveNotFound, Wait, Num
  <2>2. /\ \A v \in Users \ {u} : user'[v] = user[v]
        /\ user'[u].caller = user[u].caller /\ At(u, Holding)
        /\ ~At(u, {"move"}) /\ ~At(u, {"move"})'
        /\ ~Wait(u) => ~At(u, {"wait"})
    <3>1. "free" \in UserPCs /\ "wait" \in UserPCs /\ "unlock" \in UserPCs
          /\ "search" \in UserPCs /\ "not_found" \in UserPCs
      BY DEF UserPCs, Holding
    <3>2. \/ UserAt(u, "free", "wait") \/ UserAt(u, "search", "not_found")
          \/ UserAt(u, "wait", "unlock") /\ Wait(u)
      BY <1>4 DEF AddFree, RemoveNotFound, Wait
    <3>. QED
      BY <1>4, <3>1, <3>2, InsideEffect, UserAtEffect DEF At
  <2>3. \A v \in Users \ {u} : ~At(v, {"move", "wait"}) /\ ~At(v, {"move", "wait"})'
    BY <2>2, Alone DEF At, Holding
  <2>4. \A v \in Users : ~At(v, {"move"}) /\ ~At(v, {"move"})'
    BY <2>2, <2>3 DEF At
  <2>5. \A v \in Users : At(v, {"wait"}) \/ At(v, {"wait"})' => v = u
    BY <2>3 DEF At
  <2>6. Members' = Members
    BY <2>1, MembersIs
  <2>7. \A x \in Callable' : x \in Callable \/ x = user[u].caller
    BY <2>2, <2>4, <2>5, <2>6, CallableIs, CallableIsNext
  <2>8. ~Wait(u) => \A x \in Callable : x \in Callable'
    BY <2>2, <2>4, <2>5, <2>6, CallableIs, CallableIsNext
  <2>. QED
    BY <2>2, <2>7, <2>8
<1>5. CASE AddPublish(u)
  <2>1. \A v \in Users : ~At(v, {"move", "wait"}) /\ ~At(v, {"move", "wait"})'
    BY <1>5, Alone, AddPublishEffect DEF At, Holding
  <2>2. Members' = Members
    <3>1. Num' = Num /\ \A i \in 1..Num : Array'[i] = Array[i]
      BY <1>5, AddPublishEffect
    <3>. QED
      BY <3>1, MembersIs
  <2>. QED
    BY <2>1, <2>2, CallableIs, CallableIsNext DEF At
<1>6. CASE AddCount(u)
  <2>1. user[u].at = "count" /\ user'[u].at = "free"
        /\ \A v \in Users \ {u} : user'[v] = user[v]
    BY <1>6, UserAtEffect DEF AddCount, UserPCs, Holding
  <2>2. \A v \in Users : ~At(v, {"move", "wait"}) /\ ~At(v, {"move", "wait"})'
    BY <2>1, Alone DEF At, Holding
  <2>3. Array' = Array /\ Num' = Num + 1
    BY <1>6, SameArray DEF AddCount, Num, Types, MixerType
  <2>4. Array[Num + 1] = user[u].caller
    BY <2>1 DEF Changing, Knows, At
  <2>5. At(u, Holding)
    BY <2>1 DEF At, Holding
  <2>. QED
    BY <1>0, <2>2, <2>3, <2>4, <2>5, MembersIs, CallableIs, CallableIsNext DEF At
<1>7. CASE RemoveFound(u)
  <2>1. user[u].at = "search" /\ user'[u].at = "move"
        /\ \A v \in Users \ {u} : user'[v] = user[v]
    BY <1>7, UserAtEffect DEF RemoveFound, UserPCs, Holding
  <2>2. \A v \in Users : ~At(v, {"move", "wait"})
    BY <2>1, Alone DEF At, Holding
  <2>3. \A v \in Users : ~At(v, {"wait"})' /\ (At(v, {"move"})' <=> v = u)
    BY <2>1, <2>2 DEF At
  <2>4. Array' = Array /\ Num' = Num - 1 /\ Num - 1 \in Nat
    <3>1. Num - 1 \in Nat
      BY <1>0, <1>7 DEF RemoveFound, Place, Num
    <3>. QED
      BY <1>7, <3>1, SameArray DEF RemoveFound, Num, Types, MixerType
  <2>5. \A x : x \in Members <=> x \in Members' \/ x = Array'[Num' + 1]
    BY <1>0, <2>4, MembersIs
  <2>. QED
    BY <2>2, <2>3, <2>5, CallableIs, CallableIsNext DEF At
<1>8. CASE RemoveMove(u)
  <2>1. user[u].at = "move" /\ user'[u].at = "wait"
        /\ user'[u].caller = user[u].caller
        /\ \A v \in Users \ {u} : user'[v] = user[v]
    BY <1>8, RemoveMoveEffect
  <2>2. /\ \A v \in Users : ~At(v, {"wait"}) /\ (At(v, {"move"}) <=> v = u)
        /\ \A v \in Users : ~At(v, {"move"})' /\ (At(v, {"wait"})' <=> v = u)
    <3>1. \A v \in Users \ {u} : ~At(v, Holding)
      BY <2>1, Alone DEF At, Holding
    <3>. QED
      BY <2>1, <3>1 DEF At, Holding
  <2>3. PICK p \in 1..Num :
          /\ Array[p] = user[u].caller
          /\ \A i \in 1..Len(Array) :
               Array'[i] = IF i = p THEN Array[Num + 1] ELSE Array[i]
    BY <1>8, RemoveMoveEffect
  <2>4. Num' = Num /\ Num + 1 <= Len(Array) /\ Len(Array) \in Nat
    BY <1>8, RemoveMoveEffect, ArrayType
  <2>5. \A x : x \in Members \/ x = Array[Num + 1] <=>
                x \in Members' \/ x = user[u].caller
    <3>1. ASSUME NEW x, x \in Members
          PROVE  x \in Members' \/ x = user[u].caller
      BY <1>0, <2>3, <2>4, <3>1, MembersIs
    <3>2. Array[Num + 1] \in Members'
      BY <1>0, <2>3, <2>4, MembersIs
    <3>3. ASSUME NEW x, x \in Members'
          PROVE  x \in Members \/ x = Array[Num + 1]
      BY <1>0, <2>3, <2>4, <3>3, MembersIs
    <3>4. user[u].caller \in Members
      BY <2>3, MembersIs
    <3>. QED
      BY <3>1, <3>2, <3>3, <3>4
  <2>. QED
    BY <2>1, <2>2, <2>5, CallableIs, CallableIsNext
<1>. QED
  BY <1>1, <1>2, <1>3, <1>4, <1>5, <1>6, <1>7, <1>8 DEF UserStep

\* How many places are used while one user is inside, or none is.
LEMMA UsedIs ==
  ASSUME Guarded, NEW u \in Users, \A v \in Users \ {u} : ~At(v, Holding)
  PROVE  Used = IF At(u, {"count", "move"}) THEN Num + 1 ELSE Num
BY DEF Used, At, Holding

\* The same of the next state.
LEMMA UsedIsNext ==
  ASSUME Guarded', NEW u \in Users, \A v \in Users \ {u} : ~At(v, Holding)'
  PROVE  Used' = IF At(u, {"count", "move"})' THEN Num' + 1 ELSE Num'
BY DEF Used, At, Holding

\* No caller is in two places.
LEMMA DistinctStep ==
  ASSUME Types, Guarded, Guarded', Distinct, Changing, NEW u \in Users, odd' = {},
         AddBegin(u) \/ RemoveBegin(u) \/ UserStep(u)
  PROVE  Distinct'
<1>0. Num \in Nat /\ Len(Array) \in Nat
  BY ArrayType
<1>1. CASE AddBegin(u) \/ RemoveBegin(u) \/ AddLock(u) \/ RemoveLock(u) \/ Unlock(u)
  <2>1. Array' = Array /\ Num' = Num
    BY <1>1, BeginsEffect, LockEffect, UnlockEffect, SameArray DEF Num
  <2>2. \A v \in Users : At(v, {"count", "move"})' <=> At(v, {"count", "move"})
    BY <1>1, BeginsEffect, LockEffect, UnlockEffect DEF At
  <2>. QED
    BY <2>1, <2>2 DEF Distinct, Used
<1>2. CASE AddFree(u) \/ RemoveNotFound(u) \/ Wait(u)
  <2>1. Array' = Array /\ Num' = Num
    BY <1>2, SameArray DEF AddFree, RemoveNotFound, Wait, Num
  <2>2. \A v \in Users : At(v, {"count", "move"})' <=> At(v, {"count", "move"})
    <3>1. "free" \in UserPCs /\ "wait" \in UserPCs /\ "unlock" \in UserPCs
          /\ "search" \in UserPCs /\ "not_found" \in UserPCs
      BY DEF UserPCs, Holding
    <3>2. \/ UserAt(u, "free", "wait") \/ UserAt(u, "search", "not_found")
          \/ UserAt(u, "wait", "unlock")
      BY <1>2 DEF AddFree, RemoveNotFound, Wait
    <3>. QED
      BY <3>1, <3>2, UserAtEffect DEF At
  <2>. QED
    BY <2>1, <2>2 DEF Distinct, Used
<1>3. ASSUME At(u, Holding), At(u, Holding)', \A v \in Users \ {u} : user'[v] = user[v]
      PROVE  /\ Used = IF At(u, {"count", "move"}) THEN Num + 1 ELSE Num
             /\ Used' = IF At(u, {"count", "move"})' THEN Num' + 1 ELSE Num'
  <2>1. \A v \in Users \ {u} : ~At(v, Holding) /\ ~At(v, Holding)'
    BY <1>3, Alone DEF At
  <2>. QED
    BY <2>1, UsedIs, UsedIsNext
<1>4. CASE AddPublish(u)
  <2>1. Used = Num /\ Used' = Num + 1
    BY <1>3, <1>4, InsideEffect, AddPublishEffect DEF At
  <2>2. \A i \in 1..Num : Array[i] # user[u].caller
    BY <1>4, AddPublishEffect, CallableIs, MembersIs DEF Changing, Knows, At
  <2>3. /\ Len(Array') = Num + 1
        /\ \A i \in 1..Num : Array'[i] = Array[i]
        /\ Array'[Num + 1] = user[u].caller
    BY <1>4, AddPublishEffect
  <2>. QED
    BY <1>0, <2>1, <2>2, <2>3 DEF Distinct
<1>5. CASE AddCount(u)
  <2>1. user[u].at = "count" /\ user'[u].at = "free"
    BY <1>5, UserAtEffect DEF AddCount, UserPCs, Holding
  <2>2. Array' = Array /\ Num' = Num + 1
    BY <1>5, SameArray DEF AddCount, Num, Types, MixerType
  <2>3. Used' = Used
    BY <1>3, <1>5, <2>1, <2>2, InsideEffect DEF At
  <2>. QED
    BY <2>2, <2>3 DEF Distinct
<1>6. CASE RemoveFound(u)
  <2>1. user[u].at = "search" /\ user'[u].at = "move"
    BY <1>6, UserAtEffect DEF RemoveFound, UserPCs, Holding
  <2>2. Array' = Array /\ Num' = Num - 1 /\ Num - 1 \in Nat
    <3>1. Num - 1 \in Nat
      BY <1>0, <1>6 DEF RemoveFound, Place, Num
    <3>. QED
      BY <1>6, <3>1, SameArray DEF RemoveFound, Num, Types, MixerType
  <2>3. Used' = Used
    BY <1>0, <1>3, <1>6, <2>1, <2>2, InsideEffect DEF At
  <2>. QED
    BY <2>2, <2>3 DEF Distinct
<1>7. CASE RemoveMove(u)
  <2>1. Used = Num + 1 /\ Used' = Num
    BY <1>3, <1>7, InsideEffect, RemoveMoveEffect DEF At
  <2>2. PICK p \in 1..Num :
          \A i \in 1..Len(Array) :
            Array'[i] = IF i = p THEN Array[Num + 1] ELSE Array[i]
    BY <1>7, RemoveMoveEffect
  <2>3. Len(Array') = Len(Array)
    BY <1>7, RemoveMoveEffect
  <2>. QED
    BY <1>0, <2>1, <2>2, <2>3 DEF Distinct
<1>. QED
  BY <1>1, <1>2, <1>4, <1>5, <1>6, <1>7 DEF UserStep

\* What a user knows stays true whatever another does.
LEMMA ChangingStep ==
  ASSUME Types, Guarded, Guarded', Distinct, Changing, NEW u \in Users, odd' = {},
         AddBegin(u) \/ RemoveBegin(u) \/ UserStep(u)
  PROVE  Changing'
<1>0. Num \in Nat /\ Len(Array) \in Nat
  BY ArrayType
<1>. DEFINE Adds(v) == At(v, {"add", "copy"}) => user[v].caller \notin Callable
            Knows2(v) ==
              /\ At(v, {"move"}) => \E i \in 1..Num : Array[i] = user[v].caller
              /\ At(v, {"count"}) => Array[Num + 1] = user[v].caller
              /\ At(v, {"count", "free"}) => user[v].old # mixer.callers /\ user[v].old \notin freed
<1>1. \A v \in Users : Adds(v)'
  <2>1. SUFFICES ASSUME NEW v \in Users, At(v, {"add", "copy"})',
                        user'[v].caller \in Callable'
                 PROVE  FALSE
    OBVIOUS
  <2>2. CASE AddBegin(u) \/ RemoveBegin(u)
    <3>1. ~At(u, Holding)
      BY <2>2, BeginsEffect DEF At, Holding
    <3>2. user'[v].caller \in Callable
      BY <2>1, <2>2, <3>1, CallableStep
    <3>. QED
      BY <2>1, <2>2, <3>2, BeginsEffect DEF Changing, Knows, At
  <2>3. CASE AddLock(u) \/ RemoveLock(u)
    <3>1. ~At(u, Holding)
      BY <2>3, LockEffect DEF At, Holding
    <3>2. user'[v].caller \in Callable
      BY <2>1, <2>3, <3>1, CallableStep
    <3>. QED
      BY <2>1, <2>3, <3>2, LockEffect DEF Changing, Knows, At
  <2>4. CASE Unlock(u)
    <3>1. v # u /\ user'[v] = user[v] /\ user[v].at \in {"add", "copy"}
          /\ user[u].at \in {"unlock", "not_found"}
      BY <2>1, <2>4, UnlockEffect DEF At
    <3>2. user[v].caller # user[u].caller
      BY <3>1 DEF Guarded, At
    <3>3. user[v].caller \in Callable
      BY <2>1, <2>4, <3>1, <3>2, CallableStep
    <3>. QED
      BY <3>1, <3>3 DEF Changing, Knows, At
  <2>5. CASE AddCount(u) \/ AddFree(u) \/ RemoveFound(u) \/ RemoveMove(u)
             \/ RemoveNotFound(u) \/ Wait(u) \/ AddPublish(u)
    <3>1. At(u, Holding) /\ At(u, Holding)' /\ \A w \in Users \ {u} : user'[w] = user[w]
      BY <2>5, InsideEffect
    <3>2. user'[u].at \notin {"add", "copy"}
      <4>1. {"count", "free", "wait", "move", "not_found", "unlock", "search"} \subseteq UserPCs
        BY DEF UserPCs, Holding
      <4>2. CASE AddCount(u)
        BY <4>1, <4>2, UserAtEffect DEF AddCount
      <4>3. CASE AddFree(u)
        BY <4>1, <4>3, UserAtEffect DEF AddFree
      <4>4. CASE RemoveFound(u)
        BY <4>1, <4>4, UserAtEffect DEF RemoveFound
      <4>5. CASE RemoveMove(u)
        BY <4>5, RemoveMoveEffect
      <4>6. CASE RemoveNotFound(u)
        BY <4>1, <4>6, UserAtEffect DEF RemoveNotFound
      <4>7. CASE Wait(u)
        BY <4>1, <4>7, UserAtEffect DEF Wait
      <4>8. CASE AddPublish(u)
        BY <4>8, AddPublishEffect
      <4>. QED
        BY <2>5, <4>2, <4>3, <4>4, <4>5, <4>6, <4>7, <4>8
    <3>3. v # u /\ user'[v] = user[v] /\ user[v].at \in {"add", "copy"}
      BY <2>1, <3>1, <3>2 DEF At
    <3>4. user[v].caller # user[u].caller
      BY <3>1, <3>3 DEF Guarded, At, Holding
    <3>5. user[v].caller \in Callable
      BY <2>1, <2>5, <3>3, <3>4, CallableStep DEF UserStep
    <3>. QED
      BY <3>3, <3>5 DEF Changing, Knows, At
  <2>. QED
    BY <2>2, <2>3, <2>4, <2>5 DEF UserStep
<1>2. mixer.callers \notin freed /\ \A v \in Users : Knows2(v)
  BY DEF Changing, Knows
<1>3. ASSUME At(u, Holding) \/ At(u, Holding)', \A v \in Users \ {u} : user'[v] = user[v],
             Knows2(u)'
      PROVE  \A v \in Users : Knows2(v)'
  <2>1. \A v \in Users \ {u} : ~At(v, Holding)'
    BY <1>3 DEF Guarded, At
  <2>2. \A v \in Users \ {u} : ~At(v, {"move", "count", "free"})'
    BY <2>1 DEF At, Holding
  <2>. QED
    BY <1>3, <2>2 DEF At
<1>. HIDE DEF Adds
<1>4. mixer'.callers \notin freed' /\ \A v \in Users : Knows2(v)'
  <2>1. CASE AddBegin(u) \/ RemoveBegin(u) \/ AddLock(u) \/ RemoveLock(u) \/ Unlock(u)
    <3>1. /\ Array' = Array /\ Num' = Num /\ freed' = freed /\ mixer' = mixer
      BY <2>1, BeginsEffect, LockEffect, UnlockEffect, SameArray DEF Num
    <3>2. \A v \in Users : At(v, {"move", "count", "free"})' => user'[v] = user[v]
      BY <2>1, BeginsEffect, LockEffect, UnlockEffect DEF At
    <3>. QED
      BY <1>2, <3>1, <3>2 DEF At
  <2>2. CASE AddPublish(u)
    <3>1. /\ user'[u].at = "count" /\ user'[u].caller = user[u].caller
          /\ user'[u].old = mixer.callers /\ mixer'.callers = Len(arrays) + 1
          /\ Array'[Num + 1] = user[u].caller /\ Num' = Num
          /\ \A v \in Users \ {u} : user'[v] = user[v]
      BY <2>2, AddPublishEffect
    <3>2. freed' = freed /\ freed \subseteq 1..Len(arrays) /\ mixer.callers \in 1..Len(arrays)
          /\ Len(arrays) \in Nat
      BY <2>2, LenProperties DEF AddPublish, Types, MixerType
    <3>3. Knows2(u)'
      BY <1>2, <3>1, <3>2 DEF At
    <3>. QED
      BY <1>3, <2>2, <3>1, <3>2, <3>3, InsideEffect
  <2>3. CASE AddCount(u)
    <3>1. /\ user[u].at = "count" /\ user'[u].at = "free"
          /\ user'[u].old = user[u].old /\ \A v \in Users \ {u} : user'[v] = user[v]
      BY <2>3, UserAtEffect DEF AddCount, UserPCs, Holding
    <3>2. freed' = freed /\ mixer'.callers = mixer.callers
      BY <2>3 DEF AddCount, Types, MixerType
    <3>3. Knows2(u)'
      BY <1>2, <3>1, <3>2 DEF At
    <3>. QED
      BY <1>2, <1>3, <2>3, <3>1, <3>2, <3>3, InsideEffect
  <2>4. CASE AddFree(u)
    <3>1. /\ user[u].at = "free" /\ user'[u].at = "wait"
          /\ \A v \in Users \ {u} : user'[v] = user[v]
      BY <2>4, UserAtEffect DEF AddFree, UserPCs, Holding
    <3>2. freed' = freed \cup {user[u].old} /\ mixer'.callers = mixer.callers
      BY <2>4 DEF AddFree
    <3>3. Knows2(u)'
      BY <3>1 DEF At
    <3>4. user[u].old # mixer.callers
      BY <1>2, <3>1 DEF At
    <3>. QED
      BY <1>2, <1>3, <2>4, <3>1, <3>2, <3>3, <3>4, InsideEffect
  <2>5. CASE RemoveFound(u)
    <3>1. /\ user[u].at = "search" /\ user'[u].at = "move"
          /\ user'[u].caller = user[u].caller
          /\ \A v \in Users \ {u} : user'[v] = user[v]
      BY <2>5, UserAtEffect DEF RemoveFound, UserPCs, Holding
    <3>2. freed' = freed /\ mixer'.callers = mixer.callers /\ Num' = Num - 1
          /\ Array' = Array
      BY <2>5, SameArray DEF RemoveFound, Types, MixerType, Num
    <3>3. \E i \in 1..Num - 1 : Array[i] = user[u].caller
      BY <2>5 DEF RemoveFound, Place, Array, Num
    <3>4. Knows2(u)'
      BY <3>1, <3>2, <3>3 DEF At
    <3>. QED
      BY <1>2, <1>3, <2>5, <3>1, <3>2, <3>4, InsideEffect
  <2>6. CASE RemoveMove(u)
    <3>1. /\ user'[u].at = "wait" /\ \A v \in Users \ {u} : user'[v] = user[v]
      BY <2>6, RemoveMoveEffect
    <3>2. freed' = freed /\ mixer'.callers = mixer.callers
      BY <2>6, RemoveMoveEffect DEF RemoveMove
    <3>3. Knows2(u)'
      BY <3>1 DEF At
    <3>. QED
      BY <1>2, <1>3, <2>6, <3>1, <3>2, <3>3, InsideEffect
  <2>7. CASE RemoveNotFound(u) \/ Wait(u)
    <3>0. {"search", "not_found", "wait", "unlock"} \subseteq UserPCs
      BY DEF UserPCs, Holding
    <3>1. /\ user'[u].at \in {"not_found", "unlock"}
          /\ \A v \in Users \ {u} : user'[v] = user[v]
      BY <2>7, <3>0, UserAtEffect DEF RemoveNotFound, Wait
    <3>2. freed' = freed /\ mixer'.callers = mixer.callers
      BY <2>7 DEF RemoveNotFound, Wait
    <3>3. Knows2(u)'
      BY <3>1 DEF At
    <3>. QED
      BY <1>2, <1>3, <2>7, <3>1, <3>2, <3>3, InsideEffect
  <2>. QED
    BY <2>1, <2>2, <2>3, <2>4, <2>5, <2>6, <2>7 DEF UserStep
<1>. QED
  BY <1>1, <1>4 DEF Changing, Knows, Adds

(***************************************************************************)
(* The audio thread's own steps.                                           *)
(***************************************************************************)
\* The audio thread leaves the array and the users alone.
LEMMA AudioFrame ==
  ASSUME Types, CallBegin \/ AudioStep
  PROVE  /\ UNCHANGED <<arrays, freed, user, mutex>>
         /\ mixer'.callers = mixer.callers /\ Array' = Array /\ Num' = Num
         /\ Members' = Members /\ Callable' = Callable
         /\ \A u \in Users : \A S : At(u, S)' <=> At(u, S)
         /\ \A u \in Users : Gone(u)' <=> Gone(u)
<1>1. /\ UNCHANGED <<arrays, freed, user, mutex>>
      /\ mixer'.callers = mixer.callers /\ mixer'.num_callers = mixer.num_callers
  <2>1. CASE CallBegin
    BY <2>1 DEF CallBegin, users, Types, MixerType
  <2>2. CASE CallEnd
    BY <2>2 DEF CallEnd, users, Types, MixerType
  <2>3. CASE CallLoop \/ CallLoadArray \/ CallLoadCaller \/ CallAndMix
    BY <2>3 DEF CallLoop, CallLoadArray, CallLoadCaller, CallAndMix, users
  <2>. QED
    BY <2>1, <2>2, <2>3 DEF AudioStep
<1>2. Array' = Array /\ Num' = Num
  BY <1>1 DEF Array, Num
<1>3. Members' = Members
  BY <1>2, MembersIs
<1>4. \A u \in Users : \A S : At(u, S)' <=> At(u, S)
  BY <1>1 DEF At
<1>5. \A u \in Users : Gone(u)' <=> Gone(u)
  BY <1>1, <1>3, <1>4 DEF Gone
<1>6. Callable' = Callable
  BY <1>1, <1>2, <1>3 DEF Callable, Array, Num
<1>. QED
  BY <1>1, <1>2, <1>3, <1>4, <1>5, <1>6

\* So what the users know stays true.
LEMMA AudioKeepsUsers ==
  ASSUME Types, Guarded, Distinct, Changing, CallBegin \/ AudioStep
  PROVE  Guarded' /\ Distinct' /\ Changing'
<1>1. Guarded'
  BY AudioFrame DEF Guarded
<1>2. Distinct'
  BY AudioFrame DEF Distinct, Used
<1>3. Changing'
  BY AudioFrame DEF Changing, Knows
<1>. QED
  BY <1>1, <1>2, <1>3

\* Where the audio thread is, in numbers.
LEMMA AudioNumbers ==
  ASSUME Types
  PROVE  /\ audio.lokke \in Nat /\ NumLoaded \in Nat /\ Reached \in Nat
         /\ NumLoaded <= Reached /\ Reached <= audio.lokke + 1
         /\ audio.lokke <= NumLoaded
         /\ \A i \in 1..audio.lokke : Loaded[i] = heard[i].caller
         /\ Loaded[audio.lokke + 1] = audio.caller
<1>1. audio.lokke \in Nat
  BY DEF Types
<1>2. /\ NumLoaded \in Nat /\ Reached \in Nat
      /\ NumLoaded <= Reached /\ Reached <= audio.lokke + 1
      /\ audio.lokke <= NumLoaded
  BY <1>1 DEF NumLoaded, Reached, Ahead
<1>3. /\ \A i \in 1..audio.lokke : Loaded[i] = heard[i].caller
      /\ Loaded[audio.lokke + 1] = audio.caller
  BY <1>1 DEF Loaded
<1>. QED
  BY <1>1, <1>2, <1>3

\* As long as the mixer says how many callers it has, the places are there.
LEMMA ReachedIsThere ==
  ASSUME Types, Distinct, Reaches, Busy
  PROVE  Reached <= Len(Array)
BY ArrayType, AudioNumbers DEF Distinct, Used, Reaches

\* No caller is loaded twice.
LEMMA LoadedOnce ==
  ASSUME Types, Guarded, Distinct, Reaches, Follows, Busy,
         NEW i \in 1..NumLoaded, NEW j \in 1..NumLoaded, Loaded[i] = Loaded[j]
  PROVE  i = j
<1>0. /\ Num \in Nat /\ NumLoaded \in Nat /\ Reached \in Nat /\ NumLoaded <= Reached
      /\ Used \in Nat /\ Num <= Used /\ \A m, n \in 1..Used : Array[m] = Array[n] => m = n
  BY ArrayType, AudioNumbers DEF Used, Distinct
<1>1. \A m \in 1..NumLoaded : m <= Num + 1
  BY <1>0 DEF Reaches
<1>2. \A n \in 1..Num : Array[n] \in Members
  BY MembersIs
<1>3. ASSUME NEW m \in 1..NumLoaded, m > Num
      PROVE  /\ m = Num + 1 /\ Loaded[m] = Array[m]
             /\ \/ Used = Num + 1
                \/ \E u \in Users : /\ Gone(u)
                     /\ \E n \in 1..Num : Loaded[n] = user[u].caller /\ Array[n] = Array[Num + 1]
  <2>1. m = Num + 1
    BY <1>0, <1>1, <1>3
  <2>2. Loaded[m] = Array[m]
    BY <1>0, <1>3 DEF Follows
  <2>3. Reached = Num + 1
    BY <1>0, <1>3, <2>1 DEF Reaches
  <2>4. \/ \E u \in Users : At(u, {"move"})
        \/ \E u \in Users : /\ Gone(u)
             /\ \E n \in 1..Num : Loaded[n] = user[u].caller /\ Array[n] = Array[Num + 1]
    BY <1>0, <2>3 DEF Reaches
  <2>5. (\E u \in Users : At(u, {"move"})) => Used = Num + 1
    BY DEF Used, At
  <2>. QED
    BY <2>1, <2>2, <2>4, <2>5
<1>4. \A u, v \in Users : Gone(u) /\ Gone(v) => u = v
  BY Alone DEF Gone, At, Holding
<1>5. \A u \in Users : Gone(u) => user[u].caller \notin Members
  BY DEF Gone
<1>6. \A m \in 1..NumLoaded :
        \/ Loaded[m] = Array[m]
        \/ m <= Num /\ Array[m] = Array[Num + 1]
             /\ \E u \in Users : Gone(u) /\ Loaded[m] = user[u].caller
  BY DEF Follows
\* What stands behind the end, when it was loaded, is in no other place loaded.
<1>7. ASSUME NEW m \in 1..NumLoaded, NEW n \in 1..NumLoaded, m <= Num, n > Num,
             Loaded[m] = Loaded[n]
      PROVE  FALSE
  <2>1. n = Num + 1 /\ Loaded[n] = Array[Num + 1]
    BY <1>3, <1>7
  <2>2. CASE Used = Num + 1
    <3>1. PICK v \in Users : At(v, {"count", "move"})
      BY <1>0, <2>2 DEF Used
    <3>2. \A u \in Users \ {v} : ~At(u, Holding)
      BY <3>1, Alone DEF At, Holding
    <3>3. \A u \in Users : ~Gone(u)
      BY <3>1, <3>2 DEF Gone, At, Holding
    <3>4. Loaded[m] = Array[m]
      BY <1>6, <3>3
    <3>5. m \in 1..Used /\ n \in 1..Used
      BY <1>0, <1>7, <2>1, <2>2
    <3>. QED
      BY <1>0, <1>7, <2>1, <3>4, <3>5
  <2>3. ASSUME NEW u \in Users, Gone(u), NEW k \in 1..Num, Loaded[k] = user[u].caller,
               Array[k] = Array[Num + 1]
        PROVE  FALSE
    <3>1. Array[k] \in Members
      BY <1>2
    <3>6. Loaded[m] = Array[k]
      BY <1>7, <2>1, <2>3
    <3>2. \A v \in Users : Gone(v) => Loaded[m] # user[v].caller
      BY <1>5, <3>1, <3>6
    <3>3. Loaded[m] = Array[m]
      BY <1>6, <3>2
    <3>4. m \in 1..Used /\ k \in 1..Used
      BY <1>0, <1>7, <2>3
    <3>5. m = k
      BY <1>0, <3>6, <3>3, <3>4
    <3>7. Loaded[m] # user[u].caller
      BY <2>3, <3>2
    <3>. QED
      BY <2>3, <3>5, <3>7
  <2>. QED
    BY <1>3, <1>7, <2>2, <2>3
<1>8. CASE i <= Num /\ j <= Num
  <2>. DEFINE Moved(m) == \E u \in Users : Gone(u) /\ Loaded[m] = user[u].caller
  <2>1. \A m \in 1..NumLoaded : Moved(m) => Loaded[m] \notin Members
    BY <1>5
  <2>2. \A m \in 1..Num : ~Moved(m) /\ m \in 1..NumLoaded => Loaded[m] = Array[m]
    BY <1>6
  <2>3. \A m \in 1..NumLoaded : Moved(m) /\ m <= Num => Array[m] = Array[Num + 1]
    <3>1. ASSUME NEW m \in 1..NumLoaded, Moved(m), m <= Num
          PROVE  Array[m] = Array[Num + 1]
      <4>1. m \in 1..Num
        BY <1>0, <3>1
      <4>2. Loaded[m] # Array[m]
        BY <1>2, <2>1, <3>1, <4>1
      <4>. QED
        BY <1>6, <4>2
    <3>. QED
      BY <3>1
  <2>4. i \in 1..Num /\ j \in 1..Num /\ i \in 1..Used /\ j \in 1..Used
    BY <1>0, <1>8
  <2>. HIDE DEF Moved
  <2>5. CASE ~Moved(i) /\ ~Moved(j)
    BY <1>0, <2>2, <2>4, <2>5
  <2>6. CASE Moved(i) /\ Moved(j)
    <3>1. Array[i] = Array[j]
      BY <1>8, <2>3, <2>6
    <3>. QED
      BY <1>0, <2>4, <3>1
  <2>7. Moved(i) <=> Moved(j)
    BY DEF Moved
  <2>. QED
    BY <2>5, <2>6, <2>7
<1>9. CASE i > Num /\ j > Num
  BY <1>3, <1>9
<1>10. Num \in Nat /\ i \in Nat /\ j \in Nat
  BY <1>0
<1>11. CASE i <= Num /\ j > Num
  BY <1>7, <1>11
<1>12. CASE i > Num /\ j <= Num
  BY <1>7, <1>12
<1>. QED
  BY <1>8, <1>9, <1>10, <1>11, <1>12

(***************************************************************************)
(* What the users do to an audio call.                                     *)
(***************************************************************************)
\* A user's step leaves the audio thread where it is.
LEMMA UserFrame ==
  ASSUME Types, Distinct, NEW u \in Users, odd' = {},
         AddBegin(u) \/ RemoveBegin(u) \/ UserStep(u)
  PROVE  /\ UNCHANGED <<audio, heard, outputs>>
         /\ Loaded' = Loaded /\ NumLoaded' = NumLoaded /\ Reached' = Reached
         /\ Busy' = Busy /\ mixer'.is_calling = mixer.is_calling
         /\ steady' \subseteq steady /\ (~RemoveFound(u) => steady' = steady)
<1>1. UNCHANGED <<audio, heard, outputs>>
  BY BeginsEffect, LockEffect, UnlockEffect, InsideEffect DEF UserStep
<1>2. /\ Loaded' = Loaded /\ NumLoaded' = NumLoaded /\ Reached' = Reached
      /\ Busy' = Busy
  BY <1>1 DEF Loaded, NumLoaded, Reached, Ahead, Busy
<1>3. CASE AddBegin(u) \/ RemoveBegin(u) \/ AddLock(u) \/ RemoveLock(u) \/ Unlock(u)
  BY <1>1, <1>2, <1>3, BeginsEffect, LockEffect, UnlockEffect
<1>4. CASE AddPublish(u) \/ AddCount(u) \/ AddFree(u) \/ RemoveFound(u)
  BY <1>1, <1>2, <1>4 DEF AddPublish, AddCount, AddFree, RemoveFound, Types, MixerType
<1>5. CASE RemoveMove(u) \/ RemoveNotFound(u) \/ Wait(u)
  BY <1>1, <1>2, <1>5 DEF RemoveMove, RemoveNotFound, Wait, Types, MixerType
<1>. QED
  BY <1>3, <1>4, <1>5 DEF UserStep

\* Places that an audio call needs to know of.
Marks == {"count", "free", "move", "wait"}

\* Steps of a user that are none of the audio thread's business.
LEMMA QuietStep ==
  ASSUME Types, Distinct, Audible, NEW u \in Users, odd' = {},
         AddBegin(u) \/ RemoveBegin(u) \/ AddLock(u) \/ RemoveLock(u) \/ Unlock(u)
           \/ RemoveNotFound(u)
  PROVE  Reaches' /\ Follows' /\ Loads' /\ KeepsSteady'
<1>1. UNCHANGED <<mixer, arrays>>
  BY BeginsEffect, LockEffect, UnlockEffect DEF RemoveNotFound
<1>2. Array' = Array /\ Num' = Num /\ Members' = Members
  BY <1>1, SameArray, MembersIs DEF Num
<1>3. /\ UNCHANGED <<audio, heard, outputs>> /\ steady' = steady
      /\ Loaded' = Loaded /\ NumLoaded' = NumLoaded /\ Reached' = Reached /\ Busy' = Busy
  <2>1. CASE RemoveNotFound(u)
    BY <2>1, UserFrame DEF UserStep, RemoveNotFound
  <2>. QED
    BY <2>1, UserFrame, BeginsEffect, LockEffect, UnlockEffect DEF UserStep
<1>4. \A v \in Users : user'[v] = user[v] \/ (~At(v, Marks) /\ ~At(v, Marks)')
  <2>1. CASE RemoveNotFound(u)
    <3>1. "search" \in UserPCs /\ "not_found" \in UserPCs
      BY DEF UserPCs, Holding
    <3>. QED
      BY <2>1, <3>1, UserAtEffect DEF RemoveNotFound, At, Marks
  <2>. QED
    BY <2>1, BeginsEffect, LockEffect, UnlockEffect DEF At, Marks
<1>5. \A v \in Users : /\ At(v, {"move"})' <=> At(v, {"move"})
                       /\ Gone(v)' <=> Gone(v)
                       /\ Gone(v) => user'[v].caller = user[v].caller
                       /\ At(v, {"count", "free", "wait"}) =>
                            At(v, {"count", "free", "wait"})' /\ user'[v].old = user[v].old
  BY <1>2, <1>4 DEF At, Marks, Gone
<1>6. Reaches'
  BY <1>2, <1>3, <1>5 DEF Audible, Reaches
<1>7. Follows'
  BY <1>2, <1>3, <1>5 DEF Audible, Follows
<1>8. Loads'
  BY <1>1, <1>2, <1>3, <1>5 DEF Audible, Loads
<1>9. KeepsSteady'
  <2>1. \A v \in Users : At(v, {"move"})' => user'[v].caller = user[v].caller
    BY <1>4 DEF At, Marks
  <2>. QED
    BY <1>2, <1>3, <1>5, <2>1 DEF Audible, KeepsSteady
<1>. QED
  BY <1>6, <1>7, <1>8, <1>9

\* While no caller is being removed, the audio thread is in step with the mixer.
LEMMA InStep ==
  ASSUME Types, Audible, \A v \in Users : ~At(v, {"move", "wait"}), Busy
  PROVE  Reached <= Num /\ \A i \in 1..NumLoaded : Loaded[i] = Array[i] /\ i \in 1..Num
<1>1. \A v \in Users : ~At(v, {"move"}) /\ ~Gone(v)
  BY DEF At, Gone
<1>2. Reached <= Num
  BY <1>1 DEF Audible, Reaches
<1>3. \A i \in 1..NumLoaded : Loaded[i] = Array[i]
  BY <1>1 DEF Audible, Follows
<1>. QED
  BY <1>2, <1>3, AudioNumbers, ArrayType

\* A caller that is added stands behind all others.
LEMMA AddStep ==
  ASSUME Types, Guarded, Distinct, Audible, NEW u \in Users, odd' = {},
         AddPublish(u) \/ AddCount(u) \/ AddFree(u)
  PROVE  Reaches' /\ Follows' /\ Loads' /\ KeepsSteady'
<1>0. /\ Num \in Nat /\ NumLoaded \in Nat /\ Reached \in Nat /\ NumLoaded <= Reached
  BY ArrayType, AudioNumbers
<1>1. /\ UNCHANGED <<audio, heard, outputs>> /\ steady' = steady
      /\ Loaded' = Loaded /\ NumLoaded' = NumLoaded /\ Reached' = Reached /\ Busy' = Busy
  BY UserFrame DEF UserStep, AddPublish, AddCount, AddFree
<1>2. \/ AddPublish(u) /\ user[u].at = "copy" /\ user'[u].at = "count"
      \/ AddCount(u) /\ user[u].at = "count" /\ user'[u].at = "free"
      \/ AddFree(u) /\ user[u].at = "free" /\ user'[u].at = "wait"
  BY AddPublishEffect, UserAtEffect DEF AddCount, AddFree, UserPCs, Holding
<1>3. \A v \in Users \ {u} : user'[v] = user[v] /\ ~At(v, Holding)
  BY <1>2, InsideEffect, Alone
<1>4. \A v \in Users : ~At(v, {"move", "wait"}) /\ ~At(v, {"move"})'
  BY <1>2, <1>3 DEF At, Holding
<1>5. Busy => Reached <= Num /\ \A i \in 1..NumLoaded : Loaded[i] = Array[i] /\ i \in 1..Num
  BY <1>4, InStep
<1>6. Num' \in Nat /\ Num <= Num' /\ \A i \in 1..Num : Array'[i] = Array[i]
  <2>1. CASE AddPublish(u)
    BY <1>0, <2>1, AddPublishEffect
  <2>2. CASE AddCount(u)
    BY <1>0, <2>2, SameArray DEF AddCount, Num, Types, MixerType
  <2>3. CASE AddFree(u)
    BY <1>0, <2>3, SameArray DEF AddFree, Num
  <2>. QED
    BY <1>2, <2>1, <2>2, <2>3
<1>7. Reaches'
  <2>1. Busy => Reached <= Num'
    BY <1>0, <1>5, <1>6
  <2>. QED
    BY <1>1, <2>1 DEF Reaches
<1>8. Follows'
  BY <1>1, <1>5, <1>6 DEF Follows
<1>9. KeepsSteady'
  <2>1. ASSUME NEW i \in NumLoaded + 1..Num
        PROVE  i \in NumLoaded + 1..Num' /\ Array'[i] = Array[i]
    BY <1>0, <1>6
  <2>2. ASSUME Busy, NEW c \in steady
        PROVE  \/ \E i \in 1..NumLoaded : Loaded[i] = c
               \/ audio.at # "end" /\ \E i \in NumLoaded + 1..Num' : Array'[i] = c
    BY <2>1, <2>2 DEF Audible, KeepsSteady
  <2>. QED
    BY <1>1, <1>4, <2>2 DEF KeepsSteady
<1>10. Loads'
  <2>1. SUFFICES ASSUME audio.at = "caller"
                 PROVE  /\ Reached <= Len(arrays'[audio.array])
                        /\ arrays'[audio.array][Reached] = Array'[Reached]
                        /\ \/ audio.array = mixer'.callers
                           \/ /\ At(u, {"count", "free", "wait"})'
                              /\ user'[u].old = audio.array
    BY <1>1 DEF Loads
  <2>2. Reached \in 1..Num
    BY <1>0, <1>5, <2>1 DEF Busy, Reached, Ahead, Types
  <2>3. audio.array \in 1..Len(arrays)
    BY DEF Types
  <2>4. /\ Reached <= Len(arrays[audio.array])
        /\ arrays[audio.array][Reached] = Array[Reached]
        /\ \/ audio.array = mixer.callers
           \/ /\ At(u, {"count", "free", "wait"})
              /\ user[u].old = audio.array
    BY <1>3, <2>1 DEF Audible, Loads, At, Holding
  <2>5. CASE AddPublish(u)
    <3>1. /\ arrays'[audio.array] = arrays[audio.array] /\ user'[u].old = mixer.callers
          /\ At(u, {"copy"}) /\ At(u, {"count"})'
      BY <2>3, <2>5, AddPublishEffect DEF At
    <3>. QED
      BY <1>6, <2>2, <2>4, <3>1 DEF At
  <2>6. CASE AddCount(u) \/ AddFree(u)
    <3>1. arrays' = arrays /\ mixer'.callers = mixer.callers
      BY <2>6 DEF AddCount, AddFree, Types, MixerType
    <3>2. user'[u].old = user[u].old
      BY <2>6, UserAtEffect DEF AddCount, AddFree, UserPCs, Holding
    <3>. QED
      BY <1>2, <1>6, <2>2, <2>4, <2>6, <3>1, <3>2 DEF At
  <2>. QED
    BY <2>5, <2>6
<1>. QED
  BY <1>7, <1>8, <1>9, <1>10

\* While a caller is being taken out, the last place may be one too far.
LEMMA FoundStep ==
  ASSUME Types, Guarded, Distinct, Audible, NEW u \in Users, odd' = {},
         RemoveFound(u)
  PROVE  Reaches' /\ Follows' /\ Loads' /\ KeepsSteady'
<1>0. /\ Num \in Nat /\ NumLoaded \in Nat /\ Reached \in Nat /\ NumLoaded <= Reached
      /\ Len(Array) \in Nat /\ Num <= Used /\ Used \in Nat /\ Used <= Len(Array)
  BY ArrayType, AudioNumbers DEF Distinct, Used
<1>1. /\ UNCHANGED <<audio, heard, outputs>> /\ steady' \subseteq steady
      /\ Loaded' = Loaded /\ NumLoaded' = NumLoaded /\ Reached' = Reached /\ Busy' = Busy
  BY UserFrame DEF UserStep
<1>2. /\ user[u].at = "search" /\ user'[u].at = "move"
      /\ user'[u].caller = user[u].caller
      /\ \A v \in Users \ {u} : user'[v] = user[v]
  BY UserAtEffect DEF RemoveFound, UserPCs, Holding
<1>3. \A v \in Users \ {u} : ~At(v, Holding)
  BY <1>2, Alone DEF At, Holding
<1>4. \A v \in Users : ~At(v, {"move", "wait"}) /\ (At(v, {"move"})' => v = u)
  BY <1>2, <1>3 DEF At, Holding
<1>5. Busy => Reached <= Num /\ \A i \in 1..NumLoaded : Loaded[i] = Array[i] /\ i \in 1..Num
  BY <1>4, InStep
<1>6. Array' = Array /\ mixer'.callers = mixer.callers /\ Num' = Num - 1 /\ Num - 1 \in Nat
  <2>1. Num - 1 \in Nat
    BY <1>0 DEF RemoveFound, Place, Num
  <2>. QED
    BY <2>1, SameArray DEF RemoveFound, Num, Types, MixerType
<1>7. Reaches'
  <2>1. Busy => Reached <= Num - 1 \/ (Reached = (Num - 1) + 1 /\ Reached <= Len(Array))
    BY <1>0, <1>5, <1>6
  <2>2. At(u, {"move"})'
    BY <1>2 DEF At
  <2>. QED
    BY <1>1, <1>6, <2>1, <2>2 DEF Reaches
<1>8. Follows'
  BY <1>1, <1>5, <1>6 DEF Follows
<1>9. Loads'
  <2>1. arrays' = arrays
    BY DEF RemoveFound
  <2>2. audio.at = "caller" =>
          /\ Reached <= Len(arrays[audio.array])
          /\ arrays[audio.array][Reached] = Array[Reached]
          /\ audio.array = mixer.callers
    BY <1>2, <1>3 DEF Audible, Loads, At, Holding
  <2>. QED
    BY <1>1, <1>6, <2>1, <2>2 DEF Loads
<1>10. KeepsSteady'
  <2>1. steady' = steady \ {user[u].caller, Array[Num]}
    BY DEF RemoveFound, Array, Num
  <2>2. ASSUME Busy, NEW c \in steady'
        PROVE  \/ \E i \in 1..NumLoaded : Loaded[i] = c
               \/ audio.at # "end" /\ \E i \in NumLoaded + 1..Num - 1 : Array[i] = c
    <3>1. c # Array[Num] /\ c \in steady
      BY <2>1, <2>2
    <3>2. CASE \E i \in NumLoaded + 1..Num : Array[i] = c
      <4>1. PICK i \in NumLoaded + 1..Num : Array[i] = c
        BY <3>2
      <4>2. i # Num
        BY <3>1, <4>1
      <4>3. i \in NumLoaded + 1..Num - 1
        BY <1>0, <4>2
      <4>4. CASE audio.at # "end"
        BY <4>1, <4>3, <4>4
      <4>5. CASE audio.at = "end"
        BY <2>2, <3>1, <4>5 DEF Audible, KeepsSteady
      <4>. QED
        BY <4>4, <4>5
    <3>. QED
      BY <2>2, <3>1, <3>2 DEF Audible, KeepsSteady
  <2>3. \A v \in Users : At(v, {"move"})' => user'[v].caller \notin steady'
    BY <1>2, <1>4, <2>1
  <2>. QED
    BY <1>1, <1>6, <2>2, <2>3 DEF KeepsSteady
<1>. QED
  BY <1>7, <1>8, <1>9, <1>10

\* When the last caller takes the place of the removed one, whoever was loaded
\* from one of the two places was not loaded from the other.
LEMMA MoveStep ==
  ASSUME Types, Guarded, Distinct, Changing, Audible, NEW u \in Users, odd' = {},
         RemoveMove(u)
  PROVE  Reaches' /\ Follows' /\ Loads' /\ KeepsSteady'
<1>0. /\ Num \in Nat /\ NumLoaded \in Nat /\ Reached \in Nat /\ NumLoaded <= Reached
      /\ Reached <= NumLoaded + 1 /\ Len(Array) \in Nat
  BY ArrayType, AudioNumbers
<1>1. /\ UNCHANGED <<audio, heard, outputs>> /\ steady' = steady
      /\ Loaded' = Loaded /\ NumLoaded' = NumLoaded /\ Reached' = Reached /\ Busy' = Busy
  BY UserFrame DEF UserStep, RemoveMove
<1>2. /\ user[u].at = "move" /\ user'[u].at = "wait"
      /\ user'[u].caller = user[u].caller
      /\ \A v \in Users \ {u} : user'[v] = user[v]
      /\ mixer'.callers = mixer.callers /\ Num' = Num
      /\ Len(Array') = Len(Array) /\ Num + 1 <= Len(Array)
  BY RemoveMoveEffect
<1>3. \A v \in Users \ {u} : ~At(v, Holding)
  BY <1>2, Alone DEF At, Holding
<1>4. PICK p \in 1..Num :
        /\ Array[p] = user[u].caller
        /\ \A i \in 1..Len(Array) :
             Array'[i] = IF i = p THEN Array[Num + 1] ELSE Array[i]
  BY RemoveMoveEffect
<1>5. /\ \A v \in Users : ~Gone(v)
      /\ \A v \in Users : ~At(v, {"move"})'
  BY <1>2, <1>3 DEF Gone, At, Holding
<1>6. Busy => /\ Reached <= Num + 1
              /\ \A i \in 1..NumLoaded : Loaded[i] = Array[i] /\ i \in 1..Len(Array)
  <2>1. Busy => Reached <= Num + 1
    BY <1>0 DEF Audible, Reaches
  <2>2. Busy => \A i \in 1..NumLoaded : Loaded[i] = Array[i]
    BY <1>5 DEF Audible, Follows
  <2>. QED
    BY <1>0, <1>2, <2>1, <2>2
<1>7. /\ \A i \in 1..Num : i # p => Array'[i] = Array[i]
      /\ Array'[p] = Array[Num + 1] /\ Array'[Num + 1] = Array[Num + 1]
  BY <1>0, <1>2, <1>4
<1>8. Gone(u)'
  <2>1. Used = Num + 1
    BY <1>2 DEF Used, At
  <2>2. \A i \in 1..Num : Array'[i] # user[u].caller
    BY <1>0, <1>4, <1>7, <2>1 DEF Distinct
  <2>. QED
    BY <1>2, <2>2, MembersIs DEF Gone, At
<1>9. Reaches'
  <2>1. ASSUME Busy, Reached = Num + 1
        PROVE  Loaded[p] = user'[u].caller
    BY <1>0, <1>2, <1>4, <1>6, <2>1
  <2>2. Busy => Reached <= Num \/ (Reached = Num + 1 /\ Reached <= Len(Array))
    BY <1>0, <1>2, <1>6
  <2>. QED
    BY <1>1, <1>2, <1>7, <1>8, <2>1, <2>2 DEF Reaches
<1>10. Follows'
  <2>1. ASSUME Busy, NEW i \in 1..NumLoaded
        PROVE  \/ Loaded[i] = Array'[i]
               \/ i = p /\ Loaded[i] = user'[u].caller
    BY <1>2, <1>4, <1>6, <2>1
  <2>2. p <= Num
    BY <1>0
  <2>. QED
    BY <1>1, <1>2, <1>7, <1>8, <2>1, <2>2 DEF Follows
<1>11. Loads'
  <2>1. audio.at = "caller" =>
          /\ Reached <= Len(arrays[audio.array])
          /\ audio.array = mixer.callers
    BY <1>2, <1>3 DEF Audible, Loads, At, Holding
  <2>2. audio.at = "caller" => Reached <= Len(Array')
    BY <1>2, <2>1 DEF Array
  <2>. QED
    BY <1>1, <1>2, <2>1, <2>2 DEF Loads, Array
<1>12. KeepsSteady'
  <2>1. ASSUME Busy, NEW c \in steady
        PROVE  \/ \E i \in 1..NumLoaded : Loaded[i] = c
               \/ audio.at # "end" /\ \E i \in NumLoaded + 1..Num : Array'[i] = c
    <3>1. user[u].caller \notin steady
      BY <1>2, <2>1 DEF Audible, KeepsSteady, At
    <3>2. ASSUME NEW i \in NumLoaded + 1..Num, Array[i] = c
          PROVE  Array'[i] = c
      <4>1. i # p
        BY <1>4, <3>1, <3>2
      <4>2. i \in 1..Num
        BY <1>0
      <4>. QED
        BY <1>7, <3>2, <4>1, <4>2
    <3>. QED
      BY <2>1, <3>2 DEF Audible, KeepsSteady
  <2>. QED
    BY <1>1, <1>2, <1>5, <2>1 DEF KeepsSteady
<1>. QED
  BY <1>9, <1>10, <1>11, <1>12

\* Whatever a user does, what the audio thread is doing stays right.
LEMMA AudibleUserStep ==
  ASSUME Types, Guarded, Distinct, Changing, Audible, NEW u \in Users, odd' = {},
         AddBegin(u) \/ RemoveBegin(u) \/ UserStep(u)
  PROVE  Audible'
<1>0. /\ Num \in Nat /\ Reached \in Nat
  BY ArrayType, AudioNumbers
<1>1. /\ UNCHANGED <<audio, heard, outputs>> /\ mixer'.is_calling = mixer.is_calling
      /\ Reached' = Reached /\ Busy' = Busy
  BY UserFrame
<1>2. Hears'
  BY <1>1 DEF Audible, Hears
<1>3. CASE Wait(u)
  <2>1. ~Busy
    BY <1>3 DEF Wait, Audible, Hears
  <2>. QED
    BY <1>1, <1>2, <2>1 DEF Audible, Reaches, Follows, Loads, CallsCallable,
                            KeepsSteady, Busy
<1>4. CASE ~Wait(u)
  <2>1. Reaches' /\ Follows' /\ Loads' /\ KeepsSteady'
    BY <1>4, QuietStep, AddStep, FoundStep, MoveStep DEF UserStep
  <2>2. \A x \in Callable : x \in Callable'
    BY <1>4, CallableStep
  <2>3. CASE audio.at \in {"array", "caller"}
    <3>1. Busy /\ Reached \in Nat \ {0}
      BY <2>3, AudioNumbers DEF Busy, Reached, Ahead
    <3>2. Array[Reached] \in Callable
      BY <2>3 DEF Audible, CallsCallable
    <3>3. Array'[Reached] = Array[Reached] \/ Array'[Reached] \in Callable'
      <4>1. CASE RemoveMove(u)
        <5>1. PICK p \in 1..Num :
                \A i \in 1..Len(Array) :
                  Array'[i] = IF i = p THEN Array[Num + 1] ELSE Array[i]
          BY <4>1, RemoveMoveEffect
        <5>2. Reached <= Len(Array) /\ Len(Array) \in Nat /\ Num' = Num
          BY <3>1, <4>1, ReachedIsThere, RemoveMoveEffect, ArrayType DEF Audible
        <5>3. Reached # p => Array'[Reached] = Array[Reached]
          BY <3>1, <5>1, <5>2
        <5>4. Array'[p] \in Callable'
          BY <5>2, MembersIs, CallableIsNext
        <5>. QED
          BY <5>3, <5>4
      <4>2. CASE AddPublish(u)
        <5>1. \A v \in Users : ~At(v, {"move", "wait"})
          BY <4>2, AddPublishEffect, Alone DEF At, Holding
        <5>2. Reached <= Num
          BY <3>1, <5>1, InStep
        <5>. QED
          BY <1>0, <3>1, <4>2, <5>2, AddPublishEffect
      <4>3. CASE ~RemoveMove(u) /\ ~AddPublish(u)
        <5>1. Array' = Array
          BY <1>4, <4>3, BeginsEffect, LockEffect, UnlockEffect, SameArray
          DEF UserStep, AddCount, AddFree, RemoveFound, RemoveNotFound, Types, MixerType
        <5>. QED
          BY <5>1
      <4>. QED
        BY <4>1, <4>2, <4>3
    <3>. QED
      BY <1>1, <1>2, <2>1, <2>2, <2>3, <3>2, <3>3 DEF Audible, CallsCallable
  <2>4. CASE audio.at \notin {"array", "caller"}
    BY <1>1, <1>2, <2>1, <2>2, <2>4 DEF Audible, CallsCallable
  <2>. QED
    BY <2>3, <2>4
<1>. QED
  BY <1>3, <1>4

(***************************************************************************)
(* What the audio thread does to an audio call.                            *)
(***************************************************************************)
\* An audio call begins with nobody heard and everybody in front of it.
LEMMA BeginStep ==
  ASSUME Types, Distinct, Audible, CallBegin
  PROVE  Audible'
<1>0. Num \in Nat
  BY ArrayType
<1>1. /\ Num' = Num /\ Array' = Array /\ Members' = Members
      /\ \A u \in Users : \A S : At(u, S)' <=> At(u, S)
      /\ user' = user
  BY AudioFrame
<1>2. /\ audio'.at = "loop" /\ audio'.lokke = 0 /\ Len(heard') = 0
      /\ mixer'.is_calling = 1 /\ steady' = Members \ BeingMoved
  BY DEF CallBegin, Types, MixerType, Audible, Hears, Busy
<1>3. Busy' /\ Reached' = 0 /\ NumLoaded' = 0
  BY <1>2 DEF Busy, Reached, NumLoaded, Ahead
<1>4. Hears'
  BY <1>2, <1>3 DEF Hears
<1>5. Reaches' /\ Follows' /\ Loads' /\ CallsCallable'
  BY <1>0, <1>1, <1>2, <1>3 DEF Reaches, Follows, Loads, CallsCallable
<1>6. KeepsSteady'
  <2>1. \A c \in steady' : \E i \in 1..Num : Array[i] = c
    BY <1>2, MembersIs
  <2>2. \A u \in Users : At(u, {"move"}) => user[u].caller \notin steady'
    BY <1>2 DEF BeingMoved, At
  <2>3. NumLoaded' + 1 = 1
    BY <1>3
  <2>. QED
    BY <1>1, <1>2, <2>1, <2>2, <2>3 DEF KeepsSteady
<1>. QED
  BY <1>4, <1>5, <1>6 DEF Audible

\* It goes on as long as the mixer says that there is another caller.
LEMMA LoopStep ==
  ASSUME Types, Distinct, Audible, CallLoop
  PROVE  Audible'
<1>0. Num \in Nat /\ audio.lokke \in Nat /\ mixer.num_callers = Num
  BY ArrayType DEF Types, Num
<1>1. /\ Num' = Num /\ Array' = Array /\ Members' = Members /\ Callable' = Callable
      /\ \A u \in Users : \A S : At(u, S)' <=> At(u, S)
      /\ \A u \in Users : Gone(u)' <=> Gone(u)
      /\ user' = user
  BY AudioFrame DEF AudioStep
<1>2. /\ audio.at = "loop" /\ UNCHANGED <<heard, steady, mixer>>
      /\ audio'.lokke = audio.lokke /\ audio'.caller = audio.caller
      /\ \/ audio'.at = "end" /\ audio.lokke >= Num
         \/ audio'.at = "array" /\ audio.lokke + 1 <= Num
  BY <1>0 DEF CallLoop, AudioAt, Types
<1>3. /\ Busy /\ Busy' /\ Loaded' = Loaded
      /\ NumLoaded = audio.lokke /\ NumLoaded' = audio.lokke /\ Reached = audio.lokke
      /\ audio'.at = "end" => Reached' = audio.lokke
      /\ audio'.at = "array" => Reached' = audio.lokke + 1
  BY <1>2 DEF Busy, Loaded, NumLoaded, Reached, Ahead
<1>4. Hears'
  BY <1>2, <1>3 DEF Audible, Hears
<1>5. Follows' /\ Loads'
  BY <1>1, <1>2, <1>3 DEF Audible, Follows, Loads
<1>6. Reaches'
  BY <1>1, <1>2, <1>3 DEF Audible, Reaches
<1>7. CallsCallable'
  <2>1. audio'.at = "array" => Array[audio.lokke + 1] \in Members
    BY <1>0, <1>2, MembersIs
  <2>2. audio'.at = "array" => Array[audio.lokke + 1] \in Callable
    BY <2>1, CallableIs
  <2>. QED
    BY <1>1, <1>2, <1>3, <2>2 DEF CallsCallable
<1>8. KeepsSteady'
  <2>1. audio'.at = "end" => \A i \in NumLoaded + 1..Num : FALSE
    BY <1>0, <1>2, <1>3
  <2>. QED
    BY <1>1, <1>2, <1>3, <2>1 DEF Audible, KeepsSteady
<1>. QED
  BY <1>4, <1>5, <1>6, <1>7, <1>8 DEF Audible

\* It loads the mixer's pointer, which may be replaced by the next step.
LEMMA LoadArrayStep ==
  ASSUME Types, Distinct, Audible, CallLoadArray
  PROVE  Audible'
<1>1. /\ Num' = Num /\ Array' = Array /\ Members' = Members /\ Callable' = Callable
      /\ \A u \in Users : \A S : At(u, S)' <=> At(u, S)
      /\ \A u \in Users : Gone(u)' <=> Gone(u)
      /\ user' = user /\ arrays' = arrays
  BY AudioFrame DEF AudioStep
<1>2. /\ audio.at = "array" /\ UNCHANGED <<heard, steady, mixer>>
      /\ audio'.lokke = audio.lokke /\ audio'.caller = audio.caller
      /\ audio'.at = "caller" /\ audio'.array = mixer.callers
  BY DEF CallLoadArray, Types
<1>3. /\ Busy /\ Busy' /\ Loaded' = Loaded /\ NumLoaded' = NumLoaded /\ Reached' = Reached
  BY <1>2 DEF Busy, Loaded, NumLoaded, Reached, Ahead
<1>4. Hears'
  BY <1>2, <1>3 DEF Audible, Hears
<1>5. Follows' /\ Reaches' /\ CallsCallable'
  BY <1>1, <1>2, <1>3 DEF Audible, Follows, Reaches, CallsCallable
<1>6. Loads'
  <2>1. Reached <= Len(Array)
    BY <1>3, ReachedIsThere DEF Audible
  <2>. QED
    BY <1>1, <1>2, <1>3, <2>1 DEF Loads, Array
<1>7. KeepsSteady'
  BY <1>1, <1>2, <1>3 DEF Audible, KeepsSteady
<1>. QED
  BY <1>4, <1>5, <1>6, <1>7 DEF Audible

\* It loads the caller of the place it has reached.
LEMMA LoadCallerStep ==
  ASSUME Types, Distinct, Audible, CallLoadCaller
  PROVE  Audible'
<1>0. Num \in Nat /\ audio.lokke \in Nat
  BY ArrayType DEF Types
<1>1. /\ Num' = Num /\ Array' = Array /\ Members' = Members /\ Callable' = Callable
      /\ \A u \in Users : \A S : At(u, S)' <=> At(u, S)
      /\ \A u \in Users : Gone(u)' <=> Gone(u)
      /\ user' = user
  BY AudioFrame DEF AudioStep
<1>2. /\ audio.at = "caller" /\ UNCHANGED <<heard, steady, mixer>>
      /\ audio'.lokke = audio.lokke /\ audio'.at = "call"
      /\ audio'.caller = arrays[audio.array][audio.lokke + 1]
  <2>1. audio.at = "caller" /\ Reached = audio.lokke + 1
    BY DEF CallLoadCaller, Reached, Ahead
  <2>2. Len(arrays[audio.array]) \in Nat
    BY ElementOfSeq, LenProperties DEF Types
  <2>3. audio.lokke < Len(arrays[audio.array])
    BY <1>0, <2>1, <2>2 DEF Audible, Loads
  <2>. QED
    BY <2>1, <2>3 DEF CallLoadCaller, Types
<1>3. /\ Busy /\ Busy' /\ NumLoaded = audio.lokke /\ NumLoaded' = audio.lokke + 1
      /\ Reached = audio.lokke + 1 /\ Reached' = Reached
  BY <1>2 DEF Busy, NumLoaded, Reached, Ahead
<1>4. audio'.caller = Array[Reached] /\ Array[Reached] \in Callable
  BY <1>2, <1>3 DEF Audible, Loads, CallsCallable
<1>5. /\ \A i \in 1..audio.lokke : Loaded'[i] = Loaded[i]
      /\ Loaded'[audio.lokke + 1] = Array[audio.lokke + 1]
  BY <1>0, <1>2, <1>3, <1>4 DEF Loaded
<1>6. Hears'
  <2>1. Reached \in 1..Len(Array) /\ Array \in Seq(Callers)
    BY <1>0, <1>3, ReachedIsThere, ArrayType DEF Audible
  <2>2. Array[Reached] \in Callers
    BY <2>1, ElementOfSeq
  <2>. QED
    BY <1>2, <1>3, <1>4, <2>2 DEF Audible, Hears
<1>7. Reaches'
  <2>1. ASSUME Reached = Num + 1, NEW i \in 1..Num
        PROVE  Loaded'[i] = Loaded[i]
    BY <1>0, <1>3, <1>5, <2>1
  <2>. QED
    BY <1>1, <1>3, <2>1 DEF Audible, Reaches
<1>8. Follows'
  <2>1. ASSUME NEW i \in 1..audio.lokke + 1
        PROVE  \/ Loaded'[i] = Array[i]
               \/ i \in 1..NumLoaded /\ Loaded'[i] = Loaded[i]
    BY <1>0, <1>3, <1>5
  <2>2. \A i \in 1..NumLoaded :
          \/ Loaded[i] = Array[i]
          \/ i <= Num /\ Array[i] = Array[Num + 1]
               /\ \E u \in Users : Gone(u) /\ Loaded[i] = user[u].caller
    BY <1>3 DEF Audible, Follows
  <2>. QED
    BY <1>1, <1>3, <2>1, <2>2 DEF Follows
<1>9. Loads' /\ CallsCallable'
  BY <1>1, <1>2, <1>4 DEF Loads, CallsCallable
<1>10. KeepsSteady'
  <2>1. ASSUME NEW c \in steady
        PROVE  \/ \E i \in 1..audio.lokke + 1 : Loaded'[i] = c
               \/ \E i \in (audio.lokke + 1) + 1..Num : Array[i] = c
    <3>1. CASE \E i \in 1..NumLoaded : Loaded[i] = c
      BY <1>0, <1>3, <1>5, <3>1
    <3>2. ASSUME NEW i \in NumLoaded + 1..Num, Array[i] = c
          PROVE  \/ Loaded'[audio.lokke + 1] = c
                 \/ i \in (audio.lokke + 1) + 1..Num
      BY <1>0, <1>3, <1>5, <3>2
    <3>3. audio.lokke + 1 \in 1..audio.lokke + 1
      BY <1>0
    <3>. QED
      BY <1>3, <2>1, <3>1, <3>2, <3>3 DEF Audible, KeepsSteady
  <2>. QED
    BY <1>1, <1>2, <1>3, <2>1 DEF Audible, KeepsSteady
<1>. QED
  BY <1>6, <1>7, <1>8, <1>9, <1>10 DEF Audible

\* It calls that caller, whom it has not heard before.
LEMMA MixStep ==
  ASSUME Types, Guarded, Distinct, Audible, CallAndMix
  PROVE  Audible'
<1>0. Num \in Nat /\ audio.lokke \in Nat
  BY ArrayType DEF Types
<1>1. /\ Num' = Num /\ Array' = Array /\ Members' = Members /\ Callable' = Callable
      /\ \A u \in Users : \A S : At(u, S)' <=> At(u, S)
      /\ \A u \in Users : Gone(u)' <=> Gone(u)
      /\ user' = user
  BY AudioFrame DEF AudioStep
<1>2. /\ audio.at = "call" /\ UNCHANGED <<steady, mixer>>
      /\ audio'.lokke = audio.lokke + 1 /\ audio'.at = "loop"
      /\ audio'.caller = audio.caller
  BY DEF CallAndMix, Types
<1>3. PICK d : heard' = Append(heard, [caller |-> audio.caller, data |-> d])
  BY DEF CallAndMix
<1>4. heard \in Seq(Hearings) /\ Len(heard) = audio.lokke
  BY DEF Types, Audible, Hears
<1>5. /\ Len(heard') = audio.lokke + 1
      /\ \A i \in 1..audio.lokke : heard'[i] = heard[i]
      /\ heard'[audio.lokke + 1].caller = audio.caller
  BY <1>0, <1>3, <1>4, AppendProperties
<1>6. /\ Busy /\ Busy' /\ NumLoaded = audio.lokke + 1 /\ NumLoaded' = audio.lokke + 1
      /\ Reached = audio.lokke + 1 /\ Reached' = Reached
  BY <1>2 DEF Busy, NumLoaded, Reached, Ahead
<1>7. \A i \in 1..audio.lokke + 1 : /\ heard'[i].caller = Loaded[i]
                                    /\ Loaded'[i] = Loaded[i]
  BY <1>0, <1>2, <1>5 DEF Loaded
<1>8. Hears'
  <2>1. \A i, j \in 1..audio.lokke + 1 : Loaded[i] = Loaded[j] => i = j
    BY <1>6, LoadedOnce DEF Audible
  <2>. QED
    BY <1>2, <1>5, <1>6, <1>7, <2>1 DEF Audible, Hears
<1>9. Reaches'
  <2>1. ASSUME Reached = Num + 1, NEW i \in 1..Num
        PROVE  Loaded'[i] = Loaded[i]
    BY <1>0, <1>6, <1>7, <2>1
  <2>. QED
    BY <1>1, <1>6, <2>1 DEF Audible, Reaches
<1>10. Follows'
  BY <1>1, <1>6, <1>7 DEF Audible, Follows
<1>11. Loads' /\ CallsCallable'
  BY <1>2 DEF Loads, CallsCallable
<1>12. KeepsSteady'
  <2>1. \A i \in 1..NumLoaded : Loaded'[i] = Loaded[i]
    BY <1>6, <1>7
  <2>2. NumLoaded' = NumLoaded
    BY <1>6
  <2>. QED
    BY <1>1, <1>2, <1>6, <2>1, <2>2 DEF Audible, KeepsSteady
<1>. QED
  BY <1>8, <1>9, <1>10, <1>11, <1>12 DEF Audible

\* It is outside again.
LEMMA EndStep ==
  ASSUME Types, Audible, CallEnd
  PROVE  Audible'
<1>1. /\ audio'.at = "idle" /\ audio'.lokke = 0 /\ heard' = <<>>
      /\ mixer'.is_calling = 0
  BY DEF CallEnd, outside, Types, MixerType
<1>2. ~Busy'
  BY <1>1 DEF Busy
<1>. QED
  BY <1>1, <1>2
  DEF Audible, Hears, Reaches, Follows, Loads, CallsCallable, KeepsSteady

\* The first caller's data replaces what was there, that of the others is added.
LEMMA SumsStep ==
  ASSUME Types, Audible, Sums, CallBegin \/ AudioStep
  PROVE  Sums'
<1>1. CASE CallAndMix
  <2>1. PICK d : /\ heard' = Append(heard, [caller |-> audio.caller, data |-> d])
                 /\ outputs' = [o \in 1..Ports |->
                      (IF audio.lokke = 0 THEN {} ELSE outputs[o])
                        \cup (IF o <= OutputsOf[audio.caller] THEN {d} ELSE {})]
    BY <1>1 DEF CallAndMix
  <2>2. heard \in Seq(Hearings) /\ Len(heard) = audio.lokke /\ audio.lokke \in Nat
    BY DEF Types, Audible, Hears
  <2>. DEFINE new == [caller |-> audio.caller, data |-> d]
              Summed(o, S) == {h.data : h \in {g \in S : o <= OutputsOf[g.caller]}}
  <2>3. ToSet(heard') = ToSet(heard) \cup {new}
    BY <2>1, <2>2, AppendProperties DEF ToSet
  <2>4. audio.lokke = 0 => ToSet(heard) = {}
    BY <2>2 DEF ToSet
  <2>5. ASSUME NEW o \in 1..Ports
        PROVE  (IF audio.lokke = 0 THEN {} ELSE outputs[o]) = Summed(o, ToSet(heard))
    <3>1. CASE audio.lokke = 0
      BY <2>4, <3>1
    <3>2. CASE audio.lokke # 0
      <4>1. heard # <<>>
        BY <2>2, <3>2
      <4>. QED
        BY <3>2, <4>1 DEF Sums
    <3>. QED
      BY <3>1, <3>2
  <2>6. ASSUME NEW o \in 1..Ports
        PROVE  Summed(o, ToSet(heard) \cup {new}) =
                 Summed(o, ToSet(heard))
                   \cup (IF o <= OutputsOf[audio.caller] THEN {d} ELSE {})
    <3>1. new.caller = audio.caller /\ new.data = d
      OBVIOUS
    <3>. HIDE DEF new
    <3>. QED
      BY <3>1
  <2>7. \A o \in 1..Ports : outputs'[o] = Summed(o, ToSet(heard'))
    BY <2>1, <2>3, <2>5, <2>6
  <2>. QED
    BY <2>7 DEF Sums
<1>2. CASE CallBegin
  BY <1>2 DEF CallBegin, Sums
<1>3. CASE CallLoop \/ CallLoadArray \/ CallLoadCaller \/ CallEnd
  <2>1. CASE CallEnd
    BY <2>1 DEF CallEnd, Sums
  <2>. QED
    BY <1>3, <2>1 DEF CallLoop, CallLoadArray, CallLoadCaller, Sums
<1>. QED
  BY <1>1, <1>2, <1>3 DEF AudioStep

(***************************************************************************)
(* The theorems.                                                           *)
(***************************************************************************)
\* Nothing is in the mixer at first, and the audio thread is outside.
LEMMA InitInv == Init => Inv
<1>. SUFFICES ASSUME Init PROVE Inv
  OBVIOUS
<1>1. Types
  BY InitTypes
<1>2. /\ \A u \in Users : user[u].at = "idle" /\ mutex = "free"
      /\ mixer.callers = 1 /\ mixer.num_callers = 0 /\ mixer.is_calling = 0
      /\ arrays[1] = <<>> /\ freed = {} /\ audio.at = "idle" /\ audio.lokke = 0
      /\ heard = <<>>
  BY DEF Init, outside, idle
<1>3. Array = <<>> /\ Num = 0 /\ ~Busy
  BY <1>2 DEF Array, Num, Busy
<1>4. \A u \in Users : ~At(u, {"count", "move"}) /\ ~At(u, Holding) /\ At(u, {"idle"})
  BY <1>2 DEF At, Holding
<1>5. Guarded
  BY <1>2, <1>4, MixerAssumption DEF Guarded, MixerAssumption
<1>6. Distinct
  BY <1>3, <1>4 DEF Distinct, Used
<1>7. Changing
  BY <1>2 DEF Changing, Knows, At
<1>8. Audible
  BY <1>2, <1>3
  DEF Audible, Hears, Reaches, Follows, Loads, CallsCallable, KeepsSteady
<1>. QED
  BY <1>1, <1>2, <1>5, <1>6, <1>7, <1>8 DEF Inv, Sums

\* What is odd stays so.
LEMMA OddStays ==
  ASSUME [Next]_mixVars, odd' = {}
  PROVE  odd = {}
<1>1. \A o \in odd : o \in odd'
  <2>1. CASE CallBegin \/ AudioStep
    BY <2>1 DEF CallBegin, AudioStep, CallLoop, CallLoadArray, CallLoadCaller,
                CallAndMix, CallEnd
  <2>2. ASSUME NEW u \in Users, AddBegin(u) \/ RemoveBegin(u) \/ WaitOvertaken(u)
        PROVE  \A o \in odd : o \in odd'
    BY <2>2 DEF AddBegin, RemoveBegin, Begin, WaitOvertaken
  <2>3. ASSUME NEW u \in Users, UserStep(u)
        PROVE  odd' = odd
    BY <2>3 DEF UserStep, AddLock, AddPublish, AddCount, AddFree, RemoveLock,
         RemoveFound, RemoveMove, RemoveNotFound, Wait, Unlock, Lock
  <2>4. CASE UNCHANGED mixVars
    BY <2>4 DEF mixVars
  <2>. QED
    BY <2>1, <2>2, <2>3, <2>4 DEF Next
<1>. QED
  BY <1>1

\* Every step that is not odd keeps the invariant.
LEMMA NextInv == ASSUME Inv, [Next]_mixVars, odd' = {} PROVE Inv'
<1>0. Types /\ Guarded /\ Distinct /\ Changing /\ Audible /\ Sums
  BY DEF Inv
<1>1. CASE CallBegin \/ AudioStep
  <2>1. Types' /\ Guarded' /\ Distinct' /\ Changing' /\ Sums'
    BY <1>0, <1>1, AudioTypes, AudioKeepsUsers, SumsStep
  <2>2. Audible'
    BY <1>0, <1>1, BeginStep, LoopStep, LoadArrayStep, LoadCallerStep, MixStep, EndStep
    DEF AudioStep
  <2>. QED
    BY <2>1, <2>2 DEF Inv
<1>2. ASSUME NEW u \in Users, AddBegin(u) \/ RemoveBegin(u) \/ UserStep(u)
      PROVE  Inv'
  <2>1. Types' /\ Guarded'
    BY <1>0, <1>2, UserTypes, GuardedStep
  <2>2. Distinct' /\ Changing'
    BY <1>0, <1>2, <2>1, DistinctStep, ChangingStep
  <2>3. Audible'
    BY <1>0, <1>2, AudibleUserStep
  <2>4. UNCHANGED <<heard, outputs>>
    BY <1>0, <1>2, UserFrame
  <2>5. Sums'
    BY <1>0, <2>4 DEF Sums
  <2>. QED
    BY <2>1, <2>2, <2>3, <2>5 DEF Inv
<1>4. ASSUME NEW u \in Users PROVE ~WaitOvertaken(u)
  BY DEF WaitOvertaken
<1>3. CASE UNCHANGED mixVars
  <2>1. UNCHANGED <<mixer, arrays, freed, mutex, user, audio, outputs, heard, steady>>
    BY <1>3 DEF mixVars, users, sound
  <2>2. Types' /\ Guarded' /\ Sums'
    BY <1>0, <2>1 DEF Types, MixerType, Guarded, At, Sums
  <2>3. /\ Array' = Array /\ Num' = Num /\ Members' = Members /\ Callable' = Callable
        /\ Loaded' = Loaded /\ NumLoaded' = NumLoaded /\ Reached' = Reached /\ Busy' = Busy
        /\ \A u \in Users : \A S : At(u, S)' <=> At(u, S)
    BY <2>1 DEF Array, Num, Members, Callable, Loaded, NumLoaded, Reached, Ahead, Busy, At
  <2>4. Distinct' /\ Changing'
    BY <1>0, <2>1, <2>3 DEF Distinct, Used, Changing, Knows
  <2>5. \A u \in Users : Gone(u)' <=> Gone(u)
    BY <2>1, <2>3 DEF Gone
  <2>6. Audible'
    BY <1>0, <2>1, <2>3, <2>5
    DEF Audible, Hears, Reaches, Follows, Loads, CallsCallable, KeepsSteady
  <2>. QED
    BY <2>2, <2>4, <2>6 DEF Inv
<1>. QED
  BY <1>1, <1>2, <1>3, <1>4 DEF Next

\* The invariant holds until something odd happens.
LEMMA AlwaysInv == Spec => [](Orderly => Inv)
<1>1. Init => (Orderly => Inv)
  BY InitInv
<1>2. (Orderly => Inv) /\ [Next]_mixVars => (Orderly => Inv)'
  BY OddStays, NextInv DEF Orderly
<1>. QED
  BY <1>1, <1>2, PTL DEF Spec

\* The element the audio thread loads is there, however many callers are added and
\* removed between its comparison of lokke with num_callers and its two loads.  This and
\* the next theorems need that every look at is_calling sees the last store, which nothing
\* in the code sees to, and that no caller is added twice or worked on by two users at
\* once (Orderly).
THEOREM AlwaysInBounds == Spec => [](Orderly => InBounds)
<1>1. Inv => InBounds
  <2>. SUFFICES ASSUME Inv, audio.at = "caller"
                PROVE  audio.lokke < Len(arrays[audio.array])
    BY DEF InBounds
  <2>1. audio.lokke + 1 <= Len(arrays[audio.array])
    BY DEF Inv, Audible, Loads, Reached, Ahead
  <2>2. audio.lokke \in Nat /\ arrays[audio.array] \in Seq(Callers)
    BY ElementOfSeq DEF Inv, Types
  <2>. QED
    BY <2>1, <2>2, LenProperties
<1>. QED
  BY <1>1, AlwaysInv, PTL

\* Nobody is called twice in an audio call, and whoever no change was about is
\* called, although a removal moves a caller to another place meanwhile, if Orderly.
THEOREM AlwaysEachHeardOnce == Spec => [](Orderly => EachHeardOnce)
<1>1. Inv => EachHeardOnce
  <2>. SUFFICES ASSUME Inv PROVE EachHeardOnce
    OBVIOUS
  <2>1. /\ heard \in Seq(Hearings) /\ Len(heard) = audio.lokke
        /\ \A i, j \in 1..Len(heard) : heard[i].caller = heard[j].caller => i = j
    BY DEF Inv, Types, Audible, Hears
  <2>2. DOMAIN heard = 1..Len(heard)
    BY <2>1
  <2>3. IsInjective([i \in DOMAIN heard |-> heard[i].caller])
    BY <2>1, <2>2 DEF IsInjective
  <2>4. ASSUME audio.at = "end", NEW c \in steady
        PROVE  c \in {h.caller : h \in ToSet(heard)}
    <3>1. PICK i \in 1..NumLoaded : Loaded[i] = c
      BY <2>4 DEF Inv, Audible, KeepsSteady, Busy
    <3>2. i \in 1..audio.lokke
      BY <2>4 DEF NumLoaded
    <3>3. heard[i].caller = c
      BY <3>1, <3>2, AudioNumbers DEF Inv
    <3>4. heard[i] \in ToSet(heard)
      BY <2>1, <2>2, <3>2 DEF ToSet
    <3>. QED
      BY <3>3, <3>4
  <2>. QED
    BY <2>3, <2>4 DEF EachHeardOnce
<1>. QED
  BY <1>1, AlwaysInv, PTL

\* What an audio call leaves in the output buffers is the sum of what it heard, and
\* nothing that they held before, if Orderly.
THEOREM AlwaysOutputsAreTheSum == Spec => [](Orderly => OutputsAreTheSum)
<1>1. Inv => OutputsAreTheSum
  BY DEF Inv, Sums, OutputsAreTheSum
<1>. QED
  BY <1>1, AlwaysInv, PTL

\* A caller that was taken out of the array is not called once its removal has
\* returned, if Orderly; the last caller is not taken out.
THEOREM AlwaysRemovedIsUnused == Spec => [](Orderly => RemovedIsUnused)
<1>1. Inv => RemovedIsUnused
  <2>. SUFFICES ASSUME Inv PROVE RemovedIsUnused
    OBVIOUS
  <2>1. audio.at = "caller" =>
          arrays[audio.array][audio.lokke + 1] \in Callable
    BY DEF Inv, Audible, Loads, CallsCallable, Reached, Ahead
  <2>2. audio.at = "call" => audio.caller \in Callable
    BY DEF Inv, Audible, CallsCallable
  <2>. QED
    BY <2>1, <2>2 DEF RemovedIsUnused
<1>. QED
  BY <1>1, AlwaysInv, PTL

=============================================================================
