------------------------------- MODULE Mixer -------------------------------
(***************************************************************************)
(* aipc/src/audiopluginmixer.c: one audio thread calls every caller of the *)
(* mixer in turn and sums what they give, without ever blocking, while     *)
(* other threads add and remove callers under a mutex the audio thread     *)
(* does not take.  The array of callers is replaced by a longer copy when  *)
(* one is added and changed in place when one is removed; is_calling lets  *)
(* the other threads wait until the audio thread is outside.               *)
(*                                                                         *)
(* Reading callers[lokke] is two loads, of the pointer and of the element. *)
(* Ports are numbered from 1; what an output port holds is abstracted to   *)
(* the callers whose data was summed into it.                              *)
(*                                                                         *)
(* There is no barrier between the store of is_calling and the loads that  *)
(* follow it, nor between the stores of a change and its look at           *)
(* is_calling, so such a look may be the older one (Overtaken), although   *)
(* the stores of a thread are seen in their order.                         *)
(***************************************************************************)
EXTENDS Naturals, Sequences, FiniteSets, SequencesExt

CONSTANTS
  Callers,      \* the aipc_audioplugincallers
  OutputsOf,    \* how many outputs each has
  Ports,        \* num_outputs, the output buffers the audio thread passes
  Users,        \* the threads that add and remove callers
  Removes,      \* TRUE: callers are also removed
  Failing,      \* those whose aipc_audioplugincaller_call_audioplugin may be false
  Twice,        \* those that are added again, or by two users at once
  Overtaken,    \* the users whose look at is_calling may miss the last store
  MaxChanges,   \* bound: how often callers are added or removed
  MaxCalls      \* bound: how often the audio thread calls the mixer

ASSUME MixerAssumption ==
  /\ OutputsOf \in [Callers -> Nat] /\ Ports \in Nat
  /\ Removes \in BOOLEAN
  /\ MaxChanges \in Nat /\ MaxCalls \in Nat
  /\ "free" \notin Users

VARIABLES
  mixer,        \* struct aipc_audiopluginmixer: num_outputs, num_callers,
                \* callers (the number of an array), is_calling
  arrays,       \* every array of callers made so far
  freed,        \* the arrays that were freed
  mutex,        \* the user that holds the mutex, or "free"
  audio,        \* the audio thread: at, lokke, array, caller
  outputs,      \* what each output port holds
  user,         \* each user: at, the caller it adds or removes, old_callers
  changes,      \* how many changes were begun
  calls,        \* how many audio calls were begun
  heard,        \* history: the callers called by the audio call, and their data
  steady,       \* history: the callers in the mixer since that call began, at
                \* the place they had
  odd           \* history: "early" when a look at is_calling was, "twice" when a
                \* caller was added twice or worked on by two users at once

users == <<mutex, user, changes>>
sound == <<audio, outputs, calls, heard>>
mixVars == <<mixer, arrays, freed, users, sound, steady, odd>>

nobody == "nobody"

\* The audio thread, its buffers and a user between two of their calls.
outside == [at |-> "idle", lokke |-> 0, array |-> 1, caller |-> nobody]
whatever == [o \in 1..Ports |-> {"before"}]
idle == [at |-> "idle", caller |-> nobody, old |-> 1]

Members == {arrays[mixer.callers][i] : i \in 1..mixer.num_callers}

\* The caller whose place the last one is about to take.
BeingMoved == {user[u].caller : u \in {v \in Users : user[v].at = "move"}}

Init ==
  /\ mixer = [num_outputs |-> 0, num_callers |-> 0, callers |-> 1, is_calling |-> 0]
  /\ arrays = <<(<<>>)>> /\ freed = {}
  /\ mutex = "free"
  /\ audio = outside /\ outputs = whatever
  /\ user = [u \in Users |-> idle]
  /\ changes = 0 /\ calls = 0 /\ heard = <<>> /\ steady = {} /\ odd = {}

-----------------------------------------------------------------------------
(***************************************************************************)
(* aipc_audiopluginmixer_call_audioplugins.                                *)
(***************************************************************************)
AudioAt(from, to) == audio.at = from /\ audio' = [audio EXCEPT !.at = to]

CallBegin ==
  /\ calls < MaxCalls /\ calls' = calls + 1
  /\ audio.at = "idle"
  /\ audio' = [audio EXCEPT !.at = "loop", !.lokke = 0]
  /\ mixer' = [mixer EXCEPT !.is_calling = 1]
  /\ steady' = Members \ BeingMoved
  /\ UNCHANGED <<arrays, freed, users, outputs, heard, odd>>

\* Mutant of CallLoop: one place too far.
CallLoopPast ==
  /\ AudioAt("loop", IF audio.lokke > mixer.num_callers THEN "end" ELSE "array")
  /\ UNCHANGED <<mixer, arrays, freed, users, outputs, calls, heard, steady, odd>>

CallLoop ==
  /\ AudioAt("loop", IF audio.lokke >= mixer.num_callers THEN "end" ELSE "array")
  /\ UNCHANGED <<mixer, arrays, freed, users, outputs, calls, heard, steady, odd>>

CallLoadArray ==
  /\ audio.at = "array"
  /\ audio' = [audio EXCEPT !.at = "caller", !.array = mixer.callers]
  /\ UNCHANGED <<mixer, arrays, freed, users, outputs, calls, heard, steady, odd>>

\* Beyond the array anything may be read: nothing is said of what follows.
CallLoadCaller ==
  /\ audio.at = "caller"
  /\ audio' = IF audio.lokke < Len(arrays[audio.array])
              THEN [audio EXCEPT !.at = "call",
                                 !.caller = arrays[audio.array][audio.lokke + 1]]
              ELSE [audio EXCEPT !.at = "lost"]
  /\ UNCHANGED <<mixer, arrays, freed, users, outputs, calls, heard, steady, odd>>

\* Mutant of CallAndMix: the first caller's data is added to what was there too.
CallAndAdd ==
  /\ audio.at = "call"
  /\ audio' = [audio EXCEPT !.at = "loop", !.lokke = @ + 1]
  /\ heard' = Append(heard, [caller |-> audio.caller, data |-> audio.caller])
  /\ outputs' = [o \in 1..Ports |->
       outputs[o] \cup (IF o <= OutputsOf[audio.caller] THEN {audio.caller} ELSE {})]
  /\ UNCHANGED <<mixer, arrays, freed, users, calls, steady, odd>>

\* Mutant of CallAndMix: lokke is incremented in the loop's body as well.
CallEveryOther ==
  /\ audio.at = "call"
  /\ audio' = [audio EXCEPT !.at = "loop", !.lokke = @ + 2]
  /\ heard' = Append(heard, [caller |-> audio.caller, data |-> audio.caller])
  /\ outputs' = [o \in 1..Ports |->
       (IF audio.lokke = 0 THEN {} ELSE outputs[o])
         \cup (IF o <= OutputsOf[audio.caller] THEN {audio.caller} ELSE {})]
  /\ UNCHANGED <<mixer, arrays, freed, users, calls, steady, odd>>

\* The first caller's data replaces what the buffers held, the others' is added.
\* Whether the call succeeded is not looked at: its buffers were not initialised.
CallAndMix ==
  /\ audio.at = "call"
  /\ audio' = [audio EXCEPT !.at = "loop", !.lokke = @ + 1]
  /\ \E data \in {audio.caller} \cup (IF audio.caller \in Failing THEN {"garbage"} ELSE {}) :
       /\ heard' = Append(heard, [caller |-> audio.caller, data |-> data])
       /\ outputs' = [o \in 1..Ports |->
            (IF audio.lokke = 0 THEN {} ELSE outputs[o])
              \cup (IF o <= OutputsOf[audio.caller] THEN {data} ELSE {})]
  /\ UNCHANGED <<mixer, arrays, freed, users, calls, steady, odd>>

CallEnd ==
  /\ audio.at = "end" /\ audio' = outside
  /\ mixer' = [mixer EXCEPT !.is_calling = 0]
  /\ outputs' = whatever /\ heard' = <<>> /\ steady' = {}
  /\ UNCHANGED <<arrays, freed, users, calls, odd>>

-----------------------------------------------------------------------------
\* The callers the audio thread may be about to call: those in the mixer, and
\* the one a user is removing and has not waited for.
Callable ==
  Members \cup
    UNION {CASE user[u].at = "move" -> {arrays[mixer.callers][mixer.num_callers + 1]}
             [] user[u].at = "wait" -> {user[u].caller}
             [] OTHER -> {} : u \in Users}

UserAt(u, from, to) == user[u].at = from /\ user' = [user EXCEPT ![u].at = to]

\* The caller is in the mixer already, or another user is at work on it.
Again(u, what, caller) ==
  \/ what = "add" /\ caller \in Callable
  \/ \E v \in Users \ {u} : user[v].at # "idle" /\ user[v].caller = caller

Begin(u, what, caller) ==
  /\ changes < MaxChanges /\ changes' = changes + 1
  /\ user[u].at = "idle"
  /\ user' = [user EXCEPT ![u] = [at |-> what, caller |-> caller, old |-> 1]]
  /\ \/ ~Again(u, what, caller) /\ UNCHANGED odd
     \/ Again(u, what, caller) /\ caller \in Twice /\ odd' = odd \cup {"twice"}
  /\ UNCHANGED <<mixer, arrays, freed, mutex, sound, steady>>

Lock(u, from, to) ==
  /\ mutex = "free" /\ mutex' = u
  /\ UserAt(u, from, to)
  /\ UNCHANGED <<mixer, arrays, freed, changes, sound, steady, odd>>

\* setNumPuts: the most outputs any caller has.
MostOutputs(array, n) ==
  CHOOSE m \in {0} \cup {OutputsOf[array[i]] : i \in 1..n} :
    \A i \in 1..n : OutputsOf[array[i]] <= m

(***************************************************************************)
(* aipc_audiopluginmixer_add_caller.                                       *)
(***************************************************************************)
\* A caller may be added again (k_jackd~.c:91-99 does so with a name given twice).
AddBegin(u) == \E c \in Callers : Begin(u, "add", c)

AddLock(u) == Lock(u, "add", "copy")

\* The new array, and the pointer to it.
AddPublish(u) ==
  /\ user[u].at = "copy"
  /\ arrays' = Append(arrays,
       Append(SubSeq(arrays[mixer.callers], 1, mixer.num_callers), user[u].caller))
  /\ mixer' = [mixer EXCEPT !.callers = Len(arrays')]
  /\ user' = [user EXCEPT ![u].at = "count", ![u].old = mixer.callers]
  /\ UNCHANGED <<freed, mutex, changes, sound, steady, odd>>

AddCount(u) ==
  /\ UserAt(u, "count", "free")
  /\ mixer' = [mixer EXCEPT !.num_callers = @ + 1,
       !.num_outputs = MostOutputs(arrays[mixer.callers], mixer.num_callers + 1)]
  /\ UNCHANGED <<arrays, freed, mutex, changes, sound, steady, odd>>

AddFree(u) ==
  /\ UserAt(u, "free", "wait")
  /\ freed' = freed \cup {user[u].old}
  /\ UNCHANGED <<mixer, arrays, mutex, changes, sound, steady, odd>>

(***************************************************************************)
(* aipc_audiopluginmixer_remove_caller: the loop ends before the last one. *)
(***************************************************************************)
RemoveBegin(u) == Removes /\ \E c \in Members : Begin(u, "remove", c)

RemoveLock(u) == Lock(u, "remove", "search")

Place(u) == {i \in 1..mixer.num_callers - 1 : arrays[mixer.callers][i] = user[u].caller}

RemoveFound(u) ==
  /\ Place(u) # {}
  /\ UserAt(u, "search", "move")
  /\ mixer' = [mixer EXCEPT !.num_callers = @ - 1]
  /\ steady' = steady \ {user[u].caller, arrays[mixer.callers][mixer.num_callers]}
  /\ UNCHANGED <<arrays, freed, mutex, changes, sound, odd>>

\* The last caller takes the place of the removed one.
RemoveMove(u) ==
  LET array == arrays[mixer.callers]
      last == mixer.num_callers + 1
      place == CHOOSE i \in 1..mixer.num_callers :
                 array[i] = user[u].caller /\ \A j \in 1..i - 1 : array[j] # user[u].caller
      moved == [array EXCEPT ![place] = array[last]]
  IN
  /\ UserAt(u, "move", "wait")
  /\ arrays' = [arrays EXCEPT ![mixer.callers] = moved]
  /\ mixer' = [mixer EXCEPT !.num_outputs = MostOutputs(moved, mixer.num_callers)]
  /\ UNCHANGED <<freed, mutex, changes, sound, steady, odd>>

RemoveNotFound(u) ==
  /\ Place(u) = {}
  /\ UserAt(u, "search", "not_found")
  /\ UNCHANGED <<mixer, arrays, freed, mutex, changes, sound, steady, odd>>

-----------------------------------------------------------------------------
\* Mutant of Wait: nobody waits.
WaitNot(u) ==
  /\ UserAt(u, "wait", "unlock")
  /\ UNCHANGED <<mixer, arrays, freed, mutex, changes, sound, steady, odd>>

\* Both wait until the audio thread has been seen outside.
Wait(u) ==
  /\ mixer.is_calling = 0
  /\ UserAt(u, "wait", "unlock")
  /\ UNCHANGED <<mixer, arrays, freed, mutex, changes, sound, steady, odd>>

\* The audio thread is inside, but its store is seen only after the look, or the
\* look comes before the stores of the change.
WaitOvertaken(u) ==
  /\ u \in Overtaken /\ mixer.is_calling = 1
  /\ UserAt(u, "wait", "unlock")
  /\ odd' = odd \cup {"early"}
  /\ UNCHANGED <<mixer, arrays, freed, mutex, changes, sound, steady>>

\* Mutant of Unlock: pthread_mutex_unlock is missing on the early return.
UnlockFound(u) ==
  /\ user[u].at \in {"unlock", "not_found"}
  /\ user' = [user EXCEPT ![u] = idle]
  /\ mutex' = IF user[u].at = "unlock" THEN "free" ELSE mutex
  /\ UNCHANGED <<mixer, arrays, freed, changes, sound, steady, odd>>

Unlock(u) ==
  /\ user[u].at \in {"unlock", "not_found"}
  /\ user' = [user EXCEPT ![u] = idle]
  /\ mutex' = "free"
  /\ UNCHANGED <<mixer, arrays, freed, changes, sound, steady, odd>>

AudioStep == CallLoop \/ CallLoadArray \/ CallLoadCaller \/ CallAndMix \/ CallEnd

UserStep(u) ==
  \/ AddLock(u) \/ AddPublish(u) \/ AddCount(u) \/ AddFree(u)
  \/ RemoveLock(u) \/ RemoveFound(u) \/ RemoveMove(u) \/ RemoveNotFound(u)
  \/ Wait(u) \/ Unlock(u)

Next ==
  \/ CallBegin \/ AudioStep
  \/ \E u \in Users :
       AddBegin(u) \/ RemoveBegin(u) \/ UserStep(u) \/ WaitOvertaken(u)

Spec == Init /\ [][Next]_mixVars

(***************************************************************************)
(* All threads run.  MaxCalls stands for pauses of the audio thread that   *)
(* are long enough for a waiting thread to look.                           *)
(***************************************************************************)
FairSpec == Spec /\ WF_mixVars(AudioStep) /\ \A u \in Users : WF_mixVars(UserStep(u))

-----------------------------------------------------------------------------
(***************************************************************************)
(* Properties.                                                             *)
(***************************************************************************)

\* Every look at is_calling has seen the last store before it.
InTime == "early" \notin odd

\* And no caller was added twice, or by one user while another was at work on it.
Orderly == odd = {}

\* The element the audio thread is about to load is there, however the array
\* and its length have changed since it compared lokke with num_callers.
InBounds == InTime /\ audio.at = "caller" => audio.lokke < Len(arrays[audio.array])

\* A change never disturbs the callers it is not about: those that were there
\* from the beginning of an audio call, and that no removal took out or moved to
\* a free place, are all called before it ends (audiopluginmixer.h:41), and no
\* caller is called twice, although a removal moves one to another place
\* meanwhile (audiopluginmixer.c:92-94, 199-206).
EachHeardOnce ==
  Orderly =>
    /\ IsInjective([i \in DOMAIN heard |-> heard[i].caller])
    /\ audio.at = "end" => steady \subseteq {h.caller : h \in ToSet(heard)}

\* The audio call's outputs are the sum of what the callers it called gave, and
\* silence on the ports none of them has; what the buffers held before is gone.
OutputsAreTheSum ==
  audio.at = "end" /\ heard # <<>> =>
    \A o \in 1..Ports :
      outputs[o] = {h.data : h \in {g \in ToSet(heard) : o <= OutputsOf[g.caller]}}

\* A caller that aipc_audiopluginmixer_remove_caller has taken out of the array is
\* not called once it has waited, whatever happens to its place meanwhile: what the
\* audio thread is about to call is in the mixer or still waited for
\* (audiopluginmixer.c:199-210).  It holds while every look at is_calling sees the
\* last store, which nothing in the code makes it do.  The last caller is not taken
\* out: it is "not found", stays in the mixer, and may be called after the return.
RemovedIsUnused ==
  InTime =>
    /\ audio.at = "caller" => arrays[audio.array][audio.lokke + 1] \in Callable
    /\ audio.at = "call" => audio.caller \in Callable

\* Every change returns once the audio thread pauses.
ChangesEnd ==
  \A u \in Users :
    user[u].at \in {"add", "remove"} ~> user[u].at = "idle" \/ audio.at = "lost"
=============================================================================
