--------------------------- MODULE VariablesProofs ---------------------------
(***************************************************************************)
(* Variables implement registers: every create, get and delete happens at  *)
(* once, for any processes, variables and contents, whichever of the steps *)
(* named by Failures fail and whoever dies.                                *)
(***************************************************************************)
EXTENDS Variables, TLAPS

PCs == {"idle", "lock", "open", "write", "unlock", "string lock", "string",
        "string delete", "string unlock", "dead"}

Results == Contents \cup {"none", "false", "true"}

Ops == [call : {"none", "create", "get", "delete"}, name : Names,
        data : Contents \cup {"none"}, size : Nat \cup {AsInt[r] : r \in Results},
        ever : BOOLEAN]

Strings == [call : {"none", "create", "get", "delete"}, text : Texts \cup {"none"},
            ever : BOOLEAN]

Types ==
  /\ pc \in [Processes -> PCs]
  /\ op \in [Processes -> Ops]
  /\ string \in [Processes -> Strings]
  /\ result \in [Processes -> Results]
  /\ lock \in [Locks -> Processes \cup {"free"}]
  /\ file \in [Names -> Contents \cup {"none", "empty"}]

\* What is created is a content.
Filled ==
  \A p \in Processes :
    /\ op[p].call = "create" => op[p].data \in Contents
    /\ string[p].call = "create" => string[p].text \in Texts

\* Who reads or writes a file holds its lock, and has truncated what it writes.
LockedBy(p) ==
  /\ pc[p] = "open" /\ op[p].call # "delete" => lock[op[p].name] = p
  /\ pc[p] = "write" => /\ op[p].call = "create"
                        /\ lock[op[p].name] = p
                        /\ file[op[p].name] \in Parts[op[p].data] \cup {"none", "empty"}

Locked == \A p \in Processes : LockedBy(p)

Inv == Types /\ Filled /\ Locked

\* The variables and the lock files.
LEMMA NamesAndLocks ==
  /\ Plain \subseteq Names /\ "text" \in Names /\ "length" \in Names
  /\ Names \subseteq Locks /\ "string" \in Locks /\ "string" \notin Names
BY VariablesAssumption DEF Names, Locks

\* A create that is called is of a content.
LEMMA CreateOfType ==
  ASSUME NEW n \in Names, NEW c \in Contents
  PROVE  CreateOf(n, c) \in Ops /\ (CreateOf(n, c).call = "create" => CreateOf(n, c).data \in Contents)
BY DEF CreateOf, Ops

\* A get and a delete.
LEMMA OtherOpType ==
  ASSUME NEW n \in Names
  PROVE  /\ \A s \in Nat \cup {AsInt[r] : r \in Results}, e \in BOOLEAN :
              GetOf(n, s, e) \in Ops /\ GetOf(n, s, e).call = "get"
         /\ DeleteOf(n) \in Ops /\ DeleteOf(n).call = "delete"
         /\ NoCall \in Ops /\ NoCall.call = "none"
BY NamesAndLocks DEF GetOf, DeleteOf, NoCall, Ops

\* A string function that is called.
LEMMA StringOfType ==
  /\ \A t \in Texts : StringOf("create", t, FALSE) \in Strings /\ StringOf("create", t, FALSE).text = t
  /\ \A c \in {"none", "get", "delete"}, e \in BOOLEAN :
       StringOf(c, "none", e) \in Strings /\ StringOf(c, "none", e).call = c
BY DEF StringOf, Strings

LEMMA InitInv == Init => Inv
<1>. SUFFICES ASSUME Init PROVE Inv
  OBVIOUS
<1>1. Types
  <2>1. NoCall \in Ops /\ NoString \in Strings
    BY OtherOpType, StringOfType, NamesAndLocks DEF NoString
  <2>. QED
    BY <2>1 DEF Init, Types, PCs, Results
<1>2. Filled
  BY OtherOpType, StringOfType, NamesAndLocks DEF Init, Filled, NoString
<1>3. Locked
  BY DEF Init, Locked, LockedBy
<1>. QED
  BY <1>1, <1>2, <1>3 DEF Inv

\* A step of p takes no lock from another, and of a file that another has locked
\* it can only remove the name.
LEMMA LockedStep ==
  ASSUME Inv, NEW p \in Processes, LockedBy(p)',
         \A q \in Processes \ {p} : pc'[q] = pc[q] /\ op'[q] = op[q],
         \A n \in Names : lock'[n] = lock[n] \/ lock[n] \in {p, "free"},
         \A n \in Names : file'[n] = file[n] \/ file'[n] = "none" \/ lock[n] = p
  PROVE  Locked'
<1>. SUFFICES ASSUME NEW q \in Processes \ {p} PROVE LockedBy(q)'
  BY DEF Locked
<1>1. op[q].name \in Names /\ q # "free" /\ LockedBy(q)
  BY VariablesAssumption DEF Inv, Types, Ops, Locked
<1>. QED
  BY <1>1 DEF LockedBy

\* A call begins.
LEMMA CallInv ==
  ASSUME Inv, NEW p \in Processes, Call(p) \/ CallString(p)
  PROVE  Inv'
<1>1. CASE Call(p)
  <2>1. PICK o \in Ops : /\ op' = [op EXCEPT ![p] = o]
                         /\ o.call = "create" => o.data \in Contents
    <3>1. PICK n \in Plain :
            \/ \E c \in Values : op' = [op EXCEPT ![p] = CreateOf(n, c)]
            \/ \E e \in BOOLEAN : op' = [op EXCEPT ![p] = GetOf(n, IntSize, e)]
            \/ op' = [op EXCEPT ![p] = DeleteOf(n)]
      BY <1>1 DEF Call
    <3>2. n \in Names /\ IntSize \in Nat /\ Values \subseteq Contents
      BY NamesAndLocks, VariablesAssumption DEF IntSize
    <3>3. ASSUME NEW c \in Contents, op' = [op EXCEPT ![p] = CreateOf(n, c)]
          PROVE  \E o \in Ops : op' = [op EXCEPT ![p] = o] /\ (o.call = "create" => o.data \in Contents)
      BY <3>2, <3>3, CreateOfType
    <3>4. ASSUME NEW e \in BOOLEAN, op' = [op EXCEPT ![p] = GetOf(n, IntSize, e)]
          PROVE  \E o \in Ops : op' = [op EXCEPT ![p] = o] /\ (o.call = "create" => o.data \in Contents)
      <4>1. GetOf(n, IntSize, e) \in Ops /\ GetOf(n, IntSize, e).call = "get"
        BY <3>2, OtherOpType
      <4>. QED
        BY <3>4, <4>1
    <3>5. ASSUME op' = [op EXCEPT ![p] = DeleteOf(n)]
          PROVE  \E o \in Ops : op' = [op EXCEPT ![p] = o] /\ (o.call = "create" => o.data \in Contents)
      <4>1. DeleteOf(n) \in Ops /\ DeleteOf(n).call = "delete"
        BY <3>2, OtherOpType
      <4>. QED
        BY <3>5, <4>1
    <3>. QED
      BY <3>1, <3>2, <3>3, <3>4, <3>5
  <2>2. Types'
    BY <1>1, <2>1 DEF Inv, Types, Call, Goto, PCs
  <2>3. Filled'
    BY <1>1, <2>1 DEF Inv, Types, Filled, Call
  <2>4. Locked'
    BY <1>1, <2>1, LockedStep DEF Inv, Types, LockedBy, Call, Goto
  <2>. QED
    BY <2>2, <2>3, <2>4 DEF Inv
<1>2. CASE CallString(p)
  <2>1. PICK s \in Strings : /\ string' = [string EXCEPT ![p] = s]
                             /\ s.call = "create" => s.text \in Texts
    <3>1. ASSUME NEW t \in Texts, string' = [string EXCEPT ![p] = StringOf("create", t, FALSE)]
          PROVE  \E s \in Strings : string' = [string EXCEPT ![p] = s] /\ (s.call = "create" => s.text \in Texts)
      BY <3>1, StringOfType
    <3>2. ASSUME NEW c \in {"get", "delete"}, NEW e \in BOOLEAN,
                 string' = [string EXCEPT ![p] = StringOf(c, "none", e)]
          PROVE  \E s \in Strings : string' = [string EXCEPT ![p] = s] /\ (s.call = "create" => s.text \in Texts)
      <4>1. StringOf(c, "none", e) \in Strings /\ StringOf(c, "none", e).call = c
        BY StringOfType
      <4>. QED
        BY <3>2, <4>1
    <3>. QED
      BY <1>2, <3>1, <3>2 DEF CallString
  <2>2. Types'
    BY <1>2, <2>1 DEF Inv, Types, CallString, Goto, PCs
  <2>3. Filled'
    BY <1>2, <2>1 DEF Inv, Types, Filled, CallString
  <2>4. Locked'
    BY <1>2, <2>1, LockedStep DEF Inv, Types, LockedBy, CallString, Goto
  <2>. QED
    BY <2>2, <2>3, <2>4 DEF Inv
<1>. QED
  BY <1>1, <1>2

\* The step of a string function that leads to a call.
LEMMA StringInv ==
  ASSUME Inv, NEW p \in Processes,
         StringLock(p) \/ StringLockFails(p) \/ StringCreate(p) \/ StringGet(p)
  PROVE  Inv'
<1>1. /\ pc[p] \in {"string lock", "string"} /\ pc' = [pc EXCEPT ![p] = pc'[p]]
      /\ pc'[p] \in {"lock", "string delete", "string unlock"}
  BY DEF Inv, Types, StringLock, StringLockFails, StringCreate, StringGet, Goto, Then, StringEnds
<1>2. PICK o \in Ops : /\ op' = [op EXCEPT ![p] = o]
                       /\ o.call = "create" => o.data \in Contents
  <2>. DEFINE Leads(o) == op' = [op EXCEPT ![p] = o]
  <2>1. op[p] \in Ops /\ (op[p].call = "create" => op[p].data \in Contents) /\ op = [op EXCEPT ![p] = op[p]]
    BY DEF Inv, Types, Filled
  <2>2. string[p].call = "create" =>
          string[p].text \in Contents /\ LengthOf[string[p].text] \in Contents
    BY VariablesAssumption DEF Inv, Filled
  <2>3. IntSize \in Nat /\ string[p].ever \in BOOLEAN /\ AsInt[result[p]] \in {AsInt[r] : r \in Results}
    BY DEF Inv, Types, Strings, IntSize
  <2>4. \/ Leads(op[p])
        \/ string[p].call = "create" /\ Leads(CreateOf("length", LengthOf[string[p].text]))
        \/ string[p].call = "create" /\ Leads(CreateOf("text", string[p].text))
        \/ Leads(GetOf("text", IntSize, string[p].ever))
        \/ Leads(GetOf("text", AsInt[result[p]], string[p].ever))
        \/ Leads(DeleteOf("length"))
    <3>1. CASE StringLock(p)
      BY <2>1, <3>1 DEF StringLock, StringBegin
    <3>2. CASE StringLockFails(p)
      BY <2>1, <3>2 DEF StringLockFails
    <3>3. CASE StringCreate(p)
      BY <2>1, <3>3 DEF StringCreate, Then, StringEnds
    <3>4. CASE StringGet(p)
      BY <2>1, <3>4 DEF StringGet, Then, StringEnds
    <3>. QED
      BY <3>1, <3>2, <3>3, <3>4
  <2>5. /\ string[p].call = "create" =>
             /\ CreateOf("length", LengthOf[string[p].text]) \in Ops
             /\ CreateOf("length", LengthOf[string[p].text]).data \in Contents
             /\ CreateOf("text", string[p].text) \in Ops
             /\ CreateOf("text", string[p].text).data \in Contents
    BY <2>2, CreateOfType, NamesAndLocks DEF CreateOf
  <2>6. /\ GetOf("text", IntSize, string[p].ever) \in Ops
        /\ GetOf("text", IntSize, string[p].ever).call = "get"
        /\ GetOf("text", AsInt[result[p]], string[p].ever) \in Ops
        /\ GetOf("text", AsInt[result[p]], string[p].ever).call = "get"
        /\ DeleteOf("length") \in Ops /\ DeleteOf("length").call = "delete"
    BY <2>3, OtherOpType, NamesAndLocks
  <2>. QED
    BY <2>1, <2>4, <2>5, <2>6
<1>3. /\ UNCHANGED <<string, result, file>>
      /\ lock' = lock \/ lock' = [lock EXCEPT !["string"] = p]
  BY DEF StringLock, StringLockFails, StringCreate, StringGet
<1>4. Types'
  <2>1. pc' \in [Processes -> PCs]
    BY <1>1 DEF Inv, Types, PCs
  <2>2. op' \in [Processes -> Ops]
    BY <1>2 DEF Inv, Types
  <2>3. lock' \in [Locks -> Processes \cup {"free"}]
    BY <1>3 DEF Inv, Types
  <2>. QED
    BY <1>3, <2>1, <2>2, <2>3 DEF Inv, Types
<1>5. Filled'
  BY <1>2, <1>3 DEF Inv, Types, Filled
<1>6. \A n \in Names : lock'[n] = lock[n]
  BY <1>3, NamesAndLocks DEF Inv, Types
<1>7. Locked'
  BY <1>1, <1>2, <1>3, <1>6, LockedStep DEF Inv, Types, LockedBy
<1>. QED
  BY <1>4, <1>5, <1>7 DEF Inv

\* The rest of a string function.
LEMMA StringRestInv ==
  ASSUME Inv, NEW p \in Processes, StringDelete(p) \/ StringUnlock(p)
  PROVE  Inv'
<1>1. CASE StringDelete(p)
  <2>1. Types'
    BY <1>1, NamesAndLocks DEF Inv, Types, StringDelete, Unlink, Goto, PCs
  <2>2. Filled'
    BY <1>1 DEF Inv, Filled, StringDelete
  <2>3. Locked'
    BY <1>1, LockedStep DEF Inv, Types, LockedBy, StringDelete, Unlink, Goto
  <2>. QED
    BY <2>1, <2>2, <2>3 DEF Inv
<1>2. CASE StringUnlock(p)
  <2>1. NoCall \in Ops /\ NoCall.call = "none" /\ NoString \in Strings /\ NoString.call = "none"
    BY OtherOpType, StringOfType, NamesAndLocks DEF NoString
  <2>5. Types'
    BY <1>2, <2>1, NamesAndLocks DEF Inv, Types, Results, StringUnlock, Goto, PCs, Clear, Returns, Release
  <2>2. Filled'
    BY <1>2, <2>1 DEF Inv, Types, Filled, StringUnlock, Clear
  <2>3. \A n \in Names : lock'[n] = lock[n]
    BY <1>2, NamesAndLocks DEF Inv, Types, StringUnlock, Release
  <2>4. Locked'
    BY <1>2, <2>3, LockedStep DEF Inv, Types, LockedBy, StringUnlock, Goto, Clear
  <2>. QED
    BY <2>5, <2>2, <2>4 DEF Inv
<1>. QED
  BY <1>1, <1>2

\* The steps of aipc_variable_create, aipc_variable_get and aipc_variable_delete.
LEMMA OpInv ==
  ASSUME Inv, NEW p \in Processes,
         \/ Lock(p) \/ LockFails(p) \/ CreateOpen(p) \/ CreatePart(p) \/ CreateWrite(p)
         \/ GetRead(p) \/ GetWait(p) \/ GetOpenFails(p) \/ GetEnds(p) \/ Delete(p)
  PROVE  Inv'
<1>. DEFINE n == op[p].name
<1>1. /\ n \in Names /\ n \in Locks /\ p # "free" /\ LockedBy(p)
      /\ op[p].call = "create" =>
           op[p].data \in Contents /\ Parts[op[p].data] \subseteq Contents
      /\ op[p].call \in {"none", "create", "get", "delete"}
  BY VariablesAssumption, NamesAndLocks DEF Inv, Types, Ops, Filled, Locked
<1>2. /\ UNCHANGED <<op, string>>
      /\ pc' = [pc EXCEPT ![p] = pc'[p]] /\ pc'[p] \in {"lock", "open", "write", "unlock"}
      /\ \/ UNCHANGED result
         \/ \E r : result' = [result EXCEPT ![p] = r] /\ r \in {"false", "true", file[n]} \ {"empty"}
  BY DEF Inv, Types, Lock, LockFails, CreateOpen, CreatePart, CreateWrite, GetRead, GetWait,
       GetOpenFails, GetEnds, Delete, Goto, Returns
<1>3. file[n] \in Contents \cup {"none", "empty"}
  BY <1>1 DEF Inv, Types
<1>4. pc' \in [Processes -> PCs] /\ result' \in [Processes -> Results]
  <2>1. pc' \in [Processes -> PCs]
    BY <1>2 DEF Inv, Types, PCs
  <2>2. ASSUME NEW r \in {"false", "true", file[n]} \ {"empty"}, result' = [result EXCEPT ![p] = r]
        PROVE  result' \in [Processes -> Results]
    BY <1>3, <2>2 DEF Inv, Types, Results
  <2>. QED
    BY <1>2, <2>1, <2>2 DEF Inv, Types
<1>5. /\ lock' = lock \/ lock' = [lock EXCEPT ![n] = p] \/ lock' = [lock EXCEPT ![n] = "free"]
      /\ lock' # lock => lock[n] \in {p, "free"}
  <2>1. lock[n] \in Processes \cup {"free"}
    BY <1>1 DEF Inv, Types
  <2>. QED
    BY <1>1, <2>1 DEF Inv, Types, Lock, LockFails, CreateOpen, CreatePart, CreateWrite, GetRead,
       GetWait, GetOpenFails, GetEnds, Delete, Release
<1>6. /\ lock' \in [Locks -> Processes \cup {"free"}]
      /\ \A m \in Names : lock'[m] = lock[m] \/ lock[m] \in {p, "free"}
  BY <1>1, <1>5, NamesAndLocks DEF Inv, Types
<1>7. \/ file' = file
      \/ file' = [file EXCEPT ![n] = "none"]
      \/ lock[n] = p /\ pc'[p] = "write" /\ file' = [file EXCEPT ![n] = "empty"]
      \/ lock[n] = p /\ op[p].call = "create" /\ file' = [file EXCEPT ![n] = op[p].data]
      \/ /\ lock[n] = p /\ op[p].call = "create"
         /\ \E c \in Parts[op[p].data] : file' = [file EXCEPT ![n] = c]
  <2>1. CASE CreateOpen(p)
    BY <1>1, <2>1 DEF CreateOpen, Goto, LockedBy, Inv, Types
  <2>2. CASE CreateWrite(p)
    BY <1>1, <2>2 DEF CreateWrite, Goto, LockedBy, Inv, Types
  <2>3. CASE CreatePart(p)
    BY <1>1, <2>3 DEF CreatePart, LockedBy, Inv, Types
  <2>. QED
    BY <2>1, <2>2, <2>3 DEF Lock, LockFails, GetRead, GetWait, GetOpenFails, GetEnds, Delete, Unlink
<1>8. /\ file' \in [Names -> Contents \cup {"none", "empty"}]
      /\ \A m \in Names : file'[m] = file[m] \/ file'[m] = "none" \/ lock[m] = p
  BY <1>1, <1>7 DEF Inv, Types
<1>9. LockedBy(p)'
  <2>1. CASE Lock(p)
    BY <1>1, <2>1 DEF Lock, Goto, LockedBy, Inv, Types
  <2>2. CASE LockFails(p)
    BY <1>1, <2>2 DEF LockFails, Goto, LockedBy, Inv, Types
  <2>3. CASE CreateOpen(p)
    BY <1>1, <2>3 DEF CreateOpen, Goto, LockedBy, Inv, Types
  <2>4. CASE \/ CreateWrite(p) \/ GetRead(p) \/ GetWait(p) \/ GetOpenFails(p) \/ GetEnds(p)
             \/ Delete(p)
    BY <2>4 DEF CreateWrite, GetRead, GetWait, GetOpenFails, GetEnds, Delete, Goto, LockedBy, Inv,
       Types
  <2>5. CASE CreatePart(p)
    BY <1>1, <2>5 DEF CreatePart, LockedBy, Inv, Types
  <2>. QED
    BY <2>1, <2>2, <2>3, <2>4, <2>5
<1>10. Locked'
  BY <1>2, <1>6, <1>8, <1>9, LockedStep DEF Inv, Types
<1>11. Filled'
  BY <1>2 DEF Inv, Filled
<1>. QED
  BY <1>2, <1>4, <1>6, <1>8, <1>10, <1>11 DEF Inv, Types

\* A call ends, and a process dies.
LEMMA EndInv ==
  ASSUME Inv, NEW p \in Processes, Unlock(p) \/ Crash(p)
  PROVE  Inv'
<1>. DEFINE n == op[p].name
<1>1. n \in Names /\ n \in Locks
  BY NamesAndLocks DEF Inv, Types, Ops
<1>2. CASE Unlock(p)
  <2>1. NoCall \in Ops /\ NoCall.call = "none"
    BY OtherOpType, NamesAndLocks
  <2>2. /\ pc' = [pc EXCEPT ![p] = pc'[p]] /\ pc'[p] \in {"idle", "string"}
        /\ UNCHANGED <<string, file>> /\ lock' = [lock EXCEPT ![n] = IF @ = p THEN "free" ELSE @]
        /\ UNCHANGED <<op, result>>
           \/ (op' = [op EXCEPT ![p] = NoCall] /\ result' = [result EXCEPT ![p] = "none"])
    BY <1>2 DEF Unlock, Goto, Clear, Returns, Release, Inv, Types
  <2>3. /\ lock' \in [Locks -> Processes \cup {"free"}]
        /\ \A m \in Names : lock'[m] = lock[m] \/ lock[m] = p
    BY <1>1, <2>2, NamesAndLocks DEF Inv, Types
  <2>4. pc' \in [Processes -> PCs] /\ op' \in [Processes -> Ops] /\ result' \in [Processes -> Results]
    <3>1. pc' \in [Processes -> PCs]
      BY <2>2 DEF Inv, Types, PCs
    <3>2. op' \in [Processes -> Ops]
      BY <2>1, <2>2 DEF Inv, Types
    <3>3. result' \in [Processes -> Results]
      BY <2>2 DEF Inv, Types, Results
    <3>. QED
      BY <3>1, <3>2, <3>3
  <2>5. Types'
    BY <2>2, <2>3, <2>4 DEF Inv, Types
  <2>6. Filled'
    BY <2>1, <2>2 DEF Inv, Types, Filled
  <2>7. Locked'
    BY <2>2, <2>3, LockedStep DEF Inv, Types, LockedBy
  <2>. QED
    BY <2>5, <2>6, <2>7 DEF Inv
<1>3. CASE Crash(p)
  <2>1. Types'
    BY <1>3 DEF Inv, Types, Crash, PCs
  <2>2. Filled'
    BY <1>3 DEF Inv, Filled, Crash
  <2>3. Locked'
    BY <1>3, LockedStep DEF Inv, Types, LockedBy, Crash
  <2>. QED
    BY <2>1, <2>2, <2>3 DEF Inv
<1>. QED
  BY <1>2, <1>3

\* The invariant is one.
LEMMA Invariance == Spec => []Inv
<1>1. Inv /\ [Next]_variablesVars => Inv'
  <2>. SUFFICES ASSUME Inv, [Next]_variablesVars PROVE Inv'
    OBVIOUS
  <2>1. CASE UNCHANGED variablesVars
    BY <2>1 DEF variablesVars, Inv, Types, Filled, Locked, LockedBy
  <2>2. ASSUME NEW p \in Processes, Call(p) \/ CallString(p) \/ Take(p) \/ Step(p)
               \/ CreatePart(p) \/ GetOpenFails(p) \/ LockFails(p) \/ StringLockFails(p)
               \/ Crash(p)
        PROVE  Inv'
    BY <2>2, CallInv, StringInv, StringRestInv, OpInv, EndInv DEF Take, Step
  <2>. QED
    BY <2>1, <2>2 DEF Next
<1>. QED
  BY <1>1, InitInv, PTL DEF Spec

-----------------------------------------------------------------------------
(***************************************************************************)
(* The refinement.  The lock keeps the register of a variable from being   *)
(* seen between the truncation of its file, which is where a create        *)
(* happens, and the writing of it.                                         *)
(***************************************************************************)
\* p steps, and nobody else does.
Alone(p) ==
  /\ pc' = [pc EXCEPT ![p] = pc'[p]]
  /\ \A q \in Processes \ {p} : op'[q] = op[q]

\* The phase of a process is that of where it is.
LEMMA PhaseStep ==
  ASSUME Inv, NEW p \in Processes, Alone(p)
  PROVE  /\ phaseBar[p] = PhaseOf(pc[p])
         /\ phaseBar' = [phaseBar EXCEPT ![p] = PhaseOf(pc'[p])]
<1>1. \A q \in Processes : pc'[q] = IF q = p THEN pc'[p] ELSE pc[q]
  BY DEF Alone, Inv, Types
<1>. QED
  BY <1>1 DEF phaseBar

\* No step of a process that is not writing is seen as long as no file changes.
LEMMA RegisterKept ==
  ASSUME Inv, NEW p \in Processes, Alone(p), file' = file,
         pc[p] # "write", pc'[p] # "write",
         \A n \in Names : lock'[n] = lock[n] \/ (lock[n] \in {p, "free"} /\ lock'[n] \in {p, "free"})
  PROVE  registerBar' = registerBar
<1>1. ASSUME NEW n \in Names
      PROVE  /\ Writing(n)' <=> Writing(n)
             /\ Writing(n) => op'[lock'[n]].data = op[lock[n]].data
  <2>1. CASE lock[n] \in Processes \ {p}
    <3>1. lock'[n] = lock[n] /\ pc'[lock[n]] = pc[lock[n]] /\ op'[lock[n]] = op[lock[n]]
      BY <2>1, VariablesAssumption DEF Alone, Inv, Types
    <3>. QED
      BY <3>1 DEF Writing
  <2>2. CASE lock[n] \in {p, "free"}
    <3>1. lock'[n] \in {p, "free"}
      BY <2>2
    <3>. QED
      BY <2>2, <3>1, VariablesAssumption DEF Writing
  <2>. QED
    BY <1>1, <2>1, <2>2, NamesAndLocks DEF Inv, Types
<1>. QED
  BY <1>1 DEF registerBar

\* A step that changes the file of one variable changes that register only.
LEMMA RegisterSet ==
  ASSUME Inv, NEW p \in Processes, Alone(p), NEW n \in Names, NEW c,
         lock' = lock, file' = [file EXCEPT ![n] = c],
         op'[p] = op[p],
         (pc[p] = "write" \/ pc'[p] = "write") => op[p].name = n
  PROVE  /\ registerBar' = [registerBar EXCEPT ![n] = registerBar'[n]]
         /\ file'[n] = c
<1>1. ASSUME NEW m \in Names \ {n}
      PROVE  file'[m] = file[m] /\ (Writing(m)' <=> Writing(m))
  <2>1. file'[m] = file[m]
    BY DEF Inv, Types
  <2>2. CASE lock[m] = p
    BY <2>1, <2>2 DEF Writing
  <2>3. CASE lock[m] # p
    <3>1. lock[m] \in Processes => pc'[lock[m]] = pc[lock[m]] /\ op'[lock[m]] = op[lock[m]]
      BY <2>3 DEF Alone, Inv, Types
    <3>. QED
      BY <2>1, <3>1 DEF Writing
  <2>. QED
    BY <2>1, <2>2, <2>3
<1>2. \A m \in Names : Writing(m)' => op'[lock[m]].data = op[lock[m]].data
  BY DEF Alone, Writing
<1>3. \A m \in Names \ {n} : registerBar'[m] = registerBar[m]
  BY <1>1, <1>2 DEF registerBar
<1>4. registerBar' = [m \in Names |-> registerBar'[m]] /\ registerBar = [m \in Names |-> registerBar[m]]
  BY DEF registerBar
<1>5. file'[n] = c
  BY DEF Inv, Types
<1>. QED
  BY <1>3, <1>4, <1>5

\* What a step changes besides what it is about.
LEMMA OpFrame ==
  ASSUME Inv, NEW p \in Processes,
         \/ Lock(p) \/ LockFails(p) \/ CreateOpen(p) \/ CreatePart(p) \/ CreateWrite(p)
         \/ GetRead(p) \/ GetWait(p) \/ GetOpenFails(p) \/ GetEnds(p) \/ Delete(p)
  PROVE  Alone(p) /\ op' = op /\ op[p].name \in Names /\ op[p].name \in Locks /\ LockedBy(p)
<1>1. Alone(p) /\ op' = op
  BY DEF Inv, Types, Alone, Goto, Lock, LockFails, CreateOpen, CreatePart, CreateWrite, GetRead,
       GetWait, GetOpenFails, GetEnds, Delete
<1>. QED
  BY <1>1, NamesAndLocks DEF Inv, Types, Ops, Locked

\* The steps of aipc_lock_new, and the wait of aipc_variable_get, are not seen,
\* unless the lock file cannot be made.
LEMMA LockRefines ==
  ASSUME Inv, NEW p \in Processes, Lock(p) \/ LockFails(p) \/ GetWait(p) \/ GetOpenFails(p)
  PROVE  R!Fails(p) \/ UNCHANGED R!registerVars
<1>. DEFINE n == op[p].name
<1>1. Alone(p) /\ op' = op /\ n \in Names /\ n \in Locks /\ LockedBy(p)
  BY OpFrame
<1>2. /\ phaseBar[p] = PhaseOf(pc[p])
      /\ phaseBar' = [phaseBar EXCEPT ![p] = PhaseOf(pc'[p])]
  BY <1>1, PhaseStep
<1>3. registerBar' = registerBar
  <2>1. /\ file' = file /\ pc[p] \in {"lock", "open"} /\ pc'[p] \in {"lock", "open", "unlock"}
        /\ \/ lock' = lock
           \/ lock[n] \in {p, "free"} /\ (lock' = [lock EXCEPT ![n] = p] \/ lock' = [lock EXCEPT ![n] = "free"])
    <3>1. CASE Lock(p)
      BY <1>1, <3>1 DEF Lock, Goto, Inv, Types
    <3>2. CASE LockFails(p)
      BY <1>1, <3>2 DEF LockFails, Goto, Inv, Types
    <3>3. CASE GetWait(p) \/ GetOpenFails(p)
      BY <1>1, <3>3 DEF GetWait, GetOpenFails, Goto, Release, LockedBy, Inv, Types
    <3>. QED
      BY <3>1, <3>2, <3>3
  <2>2. \A m \in Names : lock'[m] = lock[m] \/ (lock[m] \in {p, "free"} /\ lock'[m] \in {p, "free"})
    BY <1>1, <2>1, NamesAndLocks DEF Inv, Types
  <2>. QED
    BY <1>1, <2>1, <2>2, RegisterKept
<1>4. CASE Lock(p) \/ GetWait(p) \/ GetOpenFails(p)
  <2>1. PhaseOf(pc'[p]) = PhaseOf(pc[p]) /\ result' = result
    BY <1>4 DEF Lock, GetWait, GetOpenFails, Goto, PhaseOf, Inv, Types
  <2>2. phaseBar' = phaseBar
    BY <1>2, <2>1 DEF phaseBar
  <2>. QED
    BY <1>1, <1>3, <2>1, <2>2 DEF R!registerVars
<1>5. CASE LockFails(p)
  <2>1. CASE op[p].call = "delete"
    <3>1. PhaseOf(pc'[p]) = PhaseOf(pc[p]) /\ result' = result
      BY <1>5, <2>1 DEF LockFails, Goto, PhaseOf, Inv, Types
    <3>2. phaseBar' = phaseBar
      BY <1>2, <3>1 DEF phaseBar
    <3>. QED
      BY <1>1, <1>3, <3>1, <3>2 DEF R!registerVars
  <2>2. CASE op[p].call # "delete"
    <3>1. PhaseOf(pc[p]) = "called" /\ PhaseOf(pc'[p]) = "returned" /\ "lock" \in Failures
          /\ result' = [result EXCEPT ![p] = "false"]
      BY <1>5, <2>2 DEF LockFails, Goto, Fail, Returns, PhaseOf, Inv, Types
    <3>. QED
      BY <1>1, <1>2, <1>3, <2>2, <3>1 DEF R!Fails, R!Become, R!Returns
  <2>. QED
    BY <2>1, <2>2
<1>. QED
  BY <1>4, <1>5

\* A create happens when it truncates the file.
LEMMA CreateRefines ==
  ASSUME Inv, NEW p \in Processes, CreateOpen(p)
  PROVE  R!Create(p) \/ R!Fails(p)
<1>. DEFINE n == op[p].name
<1>1. Alone(p) /\ op' = op /\ n \in Names /\ n \in Locks /\ LockedBy(p)
  BY OpFrame
<1>2. /\ phaseBar[p] = PhaseOf(pc[p])
      /\ phaseBar' = [phaseBar EXCEPT ![p] = PhaseOf(pc'[p])]
  BY <1>1, PhaseStep
<1>3. lock' = lock /\ lock[n] = p /\ pc[p] = "open" /\ op[p].call = "create"
  BY <1>1 DEF CreateOpen, Goto, LockedBy
<1>4. CASE pc'[p] = "write"
  <2>1. file' = [file EXCEPT ![n] = "empty"] /\ result' = result
    BY <1>3, <1>4 DEF CreateOpen, Goto, Inv, Types
  <2>2. registerBar' = [registerBar EXCEPT ![n] = op[p].data]
    <3>1. registerBar' = [registerBar EXCEPT ![n] = registerBar'[n]] /\ file'[n] = "empty"
      BY <1>1, <1>3, <1>4, <2>1, RegisterSet
    <3>2. registerBar'[n] = op[p].data
      BY <1>1, <1>3, <1>4, <3>1 DEF registerBar, Writing, Inv, Types
    <3>. QED
      BY <3>1, <3>2
  <2>4. PhaseOf(pc[p]) = "called" /\ PhaseOf(pc'[p]) = "made"
    BY <1>3, <1>4 DEF PhaseOf
  <2>. QED
    BY <1>1, <1>2, <1>3, <2>1, <2>2, <2>4 DEF R!Create, R!Become, R!Set
<1>5. CASE pc'[p] # "write"
  <2>1. /\ "open" \in Failures /\ file' = file /\ pc'[p] = "unlock"
        /\ result' = [result EXCEPT ![p] = "false"]
    BY <1>5 DEF CreateOpen, Goto, Fail, Returns, Inv, Types
  <2>2. registerBar' = registerBar
    BY <1>1, <1>3, <2>1, RegisterKept
  <2>3. PhaseOf(pc[p]) = "called" /\ PhaseOf(pc'[p]) = "returned"
    BY <1>3, <2>1 DEF PhaseOf
  <2>. QED
    BY <1>1, <1>2, <1>3, <2>1, <2>2, <2>3 DEF R!Fails, R!Become, R!Returns
<1>. QED
  BY <1>4, <1>5

\* Nobody sees that the file is written in parts.
LEMMA PartRefines ==
  ASSUME Inv, NEW p \in Processes, CreatePart(p)
  PROVE  UNCHANGED R!registerVars
<1>. DEFINE n == op[p].name
<1>1. Alone(p) /\ op' = op /\ n \in Names /\ LockedBy(p)
  BY OpFrame
<1>2. PICK c \in Parts[op[p].data] : file' = [file EXCEPT ![n] = c]
  BY DEF CreatePart
<1>3. /\ UNCHANGED <<pc, result, lock>> /\ pc[p] = "write" /\ lock[n] = p /\ file[n] = "empty"
      /\ c # "none"
  BY <1>1, VariablesAssumption DEF CreatePart, LockedBy, Inv, Filled
<1>4. registerBar' = [registerBar EXCEPT ![n] = registerBar'[n]] /\ file'[n] = c
  BY <1>1, <1>2, <1>3, RegisterSet
<1>5. registerBar'[n] = op[p].data /\ registerBar[n] = op[p].data
  BY <1>1, <1>3, <1>4 DEF registerBar, Writing
<1>6. registerBar' = registerBar /\ phaseBar' = phaseBar
  BY <1>3, <1>4, <1>5 DEF registerBar, phaseBar
<1>. QED
  BY <1>1, <1>3, <1>6 DEF R!registerVars

\* A file that is not written to its end tears the variable.
LEMMA TearRefines ==
  ASSUME Inv, NEW p \in Processes, Alone(p), op' = op, lock' = lock, file' = file,
         pc[p] = "write", pc'[p] # "write"
  PROVE  R!Tear(p)
<1>. DEFINE n == op[p].name
<1>1. /\ LockedBy(p) /\ n \in Names /\ op[p].data # "none"
  BY VariablesAssumption DEF Inv, Types, Ops, Filled, Locked, LockedBy
<1>2. /\ lock[n] = p /\ file[n] \in Parts[op[p].data] \cup {"none", "empty"}
      /\ file' = [file EXCEPT ![n] = file[n]]
  BY <1>1 DEF LockedBy, Inv, Types
<1>3. registerBar[n] = IF file[n] # "none" THEN op[p].data ELSE "none"
  BY <1>1, <1>2 DEF registerBar, Writing
<1>4. registerBar' = [registerBar EXCEPT ![n] = file[n]]
  <2>1. registerBar' = [registerBar EXCEPT ![n] = registerBar'[n]]
    <3>1. ASSUME NEW c, file' = [file EXCEPT ![n] = c]
          PROVE  registerBar' = [registerBar EXCEPT ![n] = registerBar'[n]]
      BY <1>1, <3>1, RegisterSet
    <3>. QED
      BY <1>2, <3>1
  <2>2. registerBar'[n] = file[n]
    BY <1>1, <1>2 DEF registerBar, Writing
  <2>. QED
    BY <2>1, <2>2
<1>5. registerBar = [registerBar EXCEPT ![n] = registerBar[n]]
  BY DEF registerBar
<1>. QED
  BY <1>1, <1>2, <1>3, <1>4, <1>5 DEF R!Tear, R!Set

\* When it has written, nothing changes, or its failure tears the variable.
LEMMA WriteRefines ==
  ASSUME Inv, NEW p \in Processes, CreateWrite(p)
  PROVE  R!CreateReturns(p)
<1>. DEFINE n == op[p].name
<1>1. Alone(p) /\ op' = op /\ n \in Names /\ n \in Locks /\ LockedBy(p)
  BY OpFrame
<1>2. /\ phaseBar[p] = PhaseOf(pc[p])
      /\ phaseBar' = [phaseBar EXCEPT ![p] = PhaseOf(pc'[p])]
  BY <1>1, PhaseStep
<1>3. lock' = lock /\ lock[n] = p /\ pc[p] = "write" /\ pc'[p] = "unlock"
  BY <1>1 DEF CreateWrite, Goto, LockedBy, Inv, Types
<1>4. PhaseOf(pc[p]) = "made" /\ PhaseOf(pc'[p]) = "returned"
  BY <1>3 DEF PhaseOf
<1>5. CASE /\ Returns(p, "true")
           /\ file' = [file EXCEPT ![n] = IF @ = "none" THEN @ ELSE op[p].data]
  <2>. DEFINE c == IF file[n] = "none" THEN "none" ELSE op[p].data
  <2>1. file' = [file EXCEPT ![n] = c]
    BY <1>5
  <2>. HIDE DEF c
  <2>2. registerBar' = [registerBar EXCEPT ![n] = registerBar'[n]] /\ file'[n] = c
    BY <1>1, <1>3, <2>1, RegisterSet
  <2>3. registerBar'[n] = c /\ registerBar[n] = c
    BY <1>1, <1>3, <2>2 DEF registerBar, Writing, c
  <2>4. registerBar' = registerBar
    BY <2>2, <2>3 DEF registerBar
  <2>. QED
    BY <1>1, <1>2, <1>4, <1>5, <2>4 DEF R!CreateReturns, R!Become, R!Returns, Returns
<1>6. CASE /\ file' = file
           /\ \/ "write" \in Failures /\ Returns(p, "false")
              \/ "close" \in Failures /\ Returns(p, "true")
  <2>1. R!Tear(p)
    BY <1>1, <1>3, <1>6, TearRefines
  <2>2. R!Returns(p, "false") <=> Returns(p, "false")
    BY DEF R!Returns, Returns
  <2>3. R!Returns(p, "true") <=> Returns(p, "true")
    BY DEF R!Returns, Returns
  <2>4. R!Become(p, "made", "returned")
    BY <1>2, <1>4 DEF R!Become
  <2>. QED
    BY <1>1, <1>6, <2>1, <2>2, <2>3, <2>4 DEF R!CreateReturns
<1>. QED
  BY <1>5, <1>6 DEF CreateWrite, Fail

\* A get happens when it opens the file: nobody is writing it.
LEMMA GetRefines ==
  ASSUME Inv, NEW p \in Processes, GetRead(p) \/ GetEnds(p)
  PROVE  R!Get(p) \/ R!Fails(p)
<1>. DEFINE n == op[p].name
<1>1. Alone(p) /\ op' = op /\ n \in Names /\ n \in Locks /\ LockedBy(p)
  BY OpFrame
<1>2. /\ phaseBar[p] = PhaseOf(pc[p])
      /\ phaseBar' = [phaseBar EXCEPT ![p] = PhaseOf(pc'[p])]
  BY <1>1, PhaseStep
<1>3. /\ lock' = lock /\ lock[n] = p /\ file' = file /\ op[p].call = "get"
      /\ pc[p] = "open" /\ pc'[p] = "unlock"
  BY <1>1 DEF GetRead, GetEnds, Goto, LockedBy, Inv, Types
<1>4. registerBar' = registerBar
  BY <1>1, <1>3, RegisterKept
<1>5. registerBar[n] = file[n]
  BY <1>1, <1>3 DEF registerBar, Writing
<1>6. PhaseOf(pc[p]) = "called" /\ PhaseOf(pc'[p]) = "returned"
  BY <1>3 DEF PhaseOf
<1>7. \/ file[n] = "none" /\ ~op[p].ever /\ Returns(p, "false")
      \/ /\ file[n] # "none"
         /\ Returns(p, IF file[n] # "empty" /\ Bytes[file[n]] >= op[p].size THEN file[n] ELSE "false")
      \/ /\ Returns(p, "false")
         /\ ("open" \in Failures /\ ~op[p].ever) \/ ("read" \in Failures /\ file[n] # "none")
  BY DEF GetRead, GetEnds, Fail
<1>8. \/ registerBar[n] = "none" /\ ~op[p].ever /\ Returns(p, "false")
      \/ /\ registerBar[n] # "none"
         /\ Returns(p, IF registerBar[n] # "empty" /\ Bytes[registerBar[n]] >= op[p].size
                       THEN registerBar[n] ELSE "false")
      \/ /\ Returns(p, "false")
         /\ ("open" \in Failures /\ ~op[p].ever) \/ ("read" \in Failures /\ registerBar[n] # "none")
  BY <1>5, <1>7
<1>. QED
  BY <1>1, <1>2, <1>3, <1>4, <1>6, <1>8 DEF R!Get, R!Fails, R!Become, R!Returns, Returns

\* A delete happens when it removes the file, also without the lock.
LEMMA DeleteRefines ==
  ASSUME Inv, NEW p \in Processes, Delete(p)
  PROVE  R!Delete(p)
<1>. DEFINE n == op[p].name
<1>1. Alone(p) /\ op' = op /\ n \in Names
  BY OpFrame
<1>2. /\ phaseBar[p] = PhaseOf(pc[p])
      /\ phaseBar' = [phaseBar EXCEPT ![p] = PhaseOf(pc'[p])]
  BY <1>1, PhaseStep
<1>3. /\ lock' = lock /\ result' = result /\ op[p].call = "delete"
      /\ pc[p] = "open" /\ pc'[p] = "unlock" /\ Unlink(n)
  BY DEF Delete, Goto, Inv, Types
<1>4. R!Unlink(n)
  <2>1. ASSUME file' = [file EXCEPT ![n] = "none"]
        PROVE  registerBar' = [registerBar EXCEPT ![n] = "none"]
    <3>1. registerBar' = [registerBar EXCEPT ![n] = registerBar'[n]] /\ file'[n] = "none"
      BY <1>1, <1>3, <2>1, RegisterSet
    <3>2. registerBar'[n] = "none"
      BY <1>1, <1>3, <3>1 DEF registerBar, Writing
    <3>. QED
      BY <3>1, <3>2
  <2>2. file' = file => registerBar' = registerBar
    BY <1>1, <1>3, RegisterKept
  <2>. QED
    BY <1>3, <2>1, <2>2 DEF Unlink, Fail, R!Unlink, R!Set
<1>5. PhaseOf(pc[p]) = "called" /\ PhaseOf(pc'[p]) = "returned"
  BY <1>3 DEF PhaseOf
<1>. QED
  BY <1>1, <1>2, <1>3, <1>4, <1>5 DEF R!Delete, R!Become

\* A call returns when its lock file is gone.
LEMMA UnlockRefines ==
  ASSUME Inv, NEW p \in Processes, Unlock(p)
  PROVE  R!Return(p)
<1>. DEFINE n == op[p].name
<1>1. n \in Names /\ n \in Locks
  BY NamesAndLocks DEF Inv, Types, Ops
<1>2. /\ Alone(p) /\ file' = file /\ pc[p] = "unlock" /\ pc'[p] \in {"idle", "string"}
      /\ lock' = [lock EXCEPT ![n] = IF @ = p THEN "free" ELSE @]
      /\ \/ UNCHANGED <<op, result>>
         \/ op' = [op EXCEPT ![p] = NoCall] /\ result' = [result EXCEPT ![p] = "none"]
  BY DEF Unlock, Goto, Clear, Returns, Release, Alone, Inv, Types
<1>3. /\ phaseBar[p] = PhaseOf(pc[p])
      /\ phaseBar' = [phaseBar EXCEPT ![p] = PhaseOf(pc'[p])]
  BY <1>2, PhaseStep
<1>4. registerBar' = registerBar
  <2>1. \A m \in Names : lock'[m] = lock[m] \/ (lock[m] \in {p, "free"} /\ lock'[m] \in {p, "free"})
    BY <1>1, <1>2, NamesAndLocks DEF Inv, Types
  <2>. QED
    BY <1>2, <2>1, RegisterKept
<1>5. PhaseOf(pc[p]) = "returned" /\ PhaseOf(pc'[p]) = "idle"
  BY <1>2 DEF PhaseOf
<1>6. R!Own(p)
  BY <1>2 DEF R!Own, Inv, Types
<1>. QED
  BY <1>3, <1>4, <1>5, <1>6 DEF R!Return, R!Become

\* A call begins, or a process steps between its calls.
LEMMA CallRefines ==
  ASSUME Inv, NEW p \in Processes,
         \/ Call(p) \/ CallString(p) \/ StringLock(p) \/ StringLockFails(p)
         \/ StringCreate(p) \/ StringGet(p) \/ StringUnlock(p)
  PROVE  R!Call(p)
<1>1. /\ pc[p] \in {"idle", "string lock", "string", "string unlock"}
      /\ pc' = [pc EXCEPT ![p] = pc'[p]]
      /\ pc'[p] \in {"idle", "lock", "string lock", "string delete", "string unlock"}
      /\ file' = file
      /\ \/ lock' = lock \/ lock' = [lock EXCEPT !["string"] = p]
         \/ lock' = [lock EXCEPT !["string"] = IF @ = p THEN "free" ELSE @]
  BY DEF Call, CallString, StringLock, StringLockFails, StringCreate, StringGet, StringUnlock,
       Then, StringEnds, Goto, Release, Inv, Types
<1>2. op' = [op EXCEPT ![p] = op'[p]] /\ result' = [result EXCEPT ![p] = result'[p]]
  BY DEF Call, CallString, StringLock, StringBegin, StringLockFails, StringCreate, StringGet,
       StringUnlock, Then, StringEnds, Clear, Returns, Inv, Types
<1>3. Alone(p)
  BY <1>1, <1>2 DEF Alone, Inv, Types
<1>4. /\ phaseBar[p] = PhaseOf(pc[p])
      /\ phaseBar' = [phaseBar EXCEPT ![p] = PhaseOf(pc'[p])]
  BY <1>3, PhaseStep
<1>5. registerBar' = registerBar
  <2>1. \A n \in Names : lock'[n] = lock[n]
    BY <1>1, NamesAndLocks DEF Inv, Types
  <2>. QED
    BY <1>1, <1>3, <2>1, RegisterKept
<1>6. PhaseOf(pc[p]) = "idle" /\ PhaseOf(pc'[p]) \in {"idle", "called", "forgetting"}
  BY <1>1 DEF PhaseOf
<1>7. phaseBar' \in {phaseBar, [phaseBar EXCEPT ![p] = "called"],
                     [phaseBar EXCEPT ![p] = "forgetting"]}
  BY <1>4, <1>6 DEF phaseBar
<1>. QED
  BY <1>2, <1>4, <1>5, <1>6, <1>7 DEF R!Call, R!Own

\* A string is deleted without the lock of the text.
LEMMA StringDeleteRefines ==
  ASSUME Inv, NEW p \in Processes, StringDelete(p)
  PROVE  R!Forget(p)
<1>1. /\ Alone(p) /\ UNCHANGED <<op, lock, result>> /\ Unlink("text")
      /\ pc[p] = "string delete" /\ pc'[p] = "string unlock"
  BY DEF StringDelete, Goto, Alone, Inv, Types
<1>2. "text" \in Names /\ op'[p] = op[p] /\ pc[p] # "write" /\ pc'[p] # "write"
  BY <1>1, NamesAndLocks
<1>3. R!Unlink("text")
  <2>1. ASSUME file' = [file EXCEPT !["text"] = "none"]
        PROVE  registerBar' = [registerBar EXCEPT !["text"] = "none"]
    <3>1. /\ registerBar' = [registerBar EXCEPT !["text"] = registerBar'["text"]]
          /\ file'["text"] = "none"
      BY <1>1, <1>2, <2>1, RegisterSet
    <3>2. registerBar'["text"] = "none"
      BY <1>2, <3>1 DEF registerBar, Writing
    <3>. QED
      BY <3>1, <3>2
  <2>2. file' = file => registerBar' = registerBar
    BY <1>1, <1>2, RegisterKept
  <2>. QED
    BY <1>1, <2>1, <2>2 DEF Unlink, Fail, R!Unlink, R!Set
<1>4. /\ phaseBar[p] = "forgetting" /\ phaseBar' = [phaseBar EXCEPT ![p] = "idle"]
  <2>1. PhaseOf(pc[p]) = "forgetting" /\ PhaseOf(pc'[p]) = "idle"
    BY <1>1 DEF PhaseOf
  <2>. QED
    BY <1>1, <2>1, PhaseStep
<1>. QED
  BY <1>1, <1>3, <1>4 DEF R!Forget, R!Become

\* Who dies while it writes leaves a torn variable, if any.
LEMMA CrashRefines ==
  ASSUME Inv, NEW p \in Processes, Crash(p)
  PROVE  R!Die(p)
<1>. DEFINE n == op[p].name
<1>1. /\ Alone(p) /\ op' = op /\ lock' = lock /\ result' = result /\ file' = file
      /\ pc[p] # "dead" /\ pc'[p] = "dead" /\ LockedBy(p) /\ n \in Names
  BY DEF Crash, Alone, Inv, Types, Locked, Ops
<1>2. /\ phaseBar[p] = PhaseOf(pc[p])
      /\ phaseBar' = [phaseBar EXCEPT ![p] = PhaseOf(pc'[p])]
  BY <1>1, PhaseStep
<1>3. PhaseOf(pc[p]) # "dead" /\ PhaseOf(pc'[p]) = "dead" /\ (PhaseOf(pc[p]) = "made" <=> pc[p] = "write")
  BY <1>1 DEF PhaseOf, Inv, Types, PCs
<1>4. CASE pc[p] # "write"
  <2>1. registerBar' = registerBar
    BY <1>1, <1>4, RegisterKept
  <2>. QED
    BY <1>1, <1>2, <1>3, <1>4, <2>1 DEF R!Die
<1>5. CASE pc[p] = "write"
  <2>1. R!Tear(p)
    BY <1>1, <1>5, TearRefines
  <2>. QED
    BY <1>1, <1>2, <1>3, <1>5, <2>1 DEF R!Die
<1>. QED
  BY <1>4, <1>5

\* Each call of aipc_variable_create, aipc_variable_get and aipc_variable_delete
\* happens at once, between its call and its return, also when a step named by Failures
\* fails: nobody is given a content that nobody created, or a part of one unless its
\* create failed or died, and nobody who waits with timeout -1 is sent away without one,
\* except by a file that cannot be read or is too short, or by a lock file that cannot
\* be made.
THEOREM VariablesAreRegisters == Spec => ImplementsRegister
<1>1. Init => R!Init
  <2>. SUFFICES ASSUME Init PROVE R!Init
    OBVIOUS
  <2>1. \A n \in Names : ~Writing(n) /\ file[n] = "none"
    BY NamesAndLocks, VariablesAssumption DEF Init, Writing
  <2>2. registerBar = [n \in Names |-> "none"]
    BY <2>1 DEF registerBar
  <2>3. phaseBar = [p \in Processes |-> "idle"]
    BY DEF Init, phaseBar, PhaseOf
  <2>. QED
    BY <2>2, <2>3 DEF R!Init
<1>2. Inv /\ [Next]_variablesVars => [R!Next]_R!registerVars
  <2>. SUFFICES ASSUME Inv, [Next]_variablesVars PROVE [R!Next]_R!registerVars
    OBVIOUS
  <2>1. CASE UNCHANGED variablesVars
    BY <2>1 DEF variablesVars, R!registerVars, registerBar, phaseBar, Writing
  <2>2. ASSUME NEW p \in Processes, Call(p) \/ CallString(p) \/ Take(p) \/ Step(p)
               \/ CreatePart(p) \/ GetOpenFails(p) \/ LockFails(p) \/ StringLockFails(p)
               \/ Crash(p)
        PROVE  [R!Next]_R!registerVars
    <3>1. \/ R!Call(p) \/ R!Create(p) \/ R!CreateReturns(p) \/ R!Get(p) \/ R!Fails(p)
          \/ R!Delete(p) \/ R!Return(p) \/ R!Die(p) \/ R!Forget(p)
          \/ UNCHANGED R!registerVars
      BY <2>2, LockRefines, CreateRefines, PartRefines, WriteRefines, GetRefines, DeleteRefines, UnlockRefines,
         CallRefines, StringDeleteRefines, CrashRefines DEF Take, Step
    <3>. QED
      BY <3>1 DEF R!Next
  <2>. QED
    BY <2>1, <2>2 DEF Next
<1>. QED
  BY <1>1, <1>2, Invariance, PTL DEF Spec, ImplementsRegister, R!RegisterSpec

(***************************************************************************)
(* String variables: as long as nothing fails, whoever has the lock file   *)
(* of the string is the only one that touches its two variables.           *)
(***************************************************************************)
InCall == {"lock", "open", "write", "unlock"}

Match == file["text"] \in Texts => file["length"] = LengthOf[file["text"]]

\* A process that is in a string function and has its lock.
Busy(p) == string[p].call # "none" /\ pc[p] \notin {"string lock", "dead"}

\* Who is in no string function deals with variables that are no part of a string.
Named(p) ==
  /\ string[p] # NoString => string[p].call # "none"
  /\ string[p].call = "none" /\ pc[p] # "dead" =>
       /\ pc[p] \in {"idle"} \cup InCall
       /\ pc[p] # "idle" => op[p].name \in Plain
  /\ string[p].call # "none" => pc[p] # "idle"

\* A string is created by creating its length, and after that its text.
Creating(p) ==
  /\ pc[p] \in InCall \cup {"string", "string unlock"}
  /\ op[p].call = "create"
  /\ pc[p] = "write" => file[op[p].name] # "none"
  /\ pc[p] \in {"unlock", "string", "string unlock"} => result[p] = "true"
  /\ \/ /\ op[p].name = "length" /\ op[p].data = LengthOf[string[p].text]
        /\ pc[p] \in {"unlock", "string"} => file["length"] = op[p].data
        /\ pc[p] # "string unlock"
     \/ /\ op[p].name = "text" /\ op[p].data = string[p].text
        /\ file["length"] = LengthOf[string[p].text]
        /\ pc[p] \in {"unlock", "string", "string unlock"} => file["text"] = op[p].data

Doing(p) ==
  /\ lock["string"] = p
  /\ string[p].call = "create" => Creating(p)
  /\ string[p].call = "get" =>
       /\ pc[p] \in InCall \cup {"string", "string unlock"}
       /\ op[p].call = "get" /\ Match
  /\ string[p].call = "delete" => pc[p] \in {"string delete", "string unlock"} /\ Match

Strung ==
  /\ lock["string"] = "free" => Match
  /\ \A p \in Processes : Named(p) /\ (Busy(p) => Doing(p))

\* What is known of the call a process is in.
LEMMA OpOf ==
  ASSUME Inv, NEW p \in Processes
  PROVE  /\ op[p] \in Ops /\ op[p].name \in Names /\ op[p].name # "string"
         /\ op[p].name \in Plain => op[p].name \notin {"text", "length"}
         /\ string[p].call \in {"none", "create", "get", "delete"} /\ p # "free"
         /\ pc[p] \in PCs
BY NamesAndLocks, VariablesAssumption DEF Inv, Types, Ops, Strings

\* A step of p leaves what the others do, if it keeps off the lock and the files of the
\* string while another has the lock.
LEMMA StrungKept ==
  ASSUME Inv, Strung, NEW p \in Processes,
         \A q \in Processes \ {p} :
           pc'[q] = pc[q] /\ op'[q] = op[q] /\ string'[q] = string[q] /\ result'[q] = result[q],
         lock'["string"] = lock["string"] \/ lock["string"] \in {p, "free"},
         \/ file'["text"] = file["text"] /\ file'["length"] = file["length"]
         \/ lock["string"] = p,
         Named(p)', Busy(p)' => Doing(p)', lock'["string"] = "free" => Match'
  PROVE  Strung'
<1>. SUFFICES ASSUME NEW q \in Processes, q # p PROVE Named(q)' /\ (Busy(q)' => Doing(q)')
  BY DEF Strung
<1>1. Named(q)'
  BY DEF Strung, Named
<1>2. ASSUME Busy(q)' PROVE Doing(q)'
  <2>1. Doing(q)
    BY <1>2 DEF Strung, Busy
  <2>2. q # "free" /\ lock["string"] = q
    BY <2>1, OpOf DEF Doing
  <2>3. /\ lock'["string"] = q
        /\ file'["text"] = file["text"] /\ file'["length"] = file["length"]
    BY <2>2
  <2>4. Match => Match'
    BY <2>3 DEF Match
  <2>5. ASSUME Creating(q) PROVE Creating(q)'
    <3>1. pc'[q] = pc[q] /\ op'[q] = op[q] /\ string'[q] = string[q] /\ result'[q] = result[q]
      OBVIOUS
    <3>2. op[q].name \in {"length", "text"}
      BY <2>5 DEF Creating
    <3>3. file'[op[q].name] = file[op[q].name]
      BY <2>3, <3>2
    <3>. QED
      BY <2>3, <2>5, <3>1, <3>3 DEF Creating
  <2>. QED
    BY <2>1, <2>3, <2>4, <2>5 DEF Doing
<1>. QED
  BY <1>1, <1>2

\* Beginning a call, or a string function.
LEMMA CallStrung ==
  ASSUME Inv, Strung, NEW p \in Processes, Call(p) \/ CallString(p)
  PROVE  Strung'
<1>1. pc[p] = "idle" /\ UNCHANGED <<lock, file, result>>
      /\ \A q \in Processes \ {p} : pc'[q] = pc[q] /\ op'[q] = op[q] /\ string'[q] = string[q]
  BY DEF Inv, Types, Call, CallString, Goto
<1>2. string[p].call = "none"
  BY <1>1 DEF Strung, Named
<1>3. CASE Call(p)
  <2>1. pc'[p] = "lock" /\ string' = string
    BY <1>3 DEF Inv, Types, Call, Goto
  <2>2. op'[p].name \in Plain
    BY <1>3 DEF Inv, Types, Call, CreateOf, GetOf, DeleteOf
  <2>3. Named(p)'
    BY <1>2, <2>1, <2>2 DEF Strung, Named, InCall
  <2>. QED
    BY <1>1, <1>2, <2>1, <2>3, StrungKept DEF Strung, Match, Busy
<1>4. CASE CallString(p)
  <2>1. pc'[p] = "string lock"
    BY <1>4 DEF Inv, Types, CallString, Goto
  <2>2. string'[p].call # "none"
    <3>1. PICK c \in {"create", "get", "delete"}, t \in Texts \cup {"none"}, e \in BOOLEAN :
            string' = [string EXCEPT ![p] = StringOf(c, t, e)]
      BY <1>4 DEF CallString
    <3>2. StringOf(c, t, e).call # "none"
      BY DEF StringOf
    <3>. QED
      BY <3>1, <3>2 DEF Inv, Types
  <2>. QED
    BY <1>1, <2>1, <2>2, StrungKept DEF Strung, Match, Busy, Named
<1>. QED
  BY <1>3, <1>4

\* A call of somebody who is in no string function.
LEMMA PlainStrung ==
  ASSUME Inv, Strung, NEW p \in Processes, string[p].call = "none",
         Lock(p) \/ CreateOpen(p) \/ CreatePart(p) \/ CreateWrite(p) \/ GetRead(p)
           \/ GetWait(p) \/ GetEnds(p) \/ Delete(p) \/ Unlock(p)
  PROVE  Strung'
<1>1. /\ pc[p] \in InCall /\ string' = string
      /\ pc'[p] \in InCall \cup {"idle"}
      /\ pc'[p] = "idle" \/ op'[p] = op[p]
      /\ \A q \in Processes \ {p} : pc'[q] = pc[q] /\ op'[q] = op[q] /\ result'[q] = result[q]
  BY DEF Inv, Types, Lock, CreateOpen, CreatePart, CreateWrite, GetRead, GetWait, GetEnds, Delete, Unlock,
     Goto, Returns, Clear, InCall, Strung, Named
<1>2. op[p].name \in Plain /\ op[p].name \notin {"text", "length", "string"}
  BY <1>1, OpOf DEF Strung, Named, InCall
<1>3. lock'["string"] = lock["string"]
  BY <1>2, NamesAndLocks DEF Inv, Types, Lock, CreateOpen, CreatePart, CreateWrite, GetRead, GetWait,
     GetEnds, Delete, Unlock, Release
<1>4. file'["text"] = file["text"] /\ file'["length"] = file["length"]
  BY <1>2, NamesAndLocks DEF Inv, Types, Lock, CreateOpen, CreatePart, CreateWrite, GetRead, GetWait,
     GetEnds, Delete, Unlink, Unlock
<1>5. Named(p)'
  BY <1>1, <1>2 DEF Strung, Named
<1>. QED
  BY <1>1, <1>3, <1>4, <1>5, StrungKept DEF Strung, Match, Busy

\* A call that is part of a string function.
LEMMA BusyStrung ==
  ASSUME Inv, Strung, NEW p \in Processes, string[p].call # "none", failed' = FALSE,
         Lock(p) \/ CreateOpen(p) \/ CreatePart(p) \/ CreateWrite(p) \/ GetRead(p)
           \/ GetWait(p) \/ GetEnds(p) \/ Delete(p) \/ Unlock(p)
  PROVE  Strung'
<1>1. string[p] # NoString
  BY DEF NoString, StringOf
<1>2. /\ pc[p] \in InCall /\ string' = string
      /\ op' = op /\ pc'[p] \in InCall \cup {"string"}
      /\ \A q \in Processes \ {p} : pc'[q] = pc[q] /\ result'[q] = result[q]
  BY <1>1 DEF Inv, Types, Lock, CreateOpen, CreatePart, CreateWrite, GetRead, GetWait, GetEnds, Delete,
     Unlock, Goto, Returns, InCall
<1>3. Doing(p) /\ lock["string"] = p
  BY <1>2 DEF Strung, Busy, Doing, InCall
<1>4. op[p].name \in Names /\ op[p].name # "string"
  BY OpOf
<1>5. lock'["string"] = p
  BY <1>3, <1>4, NamesAndLocks DEF Inv, Types, Lock, CreateOpen, CreatePart, CreateWrite, GetRead,
     GetWait, GetEnds, Delete, Unlock, Release
<1>6. Named(p)'
  BY <1>1, <1>2 DEF Named, InCall
<1>7. string[p].call \in {"create", "get"}
  BY <1>2, <1>3, OpOf DEF Doing, InCall
<1>8. Doing(p)'
  <2>1. CASE string[p].call = "create"
    <3>1. Creating(p) /\ op[p].call = "create" /\ op[p].name \in {"length", "text"}
      BY <1>3, <2>1 DEF Doing, Creating
    <3>2. CASE Lock(p) \/ Unlock(p)
      <4>1. /\ \/ pc[p] = "lock" /\ pc'[p] = "open"
               \/ pc[p] = "unlock" /\ pc'[p] = "string"
            /\ file' = file /\ result' = result
        BY <1>1, <3>2 DEF Inv, Types, Lock, Unlock, Goto
      <4>2. Creating(p)'
        BY <1>2, <3>1, <4>1 DEF Creating, InCall
      <4>. QED
        BY <1>2, <1>5, <2>1, <4>2 DEF Doing
    <3>3. CASE CreateOpen(p)
      <4>1. /\ pc[p] = "open" /\ pc'[p] = "write" /\ result' = result
            /\ file' = [file EXCEPT ![op[p].name] = "empty"]
        BY <3>3 DEF Inv, Types, CreateOpen, Fail, Goto
      <4>2. file'[op[p].name] = "empty"
        BY <1>4, <4>1 DEF Inv, Types
      <4>3. op[p].name = "text" => file'["length"] = file["length"]
        BY <4>1, NamesAndLocks DEF Inv, Types
      <4>4. Creating(p)'
        BY <1>2, <3>1, <4>1, <4>2, <4>3 DEF Creating, InCall
      <4>. QED
        BY <1>2, <1>5, <2>1, <4>4 DEF Doing
    <3>4. CASE CreateWrite(p)
      <4>1. /\ pc[p] = "write" /\ pc'[p] = "unlock" /\ result'[p] = "true"
            /\ file' = [file EXCEPT ![op[p].name] = IF @ = "none" THEN @ ELSE op[p].data]
        BY <3>4 DEF Inv, Types, CreateWrite, Fail, Goto, Returns
      <4>2. file[op[p].name] # "none"
        BY <3>1, <4>1 DEF Creating
      <4>3. file'[op[p].name] = op[p].data
        BY <1>4, <4>1, <4>2 DEF Inv, Types
      <4>4. op[p].name = "text" => file'["length"] = file["length"]
        BY <4>1, NamesAndLocks DEF Inv, Types
      <4>5. Creating(p)'
        BY <1>2, <3>1, <4>1, <4>3, <4>4 DEF Creating, InCall
      <4>. QED
        BY <1>2, <1>5, <2>1, <4>5 DEF Doing
    <3>5. CASE CreatePart(p)
      <4>1. PICK c \in Parts[op[p].data] : file' = [file EXCEPT ![op[p].name] = c]
        BY <3>5 DEF CreatePart
      <4>2. pc[p] = "write" /\ pc' = pc /\ result' = result /\ c # "none"
        BY <3>1, <3>5, VariablesAssumption DEF CreatePart, Inv, Filled
      <4>3. /\ file'[op[p].name] # "none"
            /\ op[p].name = "text" => file'["length"] = file["length"]
        BY <1>4, <4>1, <4>2, NamesAndLocks DEF Inv, Types
      <4>4. Creating(p)'
        BY <1>2, <3>1, <4>2, <4>3 DEF Creating, InCall
      <4>. QED
        BY <1>2, <1>5, <2>1, <4>4 DEF Doing
    <3>. QED
      BY <3>1, <3>2, <3>3, <3>4, <3>5 DEF GetRead, GetWait, GetEnds, Delete
  <2>2. CASE string[p].call = "get"
    <3>1. op[p].call = "get" /\ Match
      BY <1>3, <2>2 DEF Doing
    <3>2. file' = file
      <4>1. pc[p] # "write"
        BY <3>1 DEF Inv, Locked, LockedBy
      <4>. QED
        BY <3>1, <4>1 DEF Lock, CreateOpen, CreatePart, CreateWrite, GetRead, GetWait, GetEnds, Delete,
           Unlock, Goto
    <3>. QED
      BY <1>2, <1>5, <2>2, <3>1, <3>2 DEF Doing, Match
  <2>. QED
    BY <1>7, <2>1, <2>2
<1>9. p # "free"
  BY OpOf
<1>. QED
  BY <1>2, <1>3, <1>5, <1>6, <1>8, <1>9, StrungKept

\* The steps of the string functions themselves.
LEMMA StringStrung ==
  ASSUME Inv, Strung, NEW p \in Processes, failed' = FALSE,
         StringLock(p) \/ StringCreate(p) \/ StringGet(p) \/ StringDelete(p) \/ StringUnlock(p)
  PROVE  Strung'
<1>1. /\ pc[p] \in {"string lock", "string", "string delete", "string unlock"}
      /\ p # "free" /\ pc[p] \in PCs
      /\ \A q \in Processes \ {p} :
           pc'[q] = pc[q] /\ op'[q] = op[q] /\ string'[q] = string[q] /\ result'[q] = result[q]
  <2>1. /\ pc[p] \in {"string lock", "string", "string delete", "string unlock"}
        /\ \A q \in Processes \ {p} :
             pc'[q] = pc[q] /\ string'[q] = string[q] /\ result'[q] = result[q]
    BY DEF Inv, Types, StringLock, StringCreate, StringGet, StringDelete, StringUnlock, Goto, Then,
       StringEnds, Clear, Returns
  <2>2. \A q \in Processes \ {p} : op'[q] = op[q]
    BY OpOf DEF Inv, Types, StringLock, StringBegin, StringCreate, StringGet, StringDelete,
       StringUnlock, Then, StringEnds, Clear
  <2>. QED
    BY <2>1, <2>2, OpOf
<1>2. string[p].call \in {"create", "get", "delete"} /\ string[p] # NoString
  <2>1. string[p].call # "none"
    BY <1>1 DEF Strung, Named, InCall
  <2>. QED
    BY <2>1, OpOf DEF NoString, StringOf
<1>3. CASE StringLock(p)
  <2>1. /\ lock["string"] = "free" /\ lock'["string"] = p /\ UNCHANGED <<string, result, file>>
        /\ pc'[p] = IF string[p].call = "delete" THEN "string delete" ELSE "lock"
    BY <1>3, NamesAndLocks DEF Inv, Types, StringLock, Goto
  <2>2. Match
    BY <2>1 DEF Strung
  <2>3. Match'
    BY <2>1, <2>2 DEF Match
  <2>4. Doing(p)'
    <3>1. CASE string[p].call = "create"
      <4>1. op'[p] = CreateOf("length", LengthOf[string[p].text])
        BY <1>3, <3>1 DEF Inv, Types, StringLock, StringBegin
      <4>2. /\ op'[p].call = "create" /\ op'[p].name = "length"
            /\ op'[p].data = LengthOf[string[p].text]
        BY <4>1 DEF CreateOf
      <4>. QED
        BY <2>1, <3>1, <4>2 DEF Doing, Creating, InCall
    <3>2. CASE string[p].call = "get"
      <4>1. op'[p] = GetOf("text", IntSize, string[p].ever)
        BY <1>3, <3>2 DEF Inv, Types, StringLock, StringBegin
      <4>2. op'[p].call = "get"
        BY <4>1 DEF GetOf
      <4>. QED
        BY <2>1, <2>3, <3>2, <4>2 DEF Doing, InCall
    <3>3. CASE string[p].call = "delete"
      BY <2>1, <2>3, <3>3 DEF Doing
    <3>. QED
      BY <1>2, <3>1, <3>2, <3>3
  <2>5. Named(p)'
    BY <1>2, <2>1 DEF Named
  <2>. QED
    BY <1>1, <2>1, <2>4, <2>5, StrungKept
<1>4. CASE ~StringLock(p)
  <2>1. pc[p] # "string lock"
    BY <1>1, <1>4 DEF StringCreate, StringGet, StringDelete, StringUnlock, Goto, Then, StringEnds
  <2>2. Doing(p) /\ lock["string"] = p
    BY <1>1, <1>2, <2>1 DEF Strung, Busy, Doing
  <2>3. CASE StringCreate(p)
    <3>1. /\ pc[p] = "string" /\ string[p].call = "create" /\ Creating(p)
          /\ UNCHANGED <<string, result, lock, file>>
      BY <2>2, <2>3 DEF StringCreate, Then, StringEnds, Goto, Doing
    <3>2. result[p] = "true" /\ op[p].call = "create"
      BY <3>1 DEF Creating
    <3>3. CASE op[p].name = "length"
      <4>1. pc'[p] = "lock" /\ op'[p] = CreateOf("text", string[p].text)
        BY <2>3, <3>2, <3>3 DEF Inv, Types, StringCreate, Then, Goto
      <4>2. op'[p].call = "create" /\ op'[p].name = "text" /\ op'[p].data = string[p].text
        BY <4>1 DEF CreateOf
      <4>3. file["length"] = LengthOf[string[p].text]
        BY <3>1, <3>3 DEF Creating
      <4>4. Creating(p)'
        BY <3>1, <4>1, <4>2, <4>3 DEF Creating, InCall
      <4>5. Doing(p)' /\ Named(p)'
        BY <1>2, <2>2, <3>1, <4>1, <4>4 DEF Doing, Named
      <4>. QED
        BY <1>1, <2>2, <3>1, <4>5, StrungKept
    <3>4. CASE op[p].name # "length"
      <4>1. op[p].name = "text"
        BY <3>1, <3>4 DEF Creating
      <4>2. pc'[p] = "string unlock" /\ op' = op
        BY <2>3, <3>2, <4>1 DEF Inv, Types, StringCreate, StringEnds, Goto
      <4>3. Creating(p)'
        BY <3>1, <4>1, <4>2 DEF Creating
      <4>4. Doing(p)' /\ Named(p)'
        BY <1>2, <2>2, <3>1, <4>2, <4>3 DEF Doing, Named
      <4>. QED
        BY <1>1, <2>2, <3>1, <4>4, StrungKept
    <3>. QED
      BY <3>3, <3>4
  <2>4. CASE StringGet(p)
    <3>1. /\ pc[p] = "string" /\ pc'[p] \in {"lock", "string unlock"}
          /\ string[p].call = "get" /\ op[p].call = "get" /\ Match
          /\ UNCHANGED <<string, result, lock, file>>
      BY <2>2, <2>4 DEF Inv, Types, StringGet, Then, StringEnds, Goto, Doing
    <3>2. op'[p].call = "get"
      <4>1. op'[p] = op[p] \/ op'[p] = GetOf("text", AsInt[result[p]], string[p].ever)
        BY <2>4 DEF Inv, Types, StringGet, Then, StringEnds
      <4>2. GetOf("text", AsInt[result[p]], string[p].ever).call = "get"
        BY DEF GetOf
      <4>. QED
        BY <3>1, <4>1, <4>2
    <3>3. Doing(p)' /\ Named(p)'
      BY <1>2, <2>2, <3>1, <3>2 DEF Doing, Named, Match, InCall
    <3>. QED
      BY <1>1, <2>2, <3>1, <3>3, StrungKept
  <2>5. CASE StringDelete(p)
    <3>1. /\ pc[p] = "string delete" /\ pc'[p] = "string unlock"
          /\ UNCHANGED <<string, result, lock, op>> /\ file'["text"] = "none"
      BY <2>5, NamesAndLocks DEF Inv, Types, StringDelete, Unlink, Fail, Goto
    <3>2. string[p].call = "delete"
      BY <1>2, <2>2, <3>1 DEF Doing, Creating, InCall
    <3>3. Match'
      <4>1. "none" \notin Texts
        BY VariablesAssumption DEF VariablesAssumption
      <4>. QED
        BY <3>1, <4>1 DEF Match
    <3>4. Doing(p)' /\ Named(p)'
      BY <1>2, <2>2, <3>1, <3>2, <3>3 DEF Doing, Named
    <3>. QED
      BY <1>1, <2>2, <3>1, <3>4, StrungKept
  <2>6. CASE StringUnlock(p)
    <3>1. /\ pc[p] = "string unlock" /\ pc'[p] = "idle" /\ file' = file
          /\ string'[p] = NoString
      BY <2>6 DEF Inv, Types, StringUnlock, Goto
    <3>2. Match
      <4>1. CASE string[p].call = "create"
        BY <2>2, <3>1, <4>1 DEF Doing, Creating, Match
      <4>2. CASE string[p].call # "create"
        BY <1>2, <2>2, <4>2 DEF Doing
      <4>. QED
        BY <4>1, <4>2
    <3>3. Match'
      BY <3>1, <3>2 DEF Match
    <3>4. string'[p].call = "none"
      <4>1. NoString.call = "none"
        BY DEF NoString, StringOf
      <4>. QED
        BY <3>1, <4>1
    <3>5. Named(p)' /\ ~Busy(p)'
      BY <3>1, <3>4 DEF Named, Busy
    <3>. QED
      BY <1>1, <2>2, <3>1, <3>3, <3>5, StrungKept
  <2>. QED
    BY <1>4, <2>3, <2>4, <2>5, <2>6
<1>. QED
  BY <1>3, <1>4

StringsSound == failed \in BOOLEAN /\ (failed = FALSE => Strung)

\* As long as nothing fails, a string variable is created and removed as one.
LEMMA StrungStep ==
  ASSUME Inv, failed = FALSE => Strung, [Next]_variablesVars
  PROVE  failed' = FALSE => Strung'
<1>. SUFFICES ASSUME failed' = FALSE PROVE Strung'
  OBVIOUS
<1>1. CASE UNCHANGED variablesVars
  <2>1. UNCHANGED <<pc, calls, op, string, result, lock, file, failed>>
    BY <1>1 DEF variablesVars
  <2>2. Match => Match'
    BY <2>1 DEF Match
  <2>3. ASSUME NEW p \in Processes
        PROVE  /\ Named(p) => Named(p)'
               /\ Busy(p)' => Busy(p)
               /\ Creating(p) => Creating(p)'
    BY <2>1 DEF Named, Busy, Creating
  <2>4. \A p \in Processes : Doing(p) => Doing(p)'
    BY <2>1, <2>2, <2>3 DEF Doing
  <2>. QED
    BY <2>1, <2>2, <2>3, <2>4 DEF Strung
<1>2. CASE Next
  <2>1. PICK p \in Processes : \/ Call(p) \/ CallString(p) \/ Take(p) \/ Step(p)
                               \/ CreatePart(p) \/ GetOpenFails(p) \/ LockFails(p)
                               \/ StringLockFails(p) \/ Crash(p)
    BY <1>2 DEF Next
  <2>2. ~LockFails(p) /\ ~StringLockFails(p) /\ ~GetOpenFails(p)
    BY DEF LockFails, StringLockFails, GetOpenFails, Fail
  <2>3. failed' = failed \/ failed' = TRUE
    BY <2>1, <2>2 DEF Call, CallString, Take, Lock, StringLock, Step, CreateOpen, CreatePart,
       CreateWrite, GetRead, GetWait, GetEnds, Delete, Unlink, Unlock, StringCreate, StringGet,
       StringDelete, StringUnlock, Crash, Fail
  <2>4. Strung
    BY <2>3
  <2>5. CASE Crash(p)
    <3>1. /\ pc'[p] = "dead" /\ UNCHANGED <<op, string, result, lock, file>>
          /\ \A q \in Processes \ {p} : pc'[q] = pc[q]
      BY <2>5 DEF Inv, Types, Crash
    <3>2. Named(p)' /\ ~Busy(p)' /\ (Match => Match')
      BY <2>4, <3>1 DEF Strung, Named, Busy, Match
    <3>. QED
      BY <2>4, <3>1, <3>2, StrungKept DEF Strung
  <2>6. CASE Call(p) \/ CallString(p)
    BY <2>4, <2>6, CallStrung
  <2>7. CASE StringLock(p) \/ StringCreate(p) \/ StringGet(p) \/ StringDelete(p) \/ StringUnlock(p)
    BY <2>4, <2>7, StringStrung
  <2>8. CASE \/ Lock(p) \/ CreateOpen(p) \/ CreatePart(p) \/ CreateWrite(p) \/ GetRead(p) \/ GetWait(p)
             \/ GetEnds(p) \/ Delete(p) \/ Unlock(p)
    <3>1. CASE string[p].call = "none"
      BY <2>4, <2>8, <3>1, PlainStrung
    <3>2. CASE string[p].call # "none"
      BY <2>4, <2>8, <3>2, BusyStrung
    <3>. QED
      BY <3>1, <3>2
  <2>. QED
    BY <2>1, <2>2, <2>5, <2>6, <2>7, <2>8 DEF Take, Step
<1>. QED
  BY <1>1, <1>2

\* Unless something failed, a string variable that nobody is creating, getting or
\* deleting has the length of its text, for any processes and texts and whoever of the
\* processes dies: its two files are only changed under the lock file of the string
\* (variable.c:190-274).
THEOREM AlwaysStringsMatch == Spec => []StringsMatch
<1>1. Init => StringsSound
  <2>. SUFFICES ASSUME Init PROVE Strung /\ failed \in BOOLEAN
    BY DEF StringsSound
  <2>1. Match
    <3>1. "none" \notin Texts /\ file["text"] = "none"
      BY VariablesAssumption, NamesAndLocks DEF VariablesAssumption, Init
    <3>. QED
      BY <3>1 DEF Match
  <2>2. \A p \in Processes : Named(p) /\ ~Busy(p)
    BY DEF Init, Named, Busy, NoString, StringOf
  <2>. QED
    BY <2>1, <2>2 DEF Strung, Init
<1>2. Inv /\ StringsSound /\ [Next]_variablesVars => StringsSound'
  <2>. SUFFICES ASSUME Inv, StringsSound, [Next]_variablesVars PROVE StringsSound'
    OBVIOUS
  <2>1. failed' \in BOOLEAN
    BY DEF StringsSound, Next, variablesVars, Call, CallString, Take, Lock, StringLock, Step,
       CreateOpen, CreatePart, CreateWrite, GetRead, GetWait, GetOpenFails, GetEnds, Delete,
       Unlink, Unlock, StringCreate, StringGet, StringDelete, StringUnlock, Crash, Fail, LockFails,
       StringLockFails
  <2>. QED
    BY <2>1, StrungStep DEF StringsSound
<1>3. StringsSound => StringsMatch
  BY DEF StringsSound, Strung, StringsMatch, Match
<1>. QED
  BY <1>1, <1>2, <1>3, Invariance, PTL DEF Spec
=============================================================================
