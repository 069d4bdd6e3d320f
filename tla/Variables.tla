------------------------------ MODULE Variables ------------------------------
(***************************************************************************)
(* Variables that processes share by a common filenames_prefix, of         *)
(* aipc/src/variable.c: the content is in a file of that name, and a lock  *)
(* file beside it keeps others away while it is written, read or removed.  *)
(* A string variable is two variables, the text and its length, under a    *)
(* lock file of its own.                                                   *)
(***************************************************************************)
EXTENDS Naturals

CONSTANTS
  Processes,
  Plain,        \* variables that are no part of a string
  Values,       \* what they are created with
  Contents,     \* what a file may hold
  Bytes,        \* how many bytes each content has
  AsInt,        \* the first bytes of each content, read as an int
  Parts,        \* what else each content may be in the file when not all is written
  Texts,        \* the contents that are strings
  LengthOf,     \* the int that says how many bytes each text has
  MaxCalls,     \* bound: how many calls the processes make
  Failures,     \* what may fail: "lock", "open", "write", "close", "read" or "unlink"
  Crashes       \* the processes that may die

IntSize == 4

Names == Plain \cup {"text", "length"}
Locks == Names \cup {"string"}

ASSUME VariablesAssumption ==
  /\ Bytes \in [Contents -> Nat] /\ AsInt \in [Contents -> Nat]
  /\ Parts \in [Contents -> SUBSET Contents]
  /\ Values \subseteq Contents /\ Texts \subseteq Contents /\ LengthOf \in [Texts -> Contents]
  /\ {"none", "empty"} \cap Contents = {} /\ "free" \notin Processes
  /\ \A t \in Texts : AsInt[LengthOf[t]] = Bytes[t]
  /\ {"text", "length", "string"} \cap Plain = {}

VARIABLES
  pc,           \* where each process is
  calls,        \* how many calls were made
  op,           \* its aipc_variable_create, _get or _delete; ever: timeout -1
  string,       \* the string function it is in, if any
  result,       \* what that returned: "none", "false", "true" or the content
  lock,         \* the holder of each lock file, or "free"
  file,         \* the content of each file, "none" or "empty"
  failed        \* history: something has failed

variablesVars == <<pc, calls, op, string, result, lock, file, failed>>

CreateOf(n, c) ==
  [call |-> "create", name |-> n, data |-> c, size |-> 0, ever |-> FALSE]
GetOf(n, s, e) ==
  [call |-> "get", name |-> n, data |-> "none", size |-> s, ever |-> e]
DeleteOf(n) ==
  [call |-> "delete", name |-> n, data |-> "none", size |-> 0, ever |-> FALSE]
NoCall == [call |-> "none", name |-> "text", data |-> "none", size |-> 0, ever |-> FALSE]

StringOf(c, t, e) == [call |-> c, text |-> t, ever |-> e]
NoString == StringOf("none", "none", FALSE)

Init ==
  /\ pc = [p \in Processes |-> "idle"]
  /\ calls = 0
  /\ op = [p \in Processes |-> NoCall]
  /\ string = [p \in Processes |-> NoString]
  /\ result = [p \in Processes |-> "none"]
  /\ lock = [l \in Locks |-> "free"]
  /\ file = [n \in Names |-> "none"]
  /\ failed = FALSE

Goto(p, from, to) == pc[p] = from /\ pc' = [pc EXCEPT ![p] = to]
Returns(p, r) == result' = [result EXCEPT ![p] = r]
Fail(what) == what \in Failures /\ failed' = TRUE
Release(p, l) == lock' = [lock EXCEPT ![l] = IF @ = p THEN "free" ELSE @]

Clear(p) == op' = [op EXCEPT ![p] = NoCall] /\ Returns(p, "none")

CallCounts == calls < MaxCalls /\ calls' = calls + 1

Call(p) ==
  /\ CallCounts /\ Goto(p, "idle", "lock")
  /\ \E n \in Plain :
       \/ \E c \in Values : op' = [op EXCEPT ![p] = CreateOf(n, c)]
       \/ \E e \in BOOLEAN : op' = [op EXCEPT ![p] = GetOf(n, IntSize, e)]
       \/ op' = [op EXCEPT ![p] = DeleteOf(n)]
  /\ UNCHANGED <<string, result, lock, file, failed>>

\* Mutant of Lock: nobody is kept away.
LockAnyway(p) ==
  /\ Goto(p, "lock", "open") /\ lock' = [lock EXCEPT ![op[p].name] = p]
  /\ UNCHANGED <<calls, op, string, result, file, failed>>

(***************************************************************************)
(* aipc_lock_new: try until there is no lock file.  If the file cannot be  *)
(* made a create and a get fail, and a delete goes on without the lock.    *)
(***************************************************************************)
Lock(p) ==
  /\ lock[op[p].name] = "free" /\ Goto(p, "lock", "open")
  /\ lock' = [lock EXCEPT ![op[p].name] = p]
  /\ UNCHANGED <<calls, op, string, result, file, failed>>

LockFails(p) ==
  /\ Fail("lock")
  /\ IF op[p].call = "delete"
     THEN Goto(p, "lock", "open") /\ UNCHANGED result
     ELSE Goto(p, "lock", "unlock") /\ Returns(p, "false")
  /\ UNCHANGED <<calls, op, string, lock, file>>

\* Opening the file for writing makes or truncates it.
CreateOpen(p) ==
  /\ op[p].call = "create"
  /\ \/ /\ Goto(p, "open", "write")
        /\ file' = [file EXCEPT ![op[p].name] = "empty"]
        /\ UNCHANGED <<result, failed>>
     \/ Fail("open") /\ Goto(p, "open", "unlock") /\ Returns(p, "false") /\ UNCHANGED file
  /\ UNCHANGED <<calls, op, string, lock>>

\* The first bytes get into the file before the others.
CreatePart(p) ==
  LET n == op[p].name IN
  /\ pc[p] = "write" /\ file[n] = "empty"
  /\ \E c \in Parts[op[p].data] : file' = [file EXCEPT ![n] = c]
  /\ UNCHANGED <<pc, calls, op, string, result, lock, failed>>

\* A short fwrite is told, an fclose that cannot write what was buffered is
\* not.  What is written to a file that was removed is lost.
CreateWrite(p) ==
  /\ Goto(p, "write", "unlock")
  /\ \/ /\ Returns(p, "true") /\ UNCHANGED failed
        /\ file' = [file EXCEPT ![op[p].name] = IF @ = "none" THEN @ ELSE op[p].data]
     \/ Fail("write") /\ Returns(p, "false") /\ UNCHANGED file
     \/ Fail("close") /\ Returns(p, "true") /\ UNCHANGED file
  /\ UNCHANGED <<calls, op, string, lock>>

GetRead(p) ==
  LET c == file[op[p].name] IN
  /\ op[p].call = "get" /\ c # "none"
  /\ Goto(p, "open", "unlock")
  /\ \/ /\ Returns(p, IF c # "empty" /\ Bytes[c] >= op[p].size THEN c ELSE "false")
        /\ UNCHANGED failed
     \/ Fail("read") /\ Returns(p, "false")
  /\ UNCHANGED <<calls, op, string, lock, file>>

\* Mutant of GetWait: the lock is kept while it sleeps.
GetWaitLocked(p) ==
  /\ op[p].call = "get" /\ file[op[p].name] = "none"
  /\ pc[p] = "open"
  /\ UNCHANGED variablesVars

\* The lock is left for 2 ms and taken again.
GetWait(p) ==
  /\ op[p].call = "get" /\ file[op[p].name] = "none"
  /\ Goto(p, "open", "lock") /\ Release(p, op[p].name)
  /\ UNCHANGED <<calls, op, string, result, file, failed>>

\* A file that is there and cannot be opened is waited for like one that is not.
GetOpenFails(p) ==
  /\ op[p].call = "get" /\ file[op[p].name] # "none" /\ Fail("open")
  /\ Goto(p, "open", "lock") /\ Release(p, op[p].name)
  /\ UNCHANGED <<calls, op, string, result, file>>

GetEnds(p) ==
  /\ op[p].call = "get" /\ ~op[p].ever
  /\ (file[op[p].name] = "none" /\ UNCHANGED failed) \/ Fail("open")
  /\ Goto(p, "open", "unlock") /\ Returns(p, "false")
  /\ UNCHANGED <<calls, op, string, lock, file>>

\* An unlink that fails is not told.
Unlink(n) ==
  \/ file' = [file EXCEPT ![n] = "none"] /\ UNCHANGED failed
  \/ Fail("unlink") /\ UNCHANGED file

Delete(p) ==
  /\ op[p].call = "delete" /\ Goto(p, "open", "unlock")
  /\ Unlink(op[p].name)
  /\ UNCHANGED <<calls, op, string, result, lock>>

Unlock(p) ==
  /\ Release(p, op[p].name)
  /\ \/ string[p] = NoString /\ Goto(p, "unlock", "idle") /\ Clear(p)
     \/ string[p] # NoString /\ Goto(p, "unlock", "string") /\ UNCHANGED <<op, result>>
  /\ UNCHANGED <<calls, string, file, failed>>

-----------------------------------------------------------------------------
(***************************************************************************)
(* String variables.                                                       *)
(***************************************************************************)
CallString(p) ==
  /\ CallCounts /\ Goto(p, "idle", "string lock")
  /\ \/ \E t \in Texts : string' = [string EXCEPT ![p] = StringOf("create", t, FALSE)]
     \/ \E e \in BOOLEAN : string' = [string EXCEPT ![p] = StringOf("get", "none", e)]
     \/ string' = [string EXCEPT ![p] = StringOf("delete", "none", FALSE)]
  /\ UNCHANGED <<op, result, lock, file, failed>>

\* The first step of a string function that has or could not get its lock.
StringBegin(p) ==
  CASE string[p].call = "create" ->
         op' = [op EXCEPT ![p] = CreateOf("length", LengthOf[string[p].text])]
    [] string[p].call = "get" ->
         op' = [op EXCEPT ![p] = GetOf("text", IntSize, string[p].ever)]
    [] OTHER -> UNCHANGED op

\* Mutant of StringLock: nobody is kept away.
StringLockAnyway(p) ==
  /\ lock' = [lock EXCEPT !["string"] = p]
  /\ Goto(p, "string lock", IF string[p].call = "delete" THEN "string delete" ELSE "lock")
  /\ StringBegin(p)
  /\ UNCHANGED <<calls, string, result, file, failed>>

StringLock(p) ==
  /\ lock["string"] = "free" /\ lock' = [lock EXCEPT !["string"] = p]
  /\ Goto(p, "string lock", IF string[p].call = "delete" THEN "string delete" ELSE "lock")
  /\ StringBegin(p)
  /\ UNCHANGED <<calls, string, result, file, failed>>

StringLockFails(p) ==
  /\ Fail("lock")
  /\ Goto(p, "string lock",
          IF string[p].call = "delete" THEN "string delete" ELSE "string unlock")
  /\ UNCHANGED <<calls, op, string, result, lock, file>>

\* What the variable functions that a string function calls lead to.
Then(p, o) == Goto(p, "string", "lock") /\ op' = [op EXCEPT ![p] = o]
StringEnds(p) == Goto(p, "string", "string unlock") /\ UNCHANGED op

StringCreate(p) ==
  /\ string[p].call = "create"
  /\ IF op[p].name = "length" /\ op[p].call = "create" /\ result[p] = "true"
     THEN Then(p, CreateOf("text", string[p].text))
     ELSE IF op[p].name = "text" /\ result[p] = "false"
     THEN Then(p, DeleteOf("length"))
     ELSE StringEnds(p)
  /\ UNCHANGED <<calls, string, result, lock, file, failed>>

\* The length is read from the text.
StringGet(p) ==
  /\ string[p].call = "get"
  /\ IF op[p].size = IntSize /\ result[p] # "false"
     THEN Then(p, GetOf("text", AsInt[result[p]], string[p].ever))
     ELSE StringEnds(p)
  /\ UNCHANGED <<calls, string, result, lock, file, failed>>

\* The other file it removes is not the one of the length.
StringDelete(p) ==
  /\ Goto(p, "string delete", "string unlock")
  /\ Unlink("text")
  /\ UNCHANGED <<calls, op, string, result, lock>>

StringUnlock(p) ==
  /\ Goto(p, "string unlock", "idle")
  /\ Release(p, "string")
  /\ string' = [string EXCEPT ![p] = NoString] /\ Clear(p)
  /\ UNCHANGED <<calls, file, failed>>

-----------------------------------------------------------------------------
\* A process dies; its lock files stay.
Crash(p) ==
  /\ p \in Crashes /\ pc[p] # "dead" /\ pc' = [pc EXCEPT ![p] = "dead"]
  /\ UNCHANGED <<calls, op, string, result, lock, file, failed>>

Take(p) == Lock(p) \/ StringLock(p)

Step(p) ==
  \/ CreateOpen(p) \/ CreateWrite(p) \/ GetRead(p) \/ GetWait(p) \/ GetEnds(p)
  \/ Delete(p) \/ Unlock(p)
  \/ StringCreate(p) \/ StringGet(p) \/ StringDelete(p) \/ StringUnlock(p)

Next ==
  \E p \in Processes :
    \/ Call(p) \/ CallString(p) \/ Take(p) \/ Step(p)
    \/ CreatePart(p) \/ GetOpenFails(p) \/ LockFails(p) \/ StringLockFails(p) \/ Crash(p)

Spec == Init /\ [][Next]_variablesVars

(***************************************************************************)
(* A process that has called a function goes on, and gets a lock file that *)
(* is free again and again: it tries every 2 ms, and nobody holds one for  *)
(* longer than it takes to write or read a few bytes.                      *)
(***************************************************************************)
FairSpec ==
  /\ Spec
  /\ \A p \in Processes :
       WF_variablesVars(Step(p)) /\ SF_variablesVars(Take(p)) /\ SF_variablesVars(GetEnds(p))

-----------------------------------------------------------------------------
(***************************************************************************)
(* Properties.                                                             *)
(***************************************************************************)

\* The create that has opened n and not yet closed it, nor was it removed.
Writing(n) ==
  /\ lock[n] \in Processes /\ pc[lock[n]] = "write" /\ op[lock[n]].name = n
  /\ file[n] # "none"

registerBar ==
  [n \in Names |-> IF Writing(n) THEN op[lock[n]].data ELSE file[n]]

PhaseOf(c) ==
  CASE c \in {"lock", "open"} -> "called"
    [] c = "write" -> "made"
    [] c = "unlock" -> "returned"
    [] c = "string delete" -> "forgetting"
    [] c = "dead" -> "dead"
    [] OTHER -> "idle"

phaseBar == [p \in Processes |-> PhaseOf(pc[p])]

R == INSTANCE Register WITH register <- registerBar, phase <- phaseBar, Strings <- {"text"}

\* Whatever processes create, get and delete at the same time and whoever dies, each
\* call happens at once (variable.c:34-148): nobody gets a content that nobody created,
\* or a part of one whose create has not failed or died.  With each way to fail goes
\* what it may do and no more: an open, a lock file or a read that fails makes a create
\* or get return without the content, a failed write leaves some of it, a failed unlink
\* all.  A get with timeout -1 returns without a content only if it could not make its
\* lock file, or the variable is there and too short or cannot be read.
ImplementsRegister == R!RegisterSpec

\* Unless something failed, the length of a string variable is that of its text
\* whenever nobody is creating, getting or deleting it (variable.c:190-274).
StringsMatch ==
  ~failed /\ lock["string"] = "free" /\ file["text"] \in Texts =>
    file["length"] = LengthOf[file["text"]]

HeldByDead(l) == \E q \in Processes : lock[l] = q /\ pc[q] = "dead"

\* p waits for a lock file that a dead process left, or for ever for a variable.
WaitsForNothing(p) ==
  \/ pc[p] = "lock" /\ HeldByDead(op[p].name)
  \/ /\ pc[p] \in {"lock", "open"} /\ op[p].call = "get" /\ op[p].ever
     /\ file[op[p].name] = "none"

\* Every call ends, except one that waits for what nobody will bring, one with
\* timeout -1 that cannot open a file that is there, and a string call that waits for a
\* dead one or for a get with timeout -1 that does not end: aipc_variable_get_string keeps
\* its lock file while it waits, also from the create that would end it
\* (variable.c:115-130, 243-274).
CallsEnd ==
  \A p \in Processes :
    \/ []<>(pc[p] \in {"idle", "dead"})
    \/ <>[](\/ WaitsForNothing(p)
           \/ /\ pc[p] = "string lock"
              /\ \E q \in Processes :
                   lock["string"] = q /\ (pc[q] = "dead" \/ string[q].ever))
    \/ []<><<GetOpenFails(p)>>_variablesVars
===============================================================================
