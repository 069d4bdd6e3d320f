------------------------------- MODULE Register -------------------------------
(***************************************************************************)
(* What aipc_variable_create, aipc_variable_get and aipc_variable_delete   *)
(* of aipc/src/variable.c promise to processes that share the name of a    *)
(* variable: each of them happens at once.  A create that fails, or whose  *)
(* process dies, may leave a variable with a part of its content.          *)
(***************************************************************************)
EXTENDS Naturals

CONSTANTS
  Processes,
  Names,        \* the variables
  Strings,      \* those that are the text of a string
  Bytes,        \* the number of bytes of each content of a variable
  Parts,        \* what each content may be when not all is written
  Failures      \* what may fail: "lock", "open", "write", "close", "read" or "unlink"

VARIABLES
  register,     \* what each variable holds: "none", "empty" or its content
  op,           \* what each process has called
  phase,        \* "idle", "called", "made" (a create that happened), "returned",
                \* "forgetting" (it deletes a string) or "dead"
  result        \* what the call returns: "false", "true" or the content

registerVars == <<register, op, phase, result>>

Become(p, from, to) == phase[p] = from /\ phase' = [phase EXCEPT ![p] = to]
Returns(p, r) == result' = [result EXCEPT ![p] = r]
Set(n, c) == register' = [register EXCEPT ![n] = c]

Init ==
  /\ register = [n \in Names |-> "none"]
  /\ phase = [p \in Processes |-> "idle"]

\* What a process has called, and what that returned, is its own affair.
Own(p) == op' = [op EXCEPT ![p] = op'[p]] /\ result' = [result EXCEPT ![p] = result'[p]]

Call(p) ==
  /\ phase[p] = "idle"
  /\ phase' \in {phase, [phase EXCEPT ![p] = "called"], [phase EXCEPT ![p] = "forgetting"]}
  /\ Own(p) /\ UNCHANGED register

Create(p) ==
  /\ op[p].call = "create" /\ Become(p, "called", "made")
  /\ Set(op[p].name, op[p].data)
  /\ UNCHANGED <<op, result>>

Tear(p) ==
  LET n == op[p].name IN
  \/ register[n] = "none" /\ UNCHANGED register
  \/ \E c \in Parts[op[p].data] \cup {"empty"} : register[n] # "none" /\ Set(n, c)

\* The data may not get into the file, and only a short fwrite is told.
CreateReturns(p) ==
  /\ Become(p, "made", "returned")
  /\ \/ Returns(p, "true") /\ UNCHANGED register
     \/ "write" \in Failures /\ Returns(p, "false") /\ Tear(p)
     \/ "close" \in Failures /\ Returns(p, "true") /\ Tear(p)
  /\ UNCHANGED op

\* Nothing is waited for that is there, readable or not.
Get(p) ==
  LET c == register[op[p].name] IN
  /\ op[p].call = "get" /\ Become(p, "called", "returned")
  /\ \/ c = "none" /\ ~op[p].ever /\ Returns(p, "false")
     \/ /\ c # "none"
        /\ Returns(p, IF c # "empty" /\ Bytes[c] >= op[p].size THEN c ELSE "false")
  /\ UNCHANGED <<register, op>>

Fails(p) ==
  /\ \/ "lock" \in Failures /\ op[p].call # "delete"
     \/ "open" \in Failures /\ op[p].call = "create"
     \/ "open" \in Failures /\ op[p].call = "get" /\ ~op[p].ever
     \/ "read" \in Failures /\ op[p].call = "get" /\ register[op[p].name] # "none"
  /\ Become(p, "called", "returned") /\ Returns(p, "false")
  /\ UNCHANGED <<register, op>>

\* That it failed is not told.
Unlink(n) == Set(n, "none") \/ ("unlink" \in Failures /\ UNCHANGED register)

Delete(p) ==
  /\ op[p].call = "delete" /\ Become(p, "called", "returned")
  /\ Unlink(op[p].name)
  /\ UNCHANGED <<op, result>>

Return(p) ==
  /\ Become(p, "returned", "idle")
  /\ Own(p) /\ UNCHANGED register

\* aipc_variable_delete_string takes no notice of a call that is under way.
Forget(p) ==
  /\ Become(p, "forgetting", "idle")
  /\ \E n \in Strings : Unlink(n)
  /\ UNCHANGED <<op, result>>

Die(p) ==
  /\ phase[p] # "dead" /\ phase' = [phase EXCEPT ![p] = "dead"]
  /\ IF phase[p] = "made" THEN Tear(p) ELSE UNCHANGED register
  /\ UNCHANGED <<op, result>>

Next ==
  \E p \in Processes :
    \/ Call(p) \/ Create(p) \/ CreateReturns(p) \/ Get(p) \/ Fails(p)
    \/ Delete(p) \/ Forget(p) \/ Return(p) \/ Die(p)

RegisterSpec == Init /\ [][Next]_registerVars
===============================================================================
