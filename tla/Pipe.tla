--------------------------------- MODULE Pipe ---------------------------------
(***************************************************************************)
(* How two processes that only know a common filenames_prefix get a pipe:  *)
(* aipc_pipe_new of aipc/src/pipe.c with the sockets of input.c and        *)
(* output.c.  Each process listens on one of two sockets and connects to   *)
(* the other; which is whose depends on who creates the .bool file.        *)
(*                                                                         *)
(* A process may give up, die and be started again at any point, and make  *)
(* the pipe again with the same prefix.  Only a process that deleted its   *)
(* pipe waits with that until the other has deleted its own.               *)
(***************************************************************************)
EXTENDS Naturals

CONSTANTS
  MaxRounds,    \* bound: how often each process begins aipc_pipe_new
  TimesOut,     \* TRUE: the wait for the other socket ends (timeout # -1)
  Crashes,      \* the processes that may die at any point
  Refusing,     \* the processes whose accept may fail
  Descriptors   \* how many connects may fail before a process has no file
                \* descriptor left; 0: the socket of a failed connect is closed

Processes == {"host", "plugin"}

ASSUME PipeAssumption ==
  /\ MaxRounds \in Nat /\ Descriptors \in Nat /\ TimesOut \in BOOLEAN
  /\ Crashes \subseteq Processes /\ Refusing \subseteq Processes

Other(p) == IF p = "host" THEN "plugin" ELSE "host"

VARIABLES
  pc,           \* where each process is
  round,        \* how often it has begun aipc_pipe_new
  left,         \* how its last attempt ended: "deleted", "failed" or "died"
  id,           \* the id of its input socket; 1 - id is that of its output
  leaked,       \* the descriptors it has lost to connects that failed
  bool,         \* whether the .bool file exists
  bound,        \* who listens on each of the two sockets: nobody ("none"), a
                \* process, or one that died and left the name ("stale")
  backlog,      \* the connections to each process that it has not accepted
  output,       \* the process and its round that the output leads to
  input,        \* the process and its round that the input comes from
  broken        \* history: during its attempt the other has failed, died or
                \* deleted the pipe of an attempt that was broken itself

pipeVars ==
  <<pc, round, left, id, leaked, bool, bound, backlog, output, input, broken>>
ends == <<output, input>>
process == <<round, left, id, leaked, broken>>

Nowhere == [process |-> "none", round |-> 0]
This(p) == [process |-> p, round |-> round[p]]

Init ==
  /\ pc = [p \in Processes |-> "out"]
  /\ round = [p \in Processes |-> 0]
  /\ left = [p \in Processes |-> "deleted"]
  /\ id = [p \in Processes |-> 0]
  /\ leaked = [p \in Processes |-> 0]
  /\ bool = FALSE
  /\ bound = [i \in 0..1 |-> "none"]
  /\ backlog = [p \in Processes |-> {}]
  /\ output = [p \in Processes |-> Nowhere]
  /\ input = [p \in Processes |-> Nowhere]
  /\ broken = [p \in Processes |-> FALSE]

Goto(p, from, to) == pc[p] = from /\ pc' = [pc EXCEPT ![p] = to]

\* What p's end does to the attempt of the other.
Breaking(p) ==
  broken' = [broken EXCEPT ![Other(p)] = @ \/ pc[Other(p)] # "out"]

NoDescriptor(p) == Descriptors > 0 /\ leaked[p] = Descriptors

(***************************************************************************)
(* The first of the two creates the file and takes socket 1 for its input. *)
(* Not being able to open the file counts as finding it there.             *)
(***************************************************************************)
MayOpen(p) ==
  /\ round[p] < MaxRounds
  /\ left[p] = "deleted" => pc[Other(p)] \in {"out", "bind", "connect"}

Open(p) ==
  /\ MayOpen(p) /\ Goto(p, "out", "bind")
  /\ round' = [round EXCEPT ![p] = @ + 1]
  /\ bool' = (bool \/ ~NoDescriptor(p))
  /\ id' = [id EXCEPT ![p] = IF bool \/ NoDescriptor(p) THEN 0 ELSE 1]
  /\ broken' = [broken EXCEPT ![p] = FALSE]
  /\ UNCHANGED <<left, leaked, bound, backlog, ends>>

\* aipc_input_new: bind fails while there is a socket of that name.
Bind(p) ==
  /\ bound[id[p]] = "none" /\ ~NoDescriptor(p)
  /\ Goto(p, "bind", "connect")
  /\ bound' = [bound EXCEPT ![id[p]] = p]
  /\ UNCHANGED <<process, bool, backlog, ends>>

BindFails(p) ==
  /\ bound[id[p]] # "none" \/ NoDescriptor(p)
  /\ Goto(p, "bind", "unlink_null")
  /\ UNCHANGED <<process, bool, bound, backlog, ends>>

\* Mutant of Connect: the output goes to the process's own socket.
ConnectSelf(p) ==
  LET reader == bound[id[p]] IN
  /\ reader \in Processes
  /\ Goto(p, "connect", "accept")
  /\ output' = [output EXCEPT ![p] = This(reader)]
  /\ backlog' = [backlog EXCEPT ![reader] = @ \cup {This(p)}]
  /\ UNCHANGED <<process, bool, bound, input>>

\* aipc_output_new_wait: try until the other socket is there.
Connect(p) ==
  LET reader == bound[1 - id[p]] IN
  /\ reader \in Processes /\ ~NoDescriptor(p)
  /\ Goto(p, "connect", "accept")
  /\ output' = [output EXCEPT ![p] = This(reader)]
  /\ backlog' = [backlog EXCEPT ![reader] = @ \cup {This(p)}]
  /\ UNCHANGED <<process, bool, bound, input>>

\* The number of the socket is read after the struct it is in was freed
\* (output.c:77-79): the socket may stay open.
ConnectFails(p) ==
  /\ pc[p] = "connect" /\ bound[1 - id[p]] \notin Processes
  /\ leaked[p] < Descriptors
  /\ leaked' = [leaked EXCEPT ![p] = @ + 1]
  /\ UNCHANGED <<pc, round, left, id, bool, bound, backlog, ends, broken>>

\* The last attempt was made too early and no other follows, or socket fails,
\* which ends the wait whatever its timeout.
ConnectGivesUp(p) ==
  /\ NoDescriptor(p) \/ (TimesOut /\ bound[1 - id[p]] \notin Processes)
  /\ Goto(p, "connect", "give_up")
  /\ UNCHANGED <<process, bool, bound, backlog, ends>>

\* aipc_input_delete closes the socket and whatever waits to be accepted.
Closing(p) ==
  /\ bound' = [bound EXCEPT ![id[p]] = "none"]
  /\ backlog' = [backlog EXCEPT ![p] = {}]

\* Mutant of GiveUp: the input socket is left open.
GiveUpOpen(p) ==
  /\ Goto(p, "give_up", "unlink_null")
  /\ UNCHANGED <<process, bool, bound, backlog, ends>>

\* Also when accept has failed; then there is an output to be closed too.
GiveUp(p) ==
  /\ Goto(p, "give_up", "unlink_null")
  /\ Closing(p)
  /\ output' = [output EXCEPT ![p] = Nowhere]
  /\ UNCHANGED <<process, bool, input>>

\* Accepting has no timeout.
Accept(p) ==
  /\ Goto(p, "accept", "unlink")
  /\ \E c \in backlog[p] :
       /\ input' = [input EXCEPT ![p] = c]
       /\ backlog' = [backlog EXCEPT ![p] = @ \ {c}]
  /\ UNCHANGED <<process, bool, bound, output>>

AcceptFails(p) ==
  /\ p \in Refusing /\ Goto(p, "accept", "give_up")
  /\ UNCHANGED <<process, bool, bound, backlog, ends>>

Unlink(p) ==
  /\ \/ Goto(p, "unlink", "up") /\ UNCHANGED <<left, broken>>
     \/ /\ Goto(p, "unlink_null", "out") /\ Breaking(p)
        /\ left' = [left EXCEPT ![p] = "failed"]
  /\ bool' = FALSE
  /\ UNCHANGED <<round, id, leaked, bound, backlog, ends>>

Disconnect(p) ==
  /\ output' = [output EXCEPT ![p] = Nowhere]
  /\ input' = [input EXCEPT ![p] = Nowhere]

\* Mutant of Delete: the input socket is left open.
DeleteOpen(p) ==
  /\ Goto(p, "up", "out")
  /\ left' = [left EXCEPT ![p] = "deleted"]
  /\ Disconnect(p)
  /\ UNCHANGED <<round, id, leaked, bool, bound, backlog, broken>>

\* aipc_pipe_delete.
Delete(p) ==
  /\ Goto(p, "up", "out")
  /\ left' = [left EXCEPT ![p] = "deleted"]
  /\ Closing(p) /\ Disconnect(p)
  /\ IF broken[p] THEN Breaking(p) ELSE UNCHANGED broken
  /\ UNCHANGED <<round, id, leaked, bool>>

\* The process dies; it may be started again.  Its files stay.
Crash(p) ==
  /\ p \in Crashes /\ pc[p] # "out"
  /\ pc' = [pc EXCEPT ![p] = "out"]
  /\ left' = [left EXCEPT ![p] = "died"]
  /\ leaked' = [leaked EXCEPT ![p] = 0]
  /\ bound' = [i \in 0..1 |-> IF bound[i] = p THEN "stale" ELSE bound[i]]
  /\ backlog' = [backlog EXCEPT ![p] = {}]
  /\ Disconnect(p) /\ Breaking(p)
  /\ UNCHANGED <<round, id, bool>>

NewStep(p) ==
  \/ Bind(p) \/ BindFails(p) \/ Connect(p) \/ GiveUp(p) \/ Accept(p) \/ Unlink(p)

Next ==
  \E p \in Processes :
    \/ Open(p) \/ NewStep(p) \/ ConnectFails(p) \/ ConnectGivesUp(p)
    \/ AcceptFails(p) \/ Delete(p) \/ Crash(p)

Spec == Init /\ [][Next]_pipeVars

(***************************************************************************)
(* A process that is in aipc_pipe_new goes on, and a wait with a timeout   *)
(* ends.                                                                   *)
(***************************************************************************)
FairSpec ==
  /\ Spec
  /\ \A p \in Processes : WF_pipeVars(NewStep(p)) /\ WF_pipeVars(ConnectGivesUp(p))

-----------------------------------------------------------------------------
(***************************************************************************)
(* Properties.                                                             *)
(***************************************************************************)

Paired(p) == pc[p] = "up" /\ pc[Other(p)] \in {"accept", "unlink", "up"}

\* A pipe leads from each process to the other, as it is now and not as it was in
\* an earlier attempt with this prefix, whatever was given up, died or deleted
\* before.  Only an attempt during which the other fails, or deletes what it got out
\* of such an attempt, may have the input of one attempt and the output of another.
EndsMatch ==
  \A p \in Processes : Paired(p) /\ ~broken[p] =>
    output[p] = This(Other(p)) /\ input[p] = This(Other(p))

\* Whoever has left leaves no socket and no .bool file behind that would make the
\* next aipc_pipe_new with this prefix fail (pipe.c:52-62, 89-99).  A process that
\* dies leaves its socket for good, and the .bool file until the next attempt.
NothingLeft ==
  (\A p \in Processes : pc[p] = "out") =>
    /\ bool => \E p \in Processes : left[p] = "died"
    /\ \A i \in 0..1 : bound[i] \in {"none", "stale"}

\* As long as nobody ever gives up waiting for the other, fails to accept it or dies,
\* both processes get the pipe whenever both are in aipc_pipe_new, also when they make
\* it again after a delete (pipe.c:41-101).  A process that gave up takes the .bool
\* file of the other's next attempt away, and its own next attempt may then fail.
PipeIsMade ==
  [](\A q \in Processes : pc[q] # "give_up" /\ left[q] # "died") =>
    \A p \in Processes :
      (\A q \in Processes : pc[q] \in {"bind", "connect"}) ~> pc[p] = "up"

\* With a timeout every attempt ends, although accepting has none (pipe.c:64):
\* whoever has connected to a process that goes on is connected to.  What may wait
\* for ever is an attempt during which the other failed, died or deleted a broken
\* pipe, or one that connected to the other's end of such an attempt.
AttemptEnds ==
  \A p \in Processes :
    pc[p] = "bind" ~> pc[p] \in {"up", "out"}
      \/ (pc[p] = "accept" /\ \E q \in Processes : broken[q])
===============================================================================
