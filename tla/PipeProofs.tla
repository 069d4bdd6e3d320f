------------------------------ MODULE PipeProofs ------------------------------
(***************************************************************************)
(* What aipc_pipe_new and _delete leave behind, and where a pipe leads, for *)
(* any number of attempts, lost descriptors and processes that die.        *)
(***************************************************************************)
EXTENDS Pipe, TLAPS

PCs == {"out", "bind", "connect", "give_up", "accept", "unlink", "up", "unlink_null"}

\* Who has an input socket, and of these who has connected to the other's.
Listening == {"connect", "give_up", "accept", "unlink", "up"}
Connected == {"accept", "unlink", "up"}

Ends == [process : Processes \cup {"none"}, round : Nat]

Types ==
  /\ pc \in [Processes -> PCs]
  /\ round \in [Processes -> Nat]
  /\ left \in [Processes -> {"deleted", "failed", "died"}]
  /\ id \in [Processes -> 0..1]
  /\ bool \in BOOLEAN
  /\ bound \in [0..1 -> Processes \cup {"none", "stale"}]
  /\ backlog \in [Processes -> SUBSET Ends]
  /\ output \in [Processes -> Ends]
  /\ input \in [Processes -> Ends]
  /\ broken \in [Processes -> BOOLEAN]

\* A process listens on the socket of its id while it has an input, and only then
\* does anybody wait to be accepted by it.
Sockets ==
  \A p \in Processes :
    /\ pc[p] \in Listening <=> bound[id[p]] = p
    /\ \A i \in 0..1 : bound[i] = p => i = id[p]
    /\ pc[p] \notin Listening => backlog[p] = {}

\* The .bool file is that of a process that will unlink it, or of one that died.
BoolFile ==
  bool => \E p \in Processes :
            \/ pc[p] \in {"bind", "connect", "give_up", "accept", "unlink", "unlink_null"}
            \/ pc[p] = "out" /\ left[p] = "died"

\* The other is in the attempt it was in when p connected to it, or has deleted
\* its end of that and waits for p to leave too.
OutputOf(p) ==
  LET q == Other(p) IN
  pc[p] \in Connected /\ ~broken[p] =>
    /\ output[p] = This(q)
    /\ pc[q] \in Listening \cup {"unlink_null"} \/ (pc[q] = "out" /\ left[q] = "deleted")

\* A connection c to p is that of the other's attempt in which it connected to this
\* attempt of p, and the other is still in it, is about to fail in it or has deleted
\* its end of it, which only follows on p's own connecting; or p's attempt is broken.
Leads(p, c) ==
  LET q == Other(p) IN
  \/ broken[p]
  \/ /\ c = This(q)
     /\ \/ pc[q] \in Connected /\ output[q] = This(p)
        \/ pc[q] \in {"give_up", "unlink_null"}
        \/ pc[q] = "out" /\ left[q] = "deleted" /\ pc[p] \notin {"bind", "connect"}

InputOf(p) ==
  /\ \A c \in backlog[p] : Leads(p, c)
  /\ pc[p] \in {"unlink", "up"} => Leads(p, input[p])

Inv ==
  Types /\ Sockets /\ BoolFile /\ \A p \in Processes : OutputOf(p) /\ InputOf(p)

-----------------------------------------------------------------------------
(***************************************************************************)
(* The steps.                                                              *)
(***************************************************************************)

\* What may end the wait for the other, or goes wrong in it.
Aside(p) == ConnectFails(p) \/ ConnectGivesUp(p) \/ AcceptFails(p)

\* The two processes are each other's other.
LEMMA Others ==
  /\ \A p \in Processes : Other(p) \in Processes /\ Other(p) # p /\ Other(Other(p)) = p
  /\ \A p, q \in Processes : q = p \/ q = Other(p)
BY DEF Processes, Other

\* What an end names is a process in one of its attempts.
LEMMA ThisIsEnd ==
  ASSUME Types
  PROVE  /\ Nowhere \in Ends
         /\ \A p \in Processes : This(p) \in Ends
BY DEF Types, Nowhere, This, Ends

\* A process that fails or dies breaks the other's attempt, if that is in one.
LEMMA BreakingBreaks ==
  ASSUME Types, NEW p \in Processes, Breaking(p)
  PROVE  /\ broken' \in [Processes -> BOOLEAN]
         /\ broken'[p] = broken[p]
         /\ broken[Other(p)] \/ pc[Other(p)] # "out" => broken'[Other(p)]
<1>. DEFINE b == broken[Other(p)] \/ pc[Other(p)] # "out"
<1>1. b \in BOOLEAN
  BY Others DEF Types
<1>2. broken' = [broken EXCEPT ![Other(p)] = b]
  BY DEF Breaking
<1>. QED
  BY <1>1, <1>2, Others DEF Types

\* The variables keep their types: no step writes anything else.
LEMMA TypesKept ==
  ASSUME Types, [Next]_pipeVars
  PROVE  Types'
<1>. USE DEF Types, PCs
<1>1. CASE UNCHANGED pipeVars
  BY <1>1 DEF pipeVars, ends, process
<1>2. ASSUME NEW p \in Processes, Open(p)
      PROVE  Types'
  BY <1>2 DEF Open, Goto, ends
<1>3. ASSUME NEW p \in Processes, Bind(p) \/ BindFails(p)
      PROVE  Types'
  BY <1>3 DEF Bind, BindFails, Goto, process, ends
<1>4. ASSUME NEW p \in Processes, Connect(p)
      PROVE  Types'
  <2>. DEFINE reader == bound[1 - id[p]]
  <2>1. reader \in Processes /\ This(reader) \in Ends /\ This(p) \in Ends
    BY <1>4, ThisIsEnd DEF Connect
  <2>2. output' \in [Processes -> Ends] /\ backlog' \in [Processes -> SUBSET Ends]
    BY <1>4, <2>1 DEF Connect
  <2>. QED  BY <1>4, <2>2 DEF Connect, Goto, process
<1>5. ASSUME NEW p \in Processes, GiveUp(p)
      PROVE  Types'
  BY <1>5, ThisIsEnd DEF GiveUp, Closing, Goto, process
<1>6. ASSUME NEW p \in Processes, Accept(p)
      PROVE  Types'
  BY <1>6 DEF Accept, Goto, process
<1>7. ASSUME NEW p \in Processes, Unlink(p)
      PROVE  Types'
  <2>1. broken' \in [Processes -> BOOLEAN]
    BY <1>7, BreakingBreaks DEF Unlink
  <2>. QED  BY <1>7, <2>1 DEF Unlink, Goto, ends
<1>8. ASSUME NEW p \in Processes, Aside(p)
      PROVE  Types'
  BY <1>8 DEF Aside, ConnectFails, ConnectGivesUp, AcceptFails, Goto, process, ends
<1>9. ASSUME NEW p \in Processes, Delete(p)
      PROVE  Types'
  <2>1. broken' \in [Processes -> BOOLEAN]
    BY <1>9, BreakingBreaks DEF Delete
  <2>. QED  BY <1>9, <2>1, ThisIsEnd DEF Delete, Closing, Disconnect, Goto
<1>10. ASSUME NEW p \in Processes, Crash(p)
       PROVE  Types'
  BY <1>10, ThisIsEnd, BreakingBreaks DEF Crash, Disconnect
<1>. QED
  BY <1>1, <1>2, <1>3, <1>4, <1>5, <1>6, <1>7, <1>8, <1>9, <1>10 DEF Next, NewStep, Aside

\* Nobody's socket is taken, opened or closed but by the process itself.
LEMMA SocketsKept ==
  ASSUME Types, Sockets, [Next]_pipeVars
  PROVE  Sockets'
<1>. USE DEF Types, Sockets, Listening
<1>1. CASE UNCHANGED pipeVars
  BY <1>1 DEF pipeVars, ends, process
<1>2. ASSUME NEW p \in Processes, Open(p)
      PROVE  Sockets'
  BY <1>2 DEF Open, Goto, ends, Processes
<1>3. ASSUME NEW p \in Processes, Bind(p) \/ BindFails(p)
      PROVE  Sockets'
  BY <1>3 DEF Bind, BindFails, Goto, process, ends, Processes
<1>4. ASSUME NEW p \in Processes, Connect(p)
      PROVE  Sockets'
  BY <1>4 DEF Connect, Goto, process, Processes
<1>5. ASSUME NEW p \in Processes, GiveUp(p)
      PROVE  Sockets'
  BY <1>5 DEF GiveUp, Closing, Goto, process, Processes
<1>6. ASSUME NEW p \in Processes, Accept(p)
      PROVE  Sockets'
  BY <1>6 DEF Accept, Goto, process, Processes
<1>7. ASSUME NEW p \in Processes, Unlink(p)
      PROVE  Sockets'
  BY <1>7 DEF Unlink, Goto, ends, Processes
<1>8. ASSUME NEW p \in Processes, Aside(p)
      PROVE  Sockets'
  BY <1>8 DEF Aside, ConnectFails, ConnectGivesUp, AcceptFails, Goto, process, ends, Processes
<1>9. ASSUME NEW p \in Processes, Delete(p)
      PROVE  Sockets'
  BY <1>9 DEF Delete, Closing, Goto, Processes
<1>10. ASSUME NEW p \in Processes, Crash(p)
       PROVE  Sockets'
  BY <1>10 DEF Crash, Processes
<1>. QED
  BY <1>1, <1>2, <1>3, <1>4, <1>5, <1>6, <1>7, <1>8, <1>9, <1>10 DEF Next, NewStep, Aside

\* Whoever may have made the .bool file removes it, dies, or makes it again.
LEMMA BoolFileKept ==
  ASSUME Types, BoolFile, [Next]_pipeVars
  PROVE  BoolFile'
<1>. USE DEF Types, BoolFile
<1>1. CASE UNCHANGED pipeVars
  BY <1>1 DEF pipeVars, process
<1>2. ASSUME NEW p \in Processes, Open(p) \/ NewStep(p)
      PROVE  BoolFile'
  BY <1>2 DEF Open, NewStep, Bind, BindFails, Connect, GiveUp, Accept, Unlink, Goto, process
<1>3. ASSUME NEW p \in Processes, Aside(p)
      PROVE  BoolFile'
  BY <1>3 DEF Aside, ConnectFails, ConnectGivesUp, AcceptFails, Goto, process
<1>4. ASSUME NEW p \in Processes, Delete(p) \/ Crash(p)
      PROVE  BoolFile'
  BY <1>4 DEF Delete, Crash, Goto
<1>. QED
  BY <1>1, <1>2, <1>3, <1>4 DEF Next, Aside

\* An output leads to the attempt it was connected to, as long as that has not failed.
LEMMA OutputsKept ==
  ASSUME Types, Sockets, \A p \in Processes : OutputOf(p), [Next]_pipeVars
  PROVE  \A p \in Processes : OutputOf(p)'
<1>. USE Others DEF Types, OutputOf, Listening, Connected, This
<1>1. CASE UNCHANGED pipeVars
  BY <1>1 DEF pipeVars, ends, process
<1>2. ASSUME NEW p \in Processes, Open(p)
      PROVE  \A q \in Processes : OutputOf(q)'
  <2>1. OutputOf(p)'
    BY <1>2 DEF Open, Goto, ends
  <2>2. OutputOf(Other(p))'
    BY <1>2 DEF Open, MayOpen, Goto, ends
  <2>. QED  BY <2>1, <2>2
<1>3. ASSUME NEW p \in Processes, Bind(p) \/ BindFails(p)
      PROVE  \A q \in Processes : OutputOf(q)'
  BY <1>3 DEF Bind, BindFails, Goto, process, ends
<1>4. ASSUME NEW p \in Processes, Connect(p)
      PROVE  \A q \in Processes : OutputOf(q)'
  <2>1. bound[1 - id[p]] = Other(p) /\ pc[Other(p)] \in Listening
    BY <1>4 DEF Connect, Goto, Sockets
  <2>2. OutputOf(p)'
    BY <1>4, <2>1 DEF Connect, Goto, process
  <2>3. OutputOf(Other(p))'
    BY <1>4 DEF Connect, Goto, process
  <2>. QED  BY <2>2, <2>3
<1>5. ASSUME NEW p \in Processes, GiveUp(p)
      PROVE  \A q \in Processes : OutputOf(q)'
  BY <1>5 DEF GiveUp, Goto, process
<1>6. ASSUME NEW p \in Processes, Accept(p)
      PROVE  \A q \in Processes : OutputOf(q)'
  BY <1>6 DEF Accept, Goto, process
<1>7. ASSUME NEW p \in Processes, Unlink(p)
      PROVE  \A q \in Processes : OutputOf(q)'
  <2>1. OutputOf(p)'
    BY <1>7 DEF Unlink, Goto, ends
  <2>2. OutputOf(Other(p))'
    <3>1. CASE pc[p] = "unlink"
      BY <1>7, <3>1 DEF Unlink, Goto, ends
    <3>2. CASE pc[p] = "unlink_null"
      BY <1>7, <3>2, BreakingBreaks DEF Unlink, Goto, ends
    <3>. QED  BY <1>7, <3>1, <3>2 DEF Unlink, Goto
  <2>. QED  BY <2>1, <2>2
<1>8. ASSUME NEW p \in Processes, Aside(p)
      PROVE  \A q \in Processes : OutputOf(q)'
  BY <1>8 DEF Aside, ConnectFails, ConnectGivesUp, AcceptFails, Goto, process, ends
<1>9. ASSUME NEW p \in Processes, Delete(p)
      PROVE  \A q \in Processes : OutputOf(q)'
  <2>1. broken'[p] = broken[p]
    BY <1>9, BreakingBreaks DEF Delete
  <2>2. broken[Other(p)] => broken'[Other(p)]
    BY <1>9, BreakingBreaks DEF Delete
  <2>3. OutputOf(p)'
    BY <1>9 DEF Delete, Disconnect, Goto
  <2>4. OutputOf(Other(p))'
    BY <1>9, <2>2 DEF Delete, Disconnect, Goto
  <2>. QED  BY <2>3, <2>4
<1>10. ASSUME NEW p \in Processes, Crash(p)
       PROVE  \A q \in Processes : OutputOf(q)'
  BY <1>10, BreakingBreaks DEF Crash, Disconnect
<1>. QED
  BY <1>1, <1>2, <1>3, <1>4, <1>5, <1>6, <1>7, <1>8, <1>9, <1>10 DEF Next, NewStep, Aside

\* An attempt that is broken stays so until the next one.
LEMMA BrokenStays ==
  ASSUME Types, [Next]_pipeVars, NEW p \in Processes, pc[p] # "out", broken[p]
  PROVE  broken'[p]
<1>1. CASE UNCHANGED broken
  BY <1>1
<1>2. ASSUME NEW r \in Processes, Open(r)
      PROVE  broken'[p]
  BY <1>2 DEF Types, Open, Goto
<1>3. ASSUME NEW r \in Processes, Breaking(r)
      PROVE  broken'[p]
  BY <1>3, BreakingBreaks, Others
<1>. QED
  BY <1>1, <1>2, <1>3 DEF Next, NewStep, Bind, BindFails, Connect, GiveUp, Accept, Unlink,
     ConnectFails, ConnectGivesUp, AcceptFails, Delete, Crash, process, pipeVars

\* A connection goes on leading to where it led while p stays in its attempt, if the
\* other deletes its end only after p has connected, or breaks p's attempt by it.
LEMMA LeadsKept ==
  ASSUME Types, Sockets, Types', [Next]_pipeVars,
         NEW p \in Processes, pc[p] \in Listening, pc'[p] \in Listening,
         NEW c, Leads(p, c),
         Delete(Other(p)) => pc[p] # "connect" \/ broken'[p]
  PROVE  Leads(p, c)'
<1>. DEFINE q == Other(p)
<1>. SUFFICES ASSUME ~broken[p], ~broken'[p]
              PROVE  Leads(p, c)'
  BY BrokenStays DEF Leads, Listening
<1>. USE Others DEF Types, Listening, Connected, Leads, This
<1>1. CASE UNCHANGED pipeVars
  BY <1>1 DEF pipeVars, process, ends
<1>2. CASE Open(p) \/ Bind(p) \/ BindFails(p) \/ GiveUp(p) \/ Delete(p) \/ Crash(p)
  BY <1>2 DEF Open, Bind, BindFails, GiveUp, Delete, Crash, Goto
<1>3. CASE Connect(p)
  BY <1>3 DEF Connect, Goto, process
<1>4. CASE Accept(p)
  BY <1>4 DEF Accept, Goto, process
<1>5. CASE Unlink(p)
  BY <1>5 DEF Unlink, Goto, ends
<1>6. CASE Aside(p)
  BY <1>6 DEF Aside, ConnectFails, ConnectGivesUp, AcceptFails, Goto, process, ends
<1>7. CASE Open(q)
  BY <1>7 DEF Open, MayOpen, Goto, ends
<1>8. CASE Bind(q) \/ BindFails(q)
  BY <1>8 DEF Bind, BindFails, Goto, process, ends
<1>9. CASE Connect(q)
  BY <1>9 DEF Connect, Goto, process
<1>10. CASE GiveUp(q)
  BY <1>10 DEF GiveUp, Goto, process
<1>11. CASE Accept(q)
  BY <1>11 DEF Accept, Goto, process
<1>12. CASE Unlink(q)
  <2>1. CASE pc[q] = "unlink"
    BY <1>12, <2>1 DEF Unlink, Goto, ends
  <2>2. CASE pc[q] = "unlink_null"
    BY <1>12, <2>2, BreakingBreaks DEF Unlink, Goto
  <2>. QED  BY <1>12, <2>1, <2>2 DEF Unlink, Goto
<1>13. CASE Aside(q)
  BY <1>13 DEF Aside, ConnectFails, ConnectGivesUp, AcceptFails, Goto, process, ends
<1>14. CASE Delete(q)
  BY <1>14 DEF Delete, Goto
<1>15. CASE Crash(q)
  <2>1. q \in Processes /\ Breaking(q) /\ pc[p] # "out"
    BY <1>15 DEF Crash
  <2>2. broken'[Other(q)]
    BY <2>1, BreakingBreaks
  <2>. QED  BY <2>2
<1>16. CASE Next
  <2>1. PICK r \in Processes :
          \/ Open(r) \/ NewStep(r) \/ Aside(r) \/ Delete(r) \/ Crash(r)
    BY <1>16 DEF Next, Aside
  <2>2. r = p \/ r = q
    BY <2>1
  <2>3. CASE r = p
    BY <1>2, <1>3, <1>4, <1>5, <1>6, <2>1, <2>3 DEF NewStep
  <2>4. CASE r = q
    BY <1>7, <1>8, <1>9, <1>10, <1>11, <1>12, <1>13, <1>14, <1>15, <2>1, <2>4 DEF NewStep
  <2>. QED  BY <2>2, <2>3, <2>4
<1>. QED  BY <1>1, <1>16

\* Nobody deletes a pipe that the other has not connected to yet, but for one that had
\* accepted a connection of an earlier attempt of the other; and that one is broken.
LEMMA DeletesConnected ==
  ASSUME Types, Sockets, \A p \in Processes : InputOf(p),
         NEW p \in Processes, Delete(Other(p)), pc[p] \in Listening
  PROVE  pc[p] # "connect" \/ broken'[p]
<1>. DEFINE q == Other(p)
<1>1. q \in Processes /\ Other(q) = p /\ pc[q] = "up" /\ Leads(q, input[q])
  BY Others DEF Delete, Goto, InputOf
<1>2. CASE broken[q]
  <2>1. Breaking(q)
    BY <1>2 DEF Delete
  <2>2. pc[Other(q)] # "out"
    BY <1>1 DEF Listening
  <2>. QED  BY <1>1, <2>1, <2>2, BreakingBreaks
<1>3. CASE ~broken[q]
  BY <1>1, <1>3 DEF Leads, Connected, Listening
<1>. QED  BY <1>2, <1>3

\* What waits to be accepted, and what was accepted, leads to the other's attempt.
LEMMA InputsKept ==
  ASSUME Types, Sockets, Types', Sockets', \A p \in Processes : InputOf(p), [Next]_pipeVars
  PROVE  \A p \in Processes : InputOf(p)'
<1>. TAKE p \in Processes
<1>. DEFINE q == Other(p)
<1>. USE Others DEF Types
<1>1. ASSUME NEW c, Leads(p, c), pc[p] \in Listening, pc'[p] \in Listening
      PROVE  Leads(p, c)'
  BY <1>1, LeadsKept, DeletesConnected
<1>2. ASSUME NEW c \in backlog'[p]
      PROVE  Leads(p, c)'
  <2>1. pc'[p] \in Listening
    BY <1>2 DEF Sockets
  <2>2. c \in backlog[p] \/ (Connect(q) /\ c = This(q))
    <3>1. CASE UNCHANGED pipeVars
      BY <1>2, <3>1 DEF pipeVars
    <3>2. ASSUME NEW r \in Processes, Connect(r)
          PROVE  c \in backlog[p] \/ (Connect(q) /\ c = This(q))
      <4>1. bound[1 - id[r]] = Other(r)
        BY <3>2 DEF Connect, Sockets
      <4>2. backlog' = [backlog EXCEPT ![Other(r)] = @ \cup {This(r)}]
        BY <3>2, <4>1 DEF Connect
      <4>. QED  BY <1>2, <3>2, <4>2
    <3>3. ASSUME NEW r \in Processes, Accept(r) \/ GiveUp(r) \/ Delete(r) \/ Crash(r)
          PROVE  c \in backlog[p]
      BY <1>2, <3>3 DEF Accept, GiveUp, Delete, Closing, Crash
    <3>. QED
      BY <1>2, <3>1, <3>2, <3>3 DEF Next, NewStep, Aside, Open, Bind, BindFails, Unlink, ConnectFails,
         ConnectGivesUp, AcceptFails
  <2>3. CASE c \in backlog[p]
    <3>1. pc[p] \in Listening
      BY <2>3 DEF Sockets
    <3>2. Leads(p, c)
      BY <2>3 DEF InputOf
    <3>. QED  BY <1>1, <2>1, <3>1, <3>2
  <2>4. CASE Connect(q) /\ c = This(q)
    <3>1. bound[1 - id[q]] = p
      BY <2>4 DEF Connect, Sockets
    <3>. QED
      BY <2>4, <3>1 DEF Connect, Goto, process, Leads, Connected, This
  <2>. QED  BY <2>2, <2>3, <2>4
<1>3. ASSUME pc'[p] \in {"unlink", "up"}
      PROVE  Leads(p, input[p])'
  <2>. PICK c : c = input'[p]
    OBVIOUS
  <2>1. pc[p] \in Listening /\ Leads(p, c)
    <3>1. CASE Accept(p)
      <4>1. c \in backlog[p] /\ pc[p] = "accept"
        BY <3>1 DEF Accept, Goto
      <4>. QED  BY <4>1 DEF InputOf, Listening
    <3>2. CASE ~Accept(p)
      <4>1. pc[p] \in {"unlink", "up"} /\ c = input[p]
        BY <1>3, <3>2 DEF Next, NewStep, Aside, Open, Bind, BindFails, Connect, GiveUp, Accept, Unlink,
           ConnectFails, ConnectGivesUp, AcceptFails, Delete, Crash, Disconnect, Goto, process, ends, pipeVars
      <4>. QED  BY <4>1 DEF InputOf, Listening
    <3>. QED  BY <3>1, <3>2
  <2>2. pc'[p] \in Listening
    BY <1>3 DEF Listening
  <2>3. Leads(p, c)'
    BY <1>1, <2>1, <2>2
  <2>. QED  BY <2>3 DEF Leads
<1>4. \A c \in backlog'[p] : Leads(p, c)'
  BY <1>2
<1>. QED  BY <1>3, <1>4 DEF InputOf

-----------------------------------------------------------------------------
(***************************************************************************)
(* Theorems.                                                               *)
(***************************************************************************)

\* The invariant holds in every state.
LEMMA Invariance == Spec => []Inv
<1>1. Init => Inv
  <2>. SUFFICES ASSUME Init PROVE Inv
    OBVIOUS
  <2>1. Types
    <3>1. Nowhere \in Ends
      BY DEF Nowhere, Ends
    <3>2. output \in [Processes -> Ends] /\ input \in [Processes -> Ends]
      BY <3>1 DEF Init
    <3>3. /\ pc \in [Processes -> PCs]
          /\ left \in [Processes -> {"deleted", "failed", "died"}]
          /\ bound \in [0..1 -> Processes \cup {"none", "stale"}]
      BY DEF Init, PCs
    <3>4. round \in [Processes -> Nat] /\ id \in [Processes -> 0..1]
      BY DEF Init
    <3>5. backlog \in [Processes -> SUBSET Ends]
      BY DEF Init
    <3>6. bool \in BOOLEAN /\ broken \in [Processes -> BOOLEAN]
      BY DEF Init
    <3>. QED  BY <3>2, <3>3, <3>4, <3>5, <3>6 DEF Types
  <2>2. Sockets /\ BoolFile
    BY DEF Init, Sockets, BoolFile, Listening, Processes
  <2>3. \A p \in Processes : OutputOf(p) /\ InputOf(p)
    BY DEF Init, OutputOf, InputOf, Connected
  <2>. QED  BY <2>1, <2>2, <2>3 DEF Inv
<1>2. Inv /\ [Next]_pipeVars => Inv'
  <2>. SUFFICES ASSUME Inv, [Next]_pipeVars PROVE Inv'
    OBVIOUS
  <2>1. Types' /\ Sockets' /\ BoolFile'
    BY TypesKept, SocketsKept, BoolFileKept DEF Inv
  <2>2. \A p \in Processes : OutputOf(p)'
    BY OutputsKept DEF Inv
  <2>3. \A p \in Processes : InputOf(p)'
    BY <2>1, InputsKept DEF Inv
  <2>. QED  BY <2>1, <2>2, <2>3 DEF Inv
<1>. QED  BY <1>1, <1>2, PTL DEF Spec

\* EndsMatch, for any number of attempts and lost descriptors, and whoever dies: a
\* pipe that is up leads to and from the other's attempt as it is now, unless the other
\* failed in it or deleted what was left of an attempt that was broken.
THEOREM AlwaysEndsMatch == Spec => []EndsMatch
<1>1. Inv => EndsMatch
  <2>. SUFFICES ASSUME Inv, NEW p \in Processes, Paired(p), ~broken[p]
                PROVE  output[p] = This(Other(p)) /\ input[p] = This(Other(p))
    BY DEF EndsMatch
  <2>1. OutputOf(p) /\ InputOf(p)
    BY DEF Inv
  <2>2. Leads(p, input[p])
    BY <2>1 DEF InputOf, Paired
  <2>. QED  BY <2>1, <2>2 DEF OutputOf, Leads, Paired, Connected
<1>. QED  BY <1>1, Invariance, PTL

\* NothingLeft, with the same generality: when both are out there is no socket that
\* somebody listens on, and the .bool file only of one that died.
THEOREM AlwaysNothingLeft == Spec => []NothingLeft
<1>1. Inv => NothingLeft
  <2>. SUFFICES ASSUME Inv, \A p \in Processes : pc[p] = "out"
                PROVE  /\ bool => \E p \in Processes : left[p] = "died"
                       /\ \A i \in 0..1 : bound[i] \in {"none", "stale"}
    BY DEF NothingLeft
  <2>1. bool => \E p \in Processes : left[p] = "died"
    BY DEF Inv, BoolFile
  <2>2. \A i \in 0..1 : bound[i] \in {"none", "stale"}
    BY DEF Inv, Types, Sockets, Listening
  <2>. QED  BY <2>1, <2>2
<1>. QED  BY <1>1, Invariance, PTL
=============================================================================
