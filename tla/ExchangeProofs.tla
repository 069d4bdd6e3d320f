--------------------------- MODULE ExchangeProofs ---------------------------
(***************************************************************************)
(* Theorems about the exchange of one plugin and one host.                 *)
(***************************************************************************)
EXTENDS Exchange, TLAPS, SequenceTheorems

(***************************************************************************)
(* Messages.                                                               *)
(***************************************************************************)
\* A message is a sequence of units.
LEMMA MessageType ==
  ASSUME NEW kind \in MessageKinds, NEW n \in Nat, NEW size \in Nat
  PROVE  Message(kind, n, size) \in Seq(Units)
<1>1. Message(kind, n, size) \in [1..size -> Units]
  BY DEF Message, Units
<1> QED
  BY <1>1, SeqDef

\* What a read takes and what it leaves are sequences of units.
LEMMA ReadType ==
  ASSUME TypeOK, NEW to \in {"plugin", "host", "control"}, NEW n \in Nat
  PROVE  /\ Got(to, n) \in Seq(Units)
         /\ Left(to, n) \in Seq(Units)
<1>1. pipe[to] \in Seq(Units)
  BY DEF TypeOK, Pipes
<1>2. Len(pipe[to]) \in Nat
  BY <1>1, LenProperties
<1>. DEFINE k == Least(n, Len(pipe[to]))
<1>3. k \in Nat /\ k <= Len(pipe[to])
  BY <1>2 DEF Least
<1>4. \A i \in 1..Len(pipe[to]) : pipe[to][i] \in Units
  BY <1>1, ElementOfSeq
<1>. HIDE DEF k
<1>5. SubSeq(pipe[to], 1, k) \in Seq(Units)
  BY <1>2, <1>3, <1>4, SubSeqProperties
<1>6. SubSeq(pipe[to], k + 1, Len(pipe[to])) \in Seq(Units)
  BY <1>2, <1>3, <1>4, SubSeqProperties
<1> QED
  BY <1>5, <1>6 DEF Got, Left, k

(***************************************************************************)
(* Types: one lemma per thread, over its steps.                            *)
(***************************************************************************)
\* What a read makes of the pipes.
LEMMA TakeType ==
  ASSUME TypeOK, NEW to \in {"plugin", "host", "control"}, NEW n \in Nat
  PROVE  [pipe EXCEPT ![to] = Left(to, n)] \in Pipes
<1>1. Left(to, n) \in Seq(Units)
  BY ReadType
<1> QED
  BY <1>1 DEF TypeOK, Pipes

\* The exchange starts out type correct.
LEMMA InitType == Init => TypeOK
<1>. SUFFICES ASSUME Init PROVE TypeOK
  OBVIOUS
<1>1. pc \in PCs
  BY DEF Init, PCs, HostPCs, PluginPCs
<1>2. pipe \in Pipes
  BY DEF Init, Pipes
<1>3. buf \in Buffers /\ pah \in Structs
  BY DEF Init, Buffers, Structs
<1>4. lock \in Processes \cup {"free"} /\ open \subseteq Processes
  BY DEF Init, Processes
<1>4b. usable \in BOOLEAN
  BY DEF Init
<1>5. request \in Sizes \cup {0} /\ reply \in ReplySizes \cup {0}
  BY DEF Init
<1>5b. calls \in 0..MaxCalls
  BY ExchangeAssumption DEF Init, ExchangeAssumption
<1>6. input \in Seq(Units) /\ output \in Seq(Units)
  BY DEF Init
<1> QED
  BY <1>1, <1>2, <1>3, <1>4, <1>4b, <1>5, <1>5b, <1>6 DEF TypeOK

\* What a write makes of the pipes.
LEMMA PutType ==
  ASSUME TypeOK, NEW to \in {"plugin", "host", "control"}, NEW message \in Seq(Units)
  PROVE  [pipe EXCEPT ![to] = @ \o message] \in Pipes
<1>1. pipe[to] \o message \in Seq(Units)
  BY ConcatProperties DEF TypeOK, Pipes
<1> QED
  BY <1>1 DEF TypeOK, Pipes

\* The sizes and the counter are natural numbers.
LEMMA NatType == TypeOK => request \in Nat /\ reply \in Nat /\ calls \in Nat
<1>. SUFFICES ASSUME TypeOK PROVE request \in Nat /\ reply \in Nat /\ calls \in Nat
  OBVIOUS
<1>1. request \in Nat
  BY ExchangeAssumption DEF TypeOK, ExchangeAssumption
<1>2. reply \in Nat
  BY ExchangeAssumption DEF TypeOK, ExchangeAssumption
<1>3. calls \in Nat
  BY ExchangeAssumption DEF TypeOK, ExchangeAssumption
<1> QED
  BY <1>1, <1>2, <1>3

\* What the host's own steps do.
LEMMA HostType == TypeOK /\ HostStep => TypeOK'
<1>. SUFFICES ASSUME TypeOK, HostStep PROVE TypeOK'
  OBVIOUS
<1>0. /\ pah \in Structs /\ buf \in Buffers /\ pc \in PCs
      /\ request \in Nat /\ reply \in Nat /\ calls \in Nat
  BY NatType DEF TypeOK
<1>1. CASE HostCreateThread
  BY <1>1 DEF HostCreateThread, TypeOK, Goto, PCs, HostPCs, DeletePCs, data
<1>2. CASE HostCannotCreateThread
  <2>1. Word("no_thread") \in Seq(Units)
    BY <1>0, MessageType DEF Word, MessageKinds
  <2>2. pipe' \in Pipes
    BY <1>2, <2>1, PutType DEF HostCannotCreateThread, Write, TypeOK
  <2>. QED
    BY <1>2, <2>2 DEF HostCannotCreateThread, Write, TypeOK, Goto, PCs, HostPCs, DeletePCs, data
<1>3. CASE HostTell
  <2>1. Word("thread") \in Seq(Units)
    BY <1>0, MessageType DEF Word, MessageKinds
  <2>2. pipe' \in Pipes
    BY <1>3, <2>1, PutType DEF HostTell, Write, TypeOK
  <2>. QED
    BY <1>3, <2>2 DEF HostTell, Write, TypeOK, Goto, PCs, HostPCs, DeletePCs, data
<1>4. CASE HostConfirmation
  <2>1. pipe' \in Pipes
    BY <1>4, TakeType DEF HostConfirmation, ReadInt, TypeOK
  <2>. QED
    BY <1>4, <2>1 DEF HostConfirmation, ReadInt, TypeOK, Goto, PCs, HostPCs, DeletePCs, data
<1>5. CASE HostAllow
  <2>1. pah' \in Structs
    BY <1>0, <1>5 DEF HostAllow, Structs
  <2>. QED
    BY <2>1, <1>5 DEF HostAllow, TypeOK, Goto, PCs, HostPCs, DeletePCs, data
<1>6. CASE HostDeleteHeader
  <2>1. pah' \in Structs
    BY <1>0, <1>6 DEF HostDeleteHeader, Store, Structs
  <2>. QED
    BY <2>1, <1>6 DEF HostDeleteHeader, Store, TypeOK, Goto, PCs, HostPCs, DeletePCs, data
<1>7. CASE HostDeleteSend
  <2>1. Word("stop") \in Seq(Units)
    BY <1>0, MessageType DEF Word, MessageKinds
  <2>2. pipe' \in Pipes
    BY <1>7, <2>1, PutType DEF HostDeleteSend, Write, TypeOK
  <2>. QED
    BY <1>7, <2>2 DEF HostDeleteSend, Write, TypeOK, Goto, PCs, HostPCs, DeletePCs, data
<1>. QED
  BY <1>1, <1>2, <1>3, <1>4, <1>5, <1>6, <1>7 DEF HostStep

\* What the plugin's own steps do.
LEMMA PluginType == TypeOK /\ PluginStep => TypeOK'
<1>. SUFFICES ASSUME TypeOK, PluginStep PROVE TypeOK'
  OBVIOUS
<1>0. /\ pah \in Structs /\ buf \in Buffers /\ pc \in PCs
      /\ request \in Nat /\ reply \in Nat /\ calls \in Nat
  BY NatType DEF TypeOK
<1>1. CASE PluginInit
  <2>1. pah' = [status |-> 0, is_calling |-> 0, okey_to_call |-> 0,
                h2p_datasize |-> pah.h2p_datasize, p2h_datasize |-> pah.p2h_datasize]
    BY <1>0, <1>1 DEF PluginInit, Structs
  <2>2. pah' \in Structs
    BY <1>0, <2>1 DEF Structs
  <2>. QED
    BY <2>2, <1>1 DEF PluginInit, TypeOK, Goto, PCs, PluginPCs, DeletePCs, data
<1>2. CASE PluginStatus
  <2>1. pipe' \in Pipes
    BY <1>2, TakeType DEF PluginStatus, ReadInt, TypeOK
  <2>. QED
    BY <1>2, <2>1 DEF PluginStatus, ReadInt, TypeOK, Goto, PCs, PluginPCs, DeletePCs, data
<1>3. CASE PluginCreateThread
  BY <1>3 DEF PluginCreateThread, TypeOK, Goto, PCs, PluginPCs, ServerPCs, DeletePCs, data
<1>4. CASE PluginCannotCreateThread
  <2>1. Word("no_thread") \in Seq(Units)
    BY <1>0, MessageType DEF Word, MessageKinds
  <2>2. pipe' \in Pipes
    BY <1>4, <2>1, PutType DEF PluginCannotCreateThread, Write, TypeOK
  <2>. QED
    BY <1>4, <2>2 DEF PluginCannotCreateThread, Write, TypeOK, Goto, PCs, PluginPCs, DeletePCs, data
<1>5. CASE PluginTell
  <2>1. Word("thread") \in Seq(Units)
    BY <1>0, MessageType DEF Word, MessageKinds
  <2>2. pipe' \in Pipes
    BY <1>5, <2>1, PutType DEF PluginTell, Write, TypeOK
  <2>. QED
    BY <1>5, <2>2 DEF PluginTell, Write, TypeOK, Goto, PCs, PluginPCs, DeletePCs, data
<1>6. CASE PluginDeleteSend
  <2>1. Word("deleting") \in Seq(Units)
    BY <1>0, MessageType DEF Word, MessageKinds
  <2>2. pipe' \in Pipes
    BY <1>6, <2>1, PutType DEF PluginDeleteSend, Write, TypeOK
  <2>. QED
    BY <1>6, <2>2 DEF PluginDeleteSend, Write, TypeOK, Goto, PCs, PluginPCs, DeletePCs, data
<1>. QED
  BY <1>1, <1>2, <1>3, <1>4, <1>5, <1>6 DEF PluginStep

\* What a call's steps do.
LEMMA CallType == TypeOK /\ CallStep => TypeOK'
<1>. SUFFICES ASSUME TypeOK, CallStep PROVE TypeOK'
  OBVIOUS
<1>0. /\ pah \in Structs /\ buf \in Buffers /\ pc \in PCs
      /\ request \in Nat /\ reply \in Nat /\ calls \in Nat
  BY NatType DEF TypeOK
<1>1. CASE CallAnnounce
  <2>1. pah' \in Structs
    BY <1>0, <1>1 DEF CallAnnounce, Store, Structs
  <2>. QED
    BY <2>1, <1>1 DEF CallAnnounce, Store, TypeOK, Goto, PCs, CallPCs, data
<1>2. CASE CallCheck
  BY <1>2 DEF CallCheck, Move, TypeOK, Goto, PCs, CallPCs, data
<1>3. CASE CallRefuse
  <2>1. pah' \in Structs
    BY <1>0, <1>3 DEF CallRefuse, Store, Structs
  <2>. QED
    BY <2>1, <1>3 DEF CallRefuse, Store, TypeOK, Goto, PCs, CallPCs, data
<1>4. CASE CallGrow
  <2>1. pah' \in Structs
    BY <1>0, <1>4 DEF CallGrow, Store, Structs
  <2>. QED
    BY <2>1, <1>4 DEF CallGrow, Store, TypeOK, Goto, PCs, CallPCs, data
<1>5. CASE CallGrowSend
  <2>1. Word("grow") \in Seq(Units)
    BY <1>0, MessageType DEF Word, MessageKinds
  <2>2. pipe' \in Pipes
    BY <1>5, <2>1, PutType DEF CallGrowSend, Write, TypeOK
  <2>. QED
    BY <1>5, <2>2 DEF CallGrowSend, Write, TypeOK, Goto, PCs, CallPCs, data
<1>6. CASE CallGrowAnswer
  <2>1. pipe' \in Pipes
    BY <1>6, TakeType DEF CallGrowAnswer, ReadInt, TypeOK
  <2>2. buf' \in Buffers
    BY <1>0, <1>6 DEF CallGrowAnswer, Buffers
  <2>. QED
    BY <1>6, <2>1, <2>2 DEF CallGrowAnswer, ReadInt, TypeOK, Goto, PCs, CallPCs, data
<1>7. CASE CallHeader
  <2>1. pah' \in Structs
    BY <1>0, <1>7 DEF CallHeader, Store, Structs
  <2>. QED
    BY <2>1, <1>7 DEF CallHeader, Store, TypeOK, Goto, PCs, CallPCs, data
<1>8. CASE CallSend
  <2>1. Message("data", calls, request) \in Seq(Units)
    BY <1>0, MessageType DEF MessageKinds
  <2>2. pipe' \in Pipes
    BY <1>8, <2>1, PutType DEF CallSend, Write, TypeOK
  <2>. QED
    BY <1>8, <2>2 DEF CallSend, Write, TypeOK, Goto, PCs, CallPCs, data
<1>9. CASE CallReceive
  <2>1. buf.receivedatasize \in Nat
    BY <1>0 DEF Buffers
  <2>2. pipe' \in Pipes
    BY <1>9, <2>1, TakeType DEF CallReceive, CallRead
  <2>3. output' \in Seq(Units)
    BY <1>9, <2>1, ReadType DEF CallReceive, CallRead
  <2>. QED
    BY <1>9, <2>2, <2>3 DEF CallReceive, CallRead, TypeOK, Goto, PCs, CallPCs, data
<1>10. CASE CallEnlarge
  <2>1. buf' \in Buffers
    BY <1>0, <1>10 DEF CallEnlarge, Buffers, Structs
  <2>. QED
    BY <1>10, <2>1 DEF CallEnlarge, TypeOK, Goto, PCs, CallPCs, data
<1>11. CASE CallGoOn
  <2>1. Word("go_on") \in Seq(Units)
    BY <1>0, MessageType DEF Word, MessageKinds
  <2>2. pipe' \in Pipes
    BY <1>11, <2>1, PutType DEF CallGoOn, Write, TypeOK
  <2>. QED
    BY <1>11, <2>2 DEF CallGoOn, Write, TypeOK, Goto, PCs, CallPCs, data
<1>12. CASE CallReceiveAgain
  <2>1. buf.receivedatasize \in Nat
    BY <1>0 DEF Buffers
  <2>2. pipe' \in Pipes
    BY <1>12, <2>1, TakeType DEF CallReceiveAgain, CallRead
  <2>3. output' \in Seq(Units)
    BY <1>12, <2>1, ReadType DEF CallReceiveAgain, CallRead
  <2>. QED
    BY <1>12, <2>2, <2>3 DEF CallReceiveAgain, CallRead, TypeOK, Goto, PCs, CallPCs, data
<1>13. CASE CallAccept
  BY <1>13 DEF CallAccept, Move, TypeOK, Goto, PCs, CallPCs, data
<1>14. CASE CallReturn
  <2>1. pah' \in Structs
    BY <1>0, <1>14 DEF CallReturn, Store, Structs
  <2>. QED
    BY <2>1, <1>14 DEF CallReturn, Store, TypeOK, Goto, PCs, CallPCs, data
<1>. QED
  BY <1>1, <1>2, <1>3, <1>4, <1>5, <1>6, <1>7, <1>8, <1>9, <1>10, <1>11, <1>12, <1>13, <1>14 DEF CallStep

\* The message the call thread answers is there until it has answered.
InputKept ==
  pc["server"] \in {"too_big", "ask", "asked", "answer", "reply"} => input # <<>>

\* What the call thread's steps do.
LEMMA ServerType == TypeOK /\ InputKept /\ ServerStep => TypeOK'
<1>. SUFFICES ASSUME TypeOK, InputKept, ServerStep PROVE TypeOK'
  OBVIOUS
<1>0. /\ pah \in Structs /\ buf \in Buffers /\ pc \in PCs
      /\ request \in Nat /\ reply \in Nat /\ calls \in Nat
  BY NatType DEF TypeOK
<1>1. CASE ServerReceive
  <2>1. buf.plugin_receivedatasize \in Nat
    BY <1>0 DEF Buffers
  <2>2. pipe' \in Pipes
    BY <1>1, <2>1, TakeType DEF ServerReceive
  <2>3. input' \in Seq(Units)
    BY <1>1, <2>1, ReadType DEF ServerReceive
  <2>. QED
    BY <1>1, <2>2, <2>3 DEF ServerReceive, TypeOK, Goto, PCs, ServerPCs, data
<1>2. CASE ServerEnd
  BY <1>2 DEF ServerEnd, Move, TypeOK, Goto, PCs, ServerPCs, data
<1>3. CASE ServerStop
  <2>1. Word("stopped") \in Seq(Units)
    BY MessageType DEF Word, MessageKinds
  <2>2. pipe' \in Pipes
    BY <1>3, <2>1, PutType DEF ServerStop, Write, Move, TypeOK
  <2>. QED
    BY <1>3, <2>2 DEF ServerStop, Write, Move, TypeOK, Goto, PCs, ServerPCs, data
<1>4. CASE ServerEnlarge
  <2>1. buf' \in Buffers
    BY <1>0, <1>4 DEF ServerEnlarge, Buffers, Structs
  <2>. QED
    BY <1>4, <2>1 DEF ServerEnlarge, TypeOK, Goto, PCs, ServerPCs, data
<1>5. CASE ServerEnlarged
  <2>1. Word("grown") \in Seq(Units)
    BY <1>0, MessageType DEF Word, MessageKinds
  <2>2. pipe' \in Pipes
    BY <1>5, <2>1, PutType DEF ServerEnlarged, Write, TypeOK
  <2>. QED
    BY <1>5, <2>2 DEF ServerEnlarged, Write, TypeOK, Goto, PCs, ServerPCs, data
<1>6. CASE ServerMismatch
  <2>1. Word("mismatch") \in Seq(Units)
    BY <1>0, MessageType DEF Word, MessageKinds
  <2>2. pipe' \in Pipes
    BY <1>6, <2>1, PutType DEF ServerMismatch, Write, TypeOK
  <2>. QED
    BY <1>6, <2>2 DEF ServerMismatch, Write, TypeOK, Goto, PCs, ServerPCs, data
<1>7. CASE ServerCallback
  BY <1>7 DEF ServerCallback, TypeOK, Goto, PCs, ServerPCs, data
<1>8. CASE ServerTooBig
  <2>1. pah' \in Structs
    BY <1>0, <1>8 DEF ServerTooBig, Store, Structs
  <2>. QED
    BY <2>1, <1>8 DEF ServerTooBig, Store, TypeOK, Goto, PCs, ServerPCs, data
<1>9. CASE ServerAsk
  <2>1. Word("enlarge") \in Seq(Units)
    BY <1>0, MessageType DEF Word, MessageKinds
  <2>2. pipe' \in Pipes
    BY <1>9, <2>1, PutType DEF ServerAsk, Write, TypeOK
  <2>. QED
    BY <1>9, <2>2 DEF ServerAsk, Write, TypeOK, Goto, PCs, ServerPCs, data
<1>10. CASE ServerAsked
  <2>1. pipe' \in Pipes
    BY <1>10, TakeType DEF ServerAsked, ReadInt, TypeOK
  <2>2. buf' \in Buffers
    BY <1>0, <1>10 DEF ServerAsked, Buffers
  <2>. QED
    BY <1>10, <2>1, <2>2 DEF ServerAsked, ReadInt, TypeOK, Goto, PCs, ServerPCs, data
<1>11. CASE ServerAnswer
  <2>1. pah' \in Structs
    BY <1>0, <1>11 DEF ServerAnswer, Store, Structs
  <2>. QED
    BY <2>1, <1>11 DEF ServerAnswer, Store, TypeOK, Goto, PCs, ServerPCs, data
<1>12. CASE ServerReply
  <2>1. input[1] \in Units
    BY <1>12, ElementOfSeq, LenProperties, EmptySeq DEF ServerReply, Write, Goto, TypeOK, InputKept
  <2>2. Message("answer", input[1].call, IF reply = 0 THEN 1 ELSE reply) \in Seq(Units)
    BY <1>0, <2>1, MessageType DEF MessageKinds, Units
  <2>3. pipe' \in Pipes
    BY <1>12, <2>2, PutType DEF ServerReply, Write, TypeOK
  <2>. QED
    BY <1>12, <2>3 DEF ServerReply, Write, TypeOK, Goto, PCs, ServerPCs, data
<1>. QED
  BY <1>1, <1>2, <1>3, <1>4, <1>5, <1>6, <1>7, <1>8, <1>9, <1>10, <1>11, <1>12 DEF ServerStep

\* What the control thread's steps do.
LEMMA ControlType == TypeOK /\ ControlStep => TypeOK'
<1>. SUFFICES ASSUME TypeOK, ControlStep PROVE TypeOK'
  OBVIOUS
<1>0. /\ pah \in Structs /\ buf \in Buffers /\ pc \in PCs
      /\ request \in Nat /\ reply \in Nat /\ calls \in Nat
  BY NatType DEF TypeOK
<1>1. CASE ControlReceive
  <2>1. pipe' \in Pipes
    BY <1>1, TakeType DEF ControlReceive, ReadInt, TypeOK
  <2>. QED
    BY <1>1, <2>1 DEF ControlReceive, ReadInt, TypeOK, Goto, PCs, data
<1>2. CASE ControlHeader
  <2>1. pah' \in Structs
    BY <1>0, <1>2 DEF ControlHeader, Store, Structs
  <2>. QED
    BY <2>1, <1>2 DEF ControlHeader, Store, TypeOK, Goto, PCs, data
<1>3. CASE ControlSend
  <2>1. Word("stop") \in Seq(Units)
    BY <1>0, MessageType DEF Word, MessageKinds
  <2>2. pipe' \in Pipes
    BY <1>3, <2>1, PutType DEF ControlSend, Write, TypeOK
  <2>. QED
    BY <1>3, <2>2 DEF ControlSend, Write, TypeOK, Goto, PCs, data
<1>. QED
  BY <1>1, <1>2, <1>3 DEF ControlStep

\* What beginning a call does.
LEMMA CallStartType == TypeOK /\ CallStart => TypeOK'
<1>. SUFFICES ASSUME TypeOK, CallStart PROVE TypeOK'
  OBVIOUS
<1>1. pc \in PCs /\ pah \in Structs /\ calls \in Nat
  BY NatType DEF TypeOK
<1>2. ASSUME NEW size \in Sizes, CallWith(size), pc' \in PCs, pah' \in Structs
      PROVE  TypeOK'
  BY <1>2, ExchangeAssumption DEF CallWith, TypeOK, ExchangeAssumption
<1>3. CASE CallEnter
  BY <1>1, <1>2, <1>3 DEF CallEnter, Goto, PCs, Structs
<1>4. CASE CallEnterReordered
  BY <1>1, <1>2, <1>4 DEF CallEnterReordered, Goto, PCs
<1>. QED
  BY <1>3, <1>4 DEF CallStart

\* What a delete's steps do, on either side.
LEMMA DeleteType ==
  ASSUME TypeOK, NEW p \in Processes, DeleteBegin(p) \/ DeleteStep(p)
  PROVE  TypeOK'
<1>1. pc \in PCs /\ pah \in Structs
  BY DEF TypeOK
<1>2. ASSUME NEW from, NEW to \in DeletePCs \cup {"freed"}, Goto(p, from, to)
      PROVE  pc' \in PCs
  <2>1. CASE p = "host"
    BY <1>1, <1>2, <2>1 DEF Goto, PCs
  <2>2. CASE p = "plugin"
    BY <1>1, <1>2, <2>2 DEF Goto, PCs
  <2>. QED
    BY <2>1, <2>2 DEF Processes
<1>3. ASSUME NEW from, NEW to \in DeletePCs \cup {"freed"}, Move(p, from, to)
      PROVE  TypeOK'
  BY <1>2, <1>3 DEF Move, TypeOK, data
<1>4. ASSUME NEW from, NEW to \in DeletePCs, NEW field \in {"status", "okey_to_call"},
             NEW value \in 0..1, Store(p, from, to, field, value)
      PROVE  TypeOK'
  <2>1. pah' \in Structs
    BY <1>1, <1>4 DEF Store, Structs
  <2>. QED
    BY <1>2, <1>4, <2>1 DEF Store, TypeOK, data
<1>5. ASSUME NEW from, NEW to \in DeletePCs,
             NEW holder \in Processes \cup {"free"}, LockAs(p, from, to, holder)
      PROVE  TypeOK'
  BY <1>2, <1>5 DEF LockAs, TypeOK, data
<1>6. CASE DeleteBegin(p)
  BY <1>3, <1>6 DEF DeleteBegin, DeletePCs
<1>7. CASE DeleteForbid(p)
  BY <1>4, <1>7 DEF DeleteForbid, DeletePCs
<1>8. CASE DeleteLookReordered(p)
  BY <1>3, <1>8 DEF DeleteLookReordered, DeletePCs
<1>9. CASE DeleteForbidLate(p)
  BY <1>4, <1>9 DEF DeleteForbidLate, DeletePCs
<1>10. CASE DeleteWait(p)
  BY <1>3, <1>10 DEF DeleteWait, DeletePCs
<1>11. CASE DeleteGiveUp(p)
  BY <1>3, <1>11 DEF DeleteGiveUp, DeletePCs
<1>12. CASE DeleteLock(p) \/ DeleteLockFails(p)
  BY <1>3, <1>5, <1>12 DEF DeleteLock, DeleteLockFails, DeletePCs
<1>13. CASE DeleteStatus(p)
  BY <1>3, <1>13 DEF DeleteStatus, DeletePCs
<1>14. CASE DeleteMark(p)
  BY <1>4, <1>14 DEF DeleteMark, DeletePCs
<1>15. CASE DeleteUnlock(p)
  <2>. DEFINE holder == IF lock = p THEN "free" ELSE lock
  <2>1. holder \in Processes \cup {"free"}
    BY DEF TypeOK
  <2>. QED
    BY <1>5, <1>15, <2>1 DEF DeleteUnlock, DeletePCs
<1>16. CASE DeleteJoin(p)
  BY <1>3, <1>16 DEF DeleteJoin, DeletePCs
<1>17. CASE DeleteClose(p)
  BY <1>2, <1>17 DEF DeleteClose, Closing, TypeOK, data
<1>. QED
  BY <1>6, <1>7, <1>8, <1>9, <1>10, <1>11, <1>12, <1>13, <1>14, <1>15, <1>16, <1>17
  DEF DeleteStep

\* What the death of a process does.
LEMMA CrashType ==
  ASSUME TypeOK, NEW p \in Processes, Crash(p)
  PROVE  TypeOK'
<1>1. pc \in PCs
  BY DEF TypeOK
<1>2. pc' \in PCs
  BY <1>1 DEF Crash, PCs, Threads
<1>. QED
  BY <1>2 DEF Crash, Closing, TypeOK, data

\* Only the call thread, its making and its process's death change where it is,
\* and only the call thread changes what it received.
LEMMA ServerAlone ==
  ASSUME TypeOK, [Next]_vars, ~ServerStep
  PROVE  /\ input' = input
         /\ pc'["server"] \in {pc["server"], "receive", "dead"}
<1>1. pc \in PCs
  BY DEF TypeOK
<1>2. CASE HostStep
  BY <1>1, <1>2 DEF HostStep, HostCreateThread, HostCannotCreateThread, HostTell,
       HostConfirmation, HostAllow, HostDeleteHeader, HostDeleteSend, Write, ReadInt,
       Store, Goto, PCs, data
<1>3. CASE PluginStep
  BY <1>1, <1>3 DEF PluginStep, PluginInit, PluginStatus, PluginCreateThread,
       PluginCannotCreateThread, PluginTell, PluginDeleteSend, Write, ReadInt, Goto,
       PCs, data
<1>4. CASE CallStart
  BY <1>1, <1>4 DEF CallStart, CallEnter, CallEnterReordered, CallWith, Goto, PCs
<1>5. CASE CallStep
  BY <1>1, <1>5 DEF CallStep, CallAnnounce, CallCheck, CallRefuse, CallGrow,
       CallGrowSend, CallGrowAnswer, CallHeader, CallSend, CallReceive, CallEnlarge,
       CallGoOn, CallReceiveAgain, CallAccept, CallReturn, CallRead, Move, Store, Write,
       ReadInt, Goto, PCs, data
<1>6. CASE ControlStep
  BY <1>1, <1>6 DEF ControlStep, ControlReceive, ControlHeader, ControlSend, Store,
       Write, ReadInt, Goto, PCs, data
<1>7. ASSUME NEW p \in Processes, DeleteBegin(p) \/ DeleteStep(p)
      PROVE  input' = input /\ pc'["server"] = pc["server"]
  BY <1>1, <1>7 DEF Processes, DeleteBegin, DeleteStep, DeleteForbid, DeleteLookReordered,
     DeleteForbidLate, DeleteWait, DeleteGiveUp, DeleteLock, DeleteLockFails,
     DeleteStatus, DeleteMark, DeleteUnlock, DeleteJoin, DeleteClose, Closing, LockAs,
     Move, Store, Goto, PCs, data
<1>8. ASSUME NEW p \in Processes, Crash(p)
      PROVE  input' = input /\ pc'["server"] \in {pc["server"], "dead"}
  BY <1>1, <1>8 DEF Crash, Closing, Threads, PCs, data
<1>9. CASE UNCHANGED vars
  BY <1>9 DEF vars, data
<1>. QED
  BY <1>2, <1>3, <1>4, <1>5, <1>6, <1>7, <1>8, <1>9 DEF Next

\* Only the call thread moves the call thread, and it empties no message it answers.
LEMMA InputKeptStep == TypeOK /\ InputKept /\ [Next]_vars => InputKept'
<1>. SUFFICES ASSUME TypeOK, InputKept, [Next]_vars PROVE InputKept'
  OBVIOUS
<1>1. pc \in PCs /\ input \in Seq(Units)
  BY DEF TypeOK
<1>2. CASE ~ServerStep
  BY <1>2, ServerAlone DEF InputKept
<1>3. CASE ServerCallback
  BY <1>1, <1>3 DEF ServerCallback, InputKept
<1>4. CASE ServerStep /\ ~ServerCallback
  BY <1>1, <1>4 DEF ServerStep, ServerReceive, ServerEnd, ServerStop, ServerEnlarge,
       ServerEnlarged, ServerMismatch, ServerTooBig, ServerAsk, ServerAsked,
       ServerAnswer, ServerReply, InputKept, Move, Store, Write, ReadInt, Goto, PCs, data
<1>. QED
  BY <1>2, <1>3, <1>4 DEF ServerStep

\* Every step keeps the types, if the call thread's message is kept.
LEMMA TypeStep == TypeOK /\ InputKept /\ [Next]_vars => TypeOK'
<1>. SUFFICES ASSUME TypeOK, InputKept, [Next]_vars PROVE TypeOK'
  OBVIOUS
<1>1. CASE UNCHANGED vars
  BY <1>1 DEF vars, data, TypeOK
<1>. QED
  BY <1>1, HostType, PluginType, CallStartType, CallType, ServerType, ControlType,
     DeleteType, CrashType DEF Next

\* In every state of the exchange every thread is at a step of its own function,
\* and the struct, the pipes and the buffer sizes hold what the code puts there.
THEOREM TypeCorrect == Spec => []TypeOK
<1>1. Init => InputKept
  BY DEF Init, InputKept
<1>. QED
  BY <1>1, InitType, TypeStep, InputKeptStep, PTL DEF Spec

(***************************************************************************)
(* What the steps of each thread leave alone.                              *)
(***************************************************************************)
\* A call leaves the other threads, status and okey_to_call alone.
LEMMA CallFrame ==
  ASSUME TypeOK, CallStart \/ CallStep
  PROVE  /\ \A t \in Threads \ {"caller"} : pc'[t] = pc[t]
         /\ UNCHANGED <<lock, open, usable>>
         /\ pah'.status = pah.status /\ pah'.okey_to_call = pah.okey_to_call
         /\ pc["caller"] = "idle" => usable
         /\ pc["caller"] # "dead"
<1>1. pc \in PCs /\ pah \in Structs
  BY DEF TypeOK
<1>2. CASE CallStart
  BY <1>1, <1>2 DEF CallStart, CallEnter, CallEnterReordered, CallWith, Goto, PCs,
       Structs, Threads
<1>3. CASE CallStep
  BY <1>1, <1>3 DEF CallStep, CallAnnounce, CallCheck, CallRefuse, CallGrow,
       CallGrowSend, CallGrowAnswer, CallHeader, CallSend, CallReceive, CallEnlarge,
       CallGoOn, CallReceiveAgain, CallAccept, CallReturn, CallRead, Move, Store, Write,
       ReadInt, Goto, PCs, Structs, Threads, data
<1>. QED
  BY <1>2, <1>3

\* The call thread only moves itself, and only by reading, or while it has work.
LEMMA ServerFrame ==
  ASSUME TypeOK, ServerStep
  PROVE  /\ \A t \in Threads \ {"server"} : pc'[t] = pc[t]
         /\ UNCHANGED <<lock, open, usable>>
         /\ pah'.status = pah.status /\ pah'.okey_to_call = pah.okey_to_call
         /\ pah'.is_calling = pah.is_calling
         /\ pc["server"] \notin {"none", "ended", "dead"}
         /\ pc["server"] = "receive" => Readable("plugin")
BY DEF TypeOK, ServerStep, ServerReceive, ServerEnd, ServerStop, ServerEnlarge,
     ServerEnlarged, ServerMismatch, ServerCallback, ServerTooBig, ServerAsk, ServerAsked,
     ServerAnswer, ServerReply, Move, Store, Write, ReadInt, Goto, PCs, Structs, Threads,
     data

\* The control thread only moves itself.
LEMMA ControlFrame ==
  ASSUME TypeOK, ControlStep
  PROVE  /\ \A t \in Threads \ {"control"} : pc'[t] = pc[t]
         /\ UNCHANGED <<lock, open, usable>>
         /\ pah'.status = pah.status /\ pah'.okey_to_call = pah.okey_to_call
         /\ pah'.is_calling = pah.is_calling
         /\ pipe'["host"] = pipe["host"]
         /\ pc["control"] \notin {"none", "ended", "dead"}
         /\ pc["control"] = "receive" => Readable("control")
BY DEF TypeOK, ControlStep, ControlReceive, ControlHeader, ControlSend, Store, Write,
     ReadInt, Goto, PCs, Structs, Pipes, Threads, data

\* Before and after allowing calls the host's own steps move nobody else.
LEMMA HostFrame ==
  ASSUME TypeOK, HostStep
  PROVE  /\ \A t \in {"plugin", "caller", "server"} : pc'[t] = pc[t]
         /\ UNCHANGED <<lock, open>>
         /\ pah'.status = pah.status /\ pah'.is_calling = pah.is_calling
         /\ ~HostAllow => UNCHANGED usable /\ pah'.okey_to_call = pah.okey_to_call
         /\ pc["host"] # "up"
BY DEF TypeOK, HostStep, HostCreateThread, HostCannotCreateThread, HostTell,
     HostConfirmation, HostAllow, HostDeleteHeader, HostDeleteSend, Write, ReadInt, Store,
     Goto, PCs, Structs, Threads, data

\* The plugin's own steps disturb the struct only when it is initialised.
LEMMA PluginFrame ==
  ASSUME TypeOK, PluginStep
  PROVE  /\ \A t \in {"host", "caller", "control"} : pc'[t] = pc[t]
         /\ UNCHANGED <<lock, open, usable>>
         /\ ~PluginInit => UNCHANGED pah
BY DEF TypeOK, PluginStep, PluginInit, PluginStatus, PluginCreateThread,
     PluginCannotCreateThread, PluginTell, PluginDeleteSend, Write, ReadInt, Goto, PCs,
     Threads, data

\* A delete moves only itself and never touches the pipes or is_calling.
LEMMA DeleteFrame ==
  ASSUME TypeOK, NEW p \in Processes, DeleteBegin(p) \/ DeleteStep(p)
  PROVE  /\ \A t \in Threads \ {p} : pc'[t] = pc[t]
         /\ pc[p] \in DeletePCs \cup {"up"} /\ pc'[p] \in DeletePCs \cup {"freed"}
         /\ UNCHANGED pipe /\ pah'.is_calling = pah.is_calling
         /\ pc'[p] # "freed" => UNCHANGED <<open, usable>>
         /\ open' \in {open, open \ {p}} /\ usable' \in {usable, FALSE}
<1>1. pc \in PCs /\ pah \in Structs /\ usable \in BOOLEAN
  BY DEF TypeOK
<1>2. CASE DeleteClose(p)
  BY <1>1, <1>2 DEF DeleteClose, Closing, Goto, Processes, DeletePCs, PCs, Threads, data
<1>3. CASE DeleteBegin(p) \/ (DeleteStep(p) /\ ~DeleteClose(p))
  BY <1>1, <1>3 DEF Processes, DeletePCs, DeleteBegin, DeleteStep, DeleteForbid,
     DeleteLookReordered, DeleteForbidLate, DeleteWait, DeleteGiveUp, DeleteLock,
     DeleteLockFails, DeleteStatus, DeleteMark, DeleteUnlock, DeleteJoin, LockAs, Move,
     Store, Goto, PCs, Structs, Threads, data
<1>. QED
  BY <1>2, <1>3

(***************************************************************************)
(* Starting up in order.  The two processes pass words back and forth, and *)
(* until the host has read the plugin's answer it follows from where they  *)
(* are what is on the pipes: so the host allows calls only with a plugin   *)
(* that has not begun its delete.                                          *)
(***************************************************************************)
Handshake ==
  /\ pc["plugin"] \in PluginPCs \cup {"up"} =>
       /\ pah.status = 0
       /\ pc["control"] \in {"none", "receive"} /\ pipe["control"] = <<>>
       /\ pc["server"] = IF pc["plugin"] \in {"tell", "up"} THEN "receive" ELSE "none"
       /\ pipe["plugin"] =
            IF pc["host"] = "confirmation" /\ pc["plugin"] \in {"init", "status"}
            THEN Word("thread") ELSE <<>>
       /\ pipe["host"] = IF pc["plugin"] = "up" THEN Word("thread") ELSE <<>>
  /\ pc["plugin"] \in DeletePCs \cup {"freed"} =>
       pc["server"] = "none" /\ pipe["host"] = Word("no_thread")
  /\ pc["plugin"] = "dead" =>
       pc["server"] = "dead" /\ (pah.status = 1 => pipe["host"] = Word("no_thread"))
  /\ pc["host"] \in {"create", "tell"} => pc["plugin"] \in {"init", "status", "dead"}

Opened ==
  /\ pc["host"] \in HostPCs => "host" \in open /\ ~usable /\ pc["caller"] = "idle"
  /\ pc["plugin"] \notin {"freed", "dead"} => "plugin" \in open

InOrder ==
  /\ pc["plugin"] \in PluginPCs =>
       ~usable /\ pc["caller"] \in {"idle", "dead"} /\ pc["host"] \notin {"allow", "up"}
  /\ pc["host"] = "allow" => pc["plugin"] \in {"up", "dead"} /\ pah.status = 0
  /\ pc["host"] \in {"create", "tell", "confirmation"} => Handshake

(***************************************************************************)
(* The exclusion itself: a call has announced itself in is_calling from    *)
(* its look at okey_to_call on, a delete has cleared okey_to_call from its *)
(* look at is_calling on.                                                  *)
(***************************************************************************)
Exclusion ==
  /\ pc["caller"] \in CallPCs \cup {"check"} => pah.is_calling = 1
  /\ pc["caller"] # "announce"
  /\ \A p \in Processes : pc[p] # "del_forbid_late"
  /\ \A p \in Processes : PastWait(p) \/ pc[p] = "del_wait" => pah.okey_to_call = 0

\* A word is one unit of its kind; reading it leaves nothing.
LEMMA WordFacts ==
  ASSUME NEW kind
  PROVE  /\ Word(kind) # <<>> /\ Len(Word(kind)) = 1 /\ Word(kind)[1].kind = kind
         /\ <<>> \o Word(kind) = Word(kind)
         /\ \A to \in {"plugin", "host", "control"} :
              pipe[to] = Word(kind) => Left(to, 1) = <<>>
<1>1. Word(kind) = <<[kind |-> kind, call |-> 0]>>
  BY DEF Word, Message
<1>2. Word(kind) \in Seq({[kind |-> kind, call |-> 0]}) /\ Len(Word(kind)) = 1
  BY <1>1
<1>3. SubSeq(Word(kind), 2, 1) = <<>>
  BY SubSeqEmpty
<1>4. Least(1, 1) = 1
  BY DEF Least
<1>5. <<>> \o Word(kind) = Word(kind)
  BY <1>2, ConcatEmptySeq
<1>6. Word(kind) # <<>> /\ Word(kind)[1].kind = kind
  BY <1>1
<1>7. ASSUME NEW to, pipe[to] = Word(kind)
      PROVE  Left(to, 1) = <<>>
  <2>1. Left(to, 1) = SubSeq(Word(kind), Least(1, 1) + 1, 1)
    BY <1>2, <1>7 DEF Left
  <2>. QED
    BY <1>3, <1>4, <2>1
<1>. QED
  BY <1>2, <1>5, <1>6, <1>7

\* Every step keeps a starting process open and the host unusable until it allows calls.
LEMMA OpenedStep == TypeOK /\ Opened /\ [Next]_vars => Opened'
<1>. SUFFICES ASSUME TypeOK, Opened, [Next]_vars PROVE Opened'
  OBVIOUS
<1>1. pc \in PCs /\ open \subseteq Processes
  BY DEF TypeOK
<1>2. CASE CallStart \/ CallStep
  BY <1>2, CallFrame DEF Opened, Threads
<1>3. CASE ServerStep
  BY <1>3, ServerFrame DEF Opened, Threads
<1>4. CASE ControlStep
  BY <1>4, ControlFrame DEF Opened, Threads
<1>5. CASE HostStep
  <2>1. CASE HostAllow
    BY <1>1, <2>1 DEF HostAllow, Goto, Opened, PCs, HostPCs
  <2>2. CASE ~HostAllow
    <3>1. pc["host"] \in HostPCs \/ pc'["host"] \notin HostPCs
      BY <1>1, <1>5 DEF HostStep, HostCreateThread, HostCannotCreateThread, HostTell,
           HostConfirmation, HostAllow, HostDeleteHeader, HostDeleteSend, Write, ReadInt,
           Store, Goto, PCs, HostPCs
    <3>. QED
      BY <1>5, <2>2, <3>1, HostFrame DEF Opened
  <2>. QED
    BY <2>1, <2>2
<1>6. CASE PluginStep
  <2>1. pc["plugin"] \notin {"freed", "dead"}
    BY <1>6 DEF PluginStep, PluginInit, PluginStatus, PluginCreateThread,
         PluginCannotCreateThread, PluginTell, PluginDeleteSend, Write, ReadInt, Goto
  <2>. QED
    BY <1>6, <2>1, PluginFrame DEF Opened
<1>7. ASSUME NEW p \in Processes, DeleteBegin(p) \/ DeleteStep(p)
      PROVE  Opened'
  <2>1. CASE p = "host"
    BY <1>1, <1>7, <2>1, DeleteFrame DEF Opened, Threads, HostPCs, DeletePCs
  <2>2. CASE p = "plugin"
    <3>1. /\ pc'["host"] = pc["host"] /\ pc'["caller"] = pc["caller"]
          /\ pc["plugin"] \in DeletePCs \cup {"up"}
          /\ open' \in {open, open \ {"plugin"}} /\ usable' \in {usable, FALSE}
          /\ pc'["plugin"] # "freed" => open' = open
      BY <1>7, <2>2, DeleteFrame DEF Threads
    <3>2. ~usable => ~usable'
      BY <3>1
    <3>. QED
      BY <1>1, <3>1, <3>2 DEF Opened, DeletePCs
  <2>. QED
    BY <2>1, <2>2 DEF Processes
<1>8. ASSUME NEW p \in Processes, Crash(p)
      PROVE  Opened'
  <2>1. CASE p = "host"
    BY <1>1, <1>8, <2>1 DEF Crash, Closing, Opened, Threads, ProcessOf, HostPCs
  <2>2. CASE p = "plugin"
    BY <1>1, <1>8, <2>2 DEF Crash, Closing, Opened, Threads, ProcessOf, HostPCs
  <2>. QED
    BY <2>1, <2>2 DEF Processes
<1>9. CASE UNCHANGED vars
  BY <1>9 DEF vars, data, Opened
<1>. QED
  BY <1>2, <1>3, <1>4, <1>5, <1>6, <1>7, <1>8, <1>9 DEF Next

\* The plugin is not deleted while the host starts: with EarlyDelete that is up to
\* the layer above.
InTime == DeleteBegin("plugin") => HostReturned

\* Without EarlyDelete it never is.
LEMMA DeletesInTime ==
  ASSUME ~EarlyDelete
  PROVE  InTime
BY DEF InTime, DeleteBegin

\* Every step keeps the order of starting up, if the plugin is not deleted meanwhile.
LEMMA InOrderStep ==
  ASSUME InTime, TypeOK, Opened, InOrder, [Next]_vars
  PROVE  InOrder'
<1>. DEFINE Unread == {"create", "tell", "confirmation"}
<1>1. /\ pc \in PCs /\ pah \in Structs /\ pipe \in Pipes
      /\ pc["host"] \in Unread =>
           "host" \in open /\ ~usable /\ pc["caller"] = "idle"
      /\ pc["plugin"] \in PluginPCs \cup {"up"} => "plugin" \in open
  BY DEF TypeOK, Opened, HostPCs, PluginPCs
<1>2. CASE CallStart \/ CallStep
  <2>1. usable \/ pc["caller"] \notin {"idle", "dead"}
    BY <1>2, CallFrame
  <2>2. pc["host"] \notin HostPCs /\ pc["plugin"] \notin PluginPCs
    BY <2>1 DEF Opened, InOrder
  <2>. QED
    BY <1>2, <2>2, CallFrame DEF InOrder, Threads, HostPCs
<1>3. CASE ServerStep
  <2>1. pc["host"] \notin Unread
    <3>. SUFFICES ASSUME pc["host"] \in Unread PROVE FALSE
      OBVIOUS
    <3>1. pc["server"] = "receive" /\ pipe["plugin"] = <<>>
      BY <1>1, <1>3, ServerFrame DEF InOrder, Handshake, PCs, PluginPCs
    <3>. QED
      BY <1>1, <1>3, <3>1, ServerFrame DEF Readable
  <2>. QED
    BY <1>3, <2>1, ServerFrame DEF InOrder, Threads
<1>4. CASE ControlStep
  <2>1. pc["host"] \in Unread => pc["plugin"] \in DeletePCs \cup {"freed", "dead"}
    <3>. SUFFICES ASSUME pc["host"] \in Unread, pc["plugin"] \in PluginPCs \cup {"up"}
                  PROVE  FALSE
      BY <1>1 DEF PCs
    <3>1. pc["control"] = "receive" /\ pipe["control"] = <<>>
      BY <1>4, ControlFrame DEF InOrder, Handshake
    <3>. QED
      BY <1>1, <1>4, <3>1, ControlFrame DEF Readable
  <2>. QED
    BY <1>1, <1>4, <2>1, ControlFrame
    DEF InOrder, Handshake, Threads, PluginPCs, DeletePCs
<1>5. CASE HostStep
  <2>1. CASE HostCreateThread
    BY <1>1, <2>1 DEF HostCreateThread, InOrder, Handshake, PCs, PluginPCs, DeletePCs, data
  <2>2. CASE HostTell
    <3>1. /\ pc["host"] = "tell" /\ pc' = [pc EXCEPT !["host"] = "confirmation"]
          /\ UNCHANGED <<pah, open, usable>>
          /\ pipe' = IF "plugin" \in open
                     THEN [pipe EXCEPT !["plugin"] = @ \o Word("thread")] ELSE pipe
      BY <2>2 DEF HostTell, Write, Goto
    <3>2. CASE pc["plugin"] \in {"init", "status"}
      <4>0. pipe["plugin"] = <<>> /\ "plugin" \in open
        BY <1>1, <3>1, <3>2 DEF InOrder, Handshake, PluginPCs
      <4>1. pipe' = [pipe EXCEPT !["plugin"] = Word("thread")]
        BY <3>1, <4>0, WordFacts
      <4>. QED
        BY <1>1, <3>1, <3>2, <4>1
        DEF InOrder, Handshake, PluginPCs, DeletePCs, PCs, Pipes
    <3>3. CASE pc["plugin"] = "dead"
      BY <1>1, <3>1, <3>3 DEF InOrder, Handshake, PluginPCs, DeletePCs, PCs, Pipes
    <3>. QED
      BY <3>1, <3>2, <3>3 DEF InOrder, Handshake
  <2>3. CASE HostConfirmation
    <3>1. PICK result \in IntKinds("host") :
            ReadInt("host", "confirmation",
                    IF result = "no_thread" THEN "del_forbid" ELSE "allow", "host")
      BY <2>3 DEF HostConfirmation
    <3>2. /\ pc["host"] = "confirmation" /\ Readable("host")
          /\ pc' = [pc EXCEPT !["host"] =
                      IF result = "no_thread" THEN "del_forbid" ELSE "allow"]
          /\ UNCHANGED <<pah, usable>>
      BY <3>1 DEF ReadInt, Goto
    <3>3. pc["plugin"] \notin PluginPCs
      BY <1>1, <3>2 DEF InOrder, Handshake, Readable, PluginPCs
    <3>4. CASE result = "no_thread"
      BY <1>1, <3>2, <3>3, <3>4 DEF InOrder, PCs
    <3>5. CASE result # "no_thread"
      <4>1. pipe["host"] # Word("no_thread")
        BY <3>5, WordFacts DEF IntKinds
      <4>2. pc["plugin"] \in {"up", "dead"} /\ pah.status = 0
        BY <1>1, <3>2, <3>3, <4>1 DEF InOrder, Handshake, PCs, Structs
      <4>. QED
        BY <1>1, <3>2, <3>3, <3>5, <4>2 DEF InOrder, PCs, PluginPCs
    <3>. QED
      BY <3>4, <3>5
  <2>4. CASE HostAllow
    BY <1>1, <2>4 DEF HostAllow, Goto, InOrder, PCs, PluginPCs
  <2>5. CASE HostCannotCreateThread \/ HostDeleteHeader \/ HostDeleteSend
    BY <1>1, <2>5 DEF HostCannotCreateThread, HostDeleteHeader, HostDeleteSend, Write,
         Store, Goto, InOrder, PCs, PluginPCs, data
  <2>. QED
    BY <1>5, <2>1, <2>2, <2>3, <2>4, <2>5 DEF HostStep
<1>6. CASE PluginStep
  <2>1. CASE PluginInit
    BY <1>1, <2>1 DEF PluginInit, Goto, InOrder, Handshake, PCs, Structs, PluginPCs,
         DeletePCs, data
  <2>2. CASE PluginStatus
    <3>1. PICK result \in IntKinds("plugin") :
            ReadInt("plugin", "status",
                    IF result = "no_thread" THEN "del_forbid" ELSE "create", "plugin")
      BY <2>2 DEF PluginStatus
    <3>2. /\ pc["plugin"] = "status" /\ Readable("plugin")
          /\ pc' = [pc EXCEPT !["plugin"] =
                      IF result = "no_thread" THEN "del_forbid" ELSE "create"]
          /\ pipe' = [pipe EXCEPT !["plugin"] = Left("plugin", 1)]
          /\ UNCHANGED <<pah, usable>>
      BY <3>1 DEF ReadInt, Goto
    <3>3. CASE pc["host"] \in Unread
      <4>1. pc["host"] = "confirmation" /\ pipe["plugin"] = Word("thread")
        BY <1>1, <3>2, <3>3 DEF InOrder, Handshake, Readable, PluginPCs
      <4>2. result = "thread"
        BY <4>1, WordFacts DEF IntKinds
      <4>3. Left("plugin", 1) = <<>>
        BY <4>1, WordFacts
      <4>. QED
        BY <1>1, <3>2, <4>1, <4>2, <4>3
        DEF InOrder, Handshake, PCs, Pipes, PluginPCs, DeletePCs
    <3>4. CASE pc["host"] \notin Unread
      BY <1>1, <3>2, <3>4 DEF InOrder, PCs, PluginPCs
    <3>. QED
      BY <3>3, <3>4
  <2>3. CASE PluginCreateThread
    BY <1>1, <2>3 DEF PluginCreateThread, InOrder, Handshake, PCs, PluginPCs, DeletePCs,
         data
  <2>4. ASSUME NEW kind, NEW to \in {"up", "del_forbid"}, NEW from \in {"tell", "create"},
               Write("plugin", from, to, "host", Word(kind)),
               to = "up" => from = "tell" /\ kind = "thread",
               to = "del_forbid" => from = "create" /\ kind = "no_thread"
        PROVE  InOrder'
    <3>1. /\ pc["plugin"] = from /\ pc' = [pc EXCEPT !["plugin"] = to]
          /\ UNCHANGED <<pah, usable>>
          /\ pipe' = IF "host" \in open
                     THEN [pipe EXCEPT !["host"] = @ \o Word(kind)] ELSE pipe
      BY <2>4 DEF Write, Goto
    <3>2. CASE pc["host"] \in Unread
      <4>1. pipe' = [pipe EXCEPT !["host"] = Word(kind)]
        BY <1>1, <2>4, <3>1, <3>2, WordFacts DEF InOrder, Handshake, PluginPCs, Pipes
      <4>. QED
        BY <1>1, <2>4, <3>1, <3>2, <4>1
        DEF InOrder, Handshake, PCs, Pipes, PluginPCs, DeletePCs
    <3>3. CASE pc["host"] \notin Unread
      BY <1>1, <2>4, <3>1, <3>3 DEF InOrder, PCs, PluginPCs
    <3>. QED
      BY <3>2, <3>3
  <2>5. CASE PluginCannotCreateThread
    BY <2>4, <2>5 DEF PluginCannotCreateThread
  <2>6. CASE PluginTell
    BY <2>4, <2>6 DEF PluginTell
  <2>7. CASE PluginDeleteSend
    BY <1>1, <2>7 DEF PluginDeleteSend, Write, Goto, InOrder, Handshake, PCs, Pipes,
         PluginPCs, DeletePCs, data
  <2>. QED
    BY <1>6, <2>1, <2>2, <2>3, <2>5, <2>6, <2>7 DEF PluginStep
<1>7. ASSUME DeleteBegin("host") \/ DeleteStep("host")
      PROVE  InOrder'
  <2>1. pc["host"] \in DeletePCs \cup {"up"} /\ pc'["host"] \in DeletePCs \cup {"freed"}
    BY <1>7, DeleteFrame DEF Processes
  <2>. QED
    BY <1>1, <1>7, <2>1, DeleteFrame DEF InOrder, Threads, Processes, DeletePCs
<1>8. ASSUME DeleteBegin("plugin") \/ DeleteStep("plugin")
      PROVE  InOrder'
  <2>1. /\ pc["plugin"] \in DeletePCs \cup {"up"}
        /\ pc'["plugin"] \in DeletePCs \cup {"freed"}
        /\ \A t \in Threads \ {"plugin"} : pc'[t] = pc[t]
        /\ pipe' = pipe
    BY <1>8, DeleteFrame DEF Processes
  <2>2. pc["host"] \in HostPCs => pc["plugin"] # "up"
    <3>1. CASE DeleteBegin("plugin")
      BY <3>1 DEF InTime, HostReturned, HostPCs
    <3>2. CASE DeleteStep("plugin")
      BY <3>2 DEF DeleteStep, DeleteForbid, DeleteLookReordered, DeleteForbidLate,
         DeleteWait, DeleteGiveUp, DeleteLock, DeleteLockFails, DeleteStatus, DeleteMark,
         DeleteUnlock, DeleteJoin, DeleteClose, LockAs, Move, Store, Goto
    <3>. QED
      BY <1>8, <3>1, <3>2
  <2>. QED
    BY <1>1, <2>1, <2>2
    DEF InOrder, Handshake, Threads, HostPCs, PluginPCs, DeletePCs
<1>9. CASE Crash("host")
  BY <1>1, <1>9 DEF Crash, Closing, Threads, ProcessOf, InOrder
<1>10. CASE Crash("plugin")
  BY <1>1, <1>10 DEF Crash, Closing, Threads, ProcessOf, InOrder, Handshake, PCs,
       PluginPCs, DeletePCs
<1>11. CASE UNCHANGED vars
  BY <1>11 DEF vars, data, InOrder, Handshake
<1>. QED
  BY <1>2, <1>3, <1>4, <1>5, <1>6, <1>7, <1>8, <1>9, <1>10, <1>11 DEF Next, Processes

Safe == Exclusion /\ CallExclusion /\ EndedForbidsCalls

\* Calls and deletes of an orderly exchange stay apart.
LEMMA SafeStep ==
  ASSUME ~GivesUp, ~Reorders, TypeOK, Opened, InOrder, Safe, [Next]_vars
  PROVE  Safe'
<1>1. pc \in PCs /\ pah \in Structs
  BY DEF TypeOK
<1>2. CASE CallStart
  <2>1. CallEnter
    BY <1>2 DEF CallStart, CallEnterReordered
  <2>2. /\ pc' = [pc EXCEPT !["caller"] = "check"]
        /\ pah' = [pah EXCEPT !.is_calling = 1]
    BY <2>1 DEF CallEnter, Goto
  <2>. QED
    BY <1>1, <2>2 DEF Safe, Exclusion, CallExclusion, EndedForbidsCalls, PastWait, InCall,
         PCs, Structs, CallPCs, Processes
<1>3. CASE CallStep
  <2>1. /\ \A t \in Threads \ {"caller"} : pc'[t] = pc[t]
        /\ pah'.status = pah.status /\ pah'.okey_to_call = pah.okey_to_call
    BY <1>3, CallFrame
  <2>2. CASE pc["caller"] \in CallPCs
    <3>1. /\ pc'["caller"] \in CallPCs \cup {"idle"}
          /\ pc'["caller"] # "idle" => pah'.is_calling = pah.is_calling
      BY <1>1, <1>3, <2>2 DEF CallStep, CallAnnounce, CallCheck, CallRefuse, CallGrow,
           CallGrowSend, CallGrowAnswer, CallHeader, CallSend, CallReceive, CallEnlarge,
           CallGoOn, CallReceiveAgain, CallAccept, CallReturn, CallRead, Move, Store,
           Write, ReadInt, Goto, PCs, Structs, CallPCs, data
    <3>. QED
      BY <2>1, <2>2, <3>1 DEF Safe, Exclusion, CallExclusion, EndedForbidsCalls, PastWait,
           InCall, CallPCs, Processes, Threads
  <2>3. CASE CallCheck
    <3>1. /\ pc' = [pc EXCEPT !["caller"] =
                      IF pah.okey_to_call = 0 THEN "refuse" ELSE "fit"]
          /\ pc["caller"] = "check" /\ pah' = pah
      BY <2>3 DEF CallCheck, Move, Goto
    <3>2. CASE pah.okey_to_call = 0
      BY <1>1, <3>1, <3>2 DEF Safe, Exclusion, CallExclusion, EndedForbidsCalls, PastWait,
           InCall, PCs, CallPCs, Processes
    <3>3. CASE pah.okey_to_call # 0
      BY <1>1, <3>1, <3>3 DEF Safe, Exclusion, CallExclusion, EndedForbidsCalls, PastWait,
           InCall, PCs, CallPCs, Processes
    <3>. QED
      BY <3>2, <3>3
  <2>4. CASE CallRefuse
    BY <1>1, <2>1, <2>4 DEF CallRefuse, Store, Goto, Safe, Exclusion, CallExclusion,
         EndedForbidsCalls, PastWait, InCall, PCs, CallPCs, Processes, Threads
  <2>. QED
    BY <1>3, <2>2, <2>3, <2>4 DEF CallStep, CallAnnounce, CallGrow, CallGrowSend,
         CallGrowAnswer, CallHeader, CallSend, CallReceive, CallEnlarge, CallGoOn,
         CallReceiveAgain, CallAccept, CallReturn, CallRead, Move, Store, Write, ReadInt,
         Goto, CallPCs, Safe, Exclusion
<1>4. CASE ServerStep
  BY <1>4, ServerFrame DEF Safe, Exclusion, CallExclusion, EndedForbidsCalls, PastWait,
       InCall, Processes, Threads
<1>5. CASE ControlStep
  BY <1>5, ControlFrame DEF Safe, Exclusion, CallExclusion, EndedForbidsCalls, PastWait,
       InCall, Processes, Threads
<1>6. CASE HostAllow
  <2>1. /\ pc["host"] = "allow" /\ pc' = [pc EXCEPT !["host"] = "up"]
        /\ pah' = [pah EXCEPT !.okey_to_call = 1]
    BY <1>6 DEF HostAllow, Goto
  <2>2. pc["plugin"] \in {"up", "dead"} /\ pah.status = 0
    BY <2>1 DEF InOrder
  <2>. QED
    BY <1>1, <2>1, <2>2 DEF Safe, Exclusion, CallExclusion, EndedForbidsCalls, PastWait,
         InCall, PCs, Structs, Processes
<1>7. CASE HostStep /\ ~HostAllow
  <2>1. PastWait("host")' => PastWait("host")
    BY <1>1, <1>7 DEF HostStep, HostCreateThread, HostCannotCreateThread, HostTell,
         HostConfirmation, HostDeleteHeader, HostDeleteSend, Write, ReadInt, Store, Goto,
         PCs, PastWait
  <2>2. pc'["host"] \notin {"del_wait", "del_forbid_late"}
    BY <1>1, <1>7 DEF HostStep, HostCreateThread, HostCannotCreateThread, HostTell,
         HostConfirmation, HostDeleteHeader, HostDeleteSend, Write, ReadInt, Store, Goto,
         PCs
  <2>. QED
    BY <1>7, <2>1, <2>2, HostFrame DEF Safe, Exclusion, CallExclusion, EndedForbidsCalls,
         PastWait, InCall, Processes
<1>8. CASE PluginInit
  <2>1. /\ pc["plugin"] = "init" /\ pc' = [pc EXCEPT !["plugin"] = "status"]
        /\ pah'.okey_to_call = 0
    BY <1>1, <1>8 DEF PluginInit, Goto, Structs
  <2>2. pc["caller"] \in {"idle", "dead"}
    BY <2>1 DEF InOrder, PluginPCs
  <2>. QED
    BY <1>1, <2>1, <2>2 DEF Safe, Exclusion, CallExclusion, EndedForbidsCalls, PastWait,
         InCall, PCs, CallPCs, Processes
<1>9. CASE PluginStep /\ ~PluginInit
  <2>1. PastWait("plugin")' => PastWait("plugin")
    BY <1>1, <1>9 DEF PluginStep, PluginStatus, PluginCreateThread,
         PluginCannotCreateThread, PluginTell, PluginDeleteSend, Write, ReadInt, Goto,
         PCs, PastWait
  <2>2. pc'["plugin"] \notin {"del_wait", "del_forbid_late"}
    BY <1>1, <1>9 DEF PluginStep, PluginStatus, PluginCreateThread,
         PluginCannotCreateThread, PluginTell, PluginDeleteSend, Write, ReadInt, Goto, PCs
  <2>. QED
    BY <1>9, <2>1, <2>2, PluginFrame DEF Safe, Exclusion, CallExclusion,
         EndedForbidsCalls, PastWait, InCall, Processes
<1>10. ASSUME NEW p \in Processes, DeleteBegin(p) \/ DeleteStep(p)
       PROVE  Safe'
  <2>1. /\ \A t \in Threads \ {p} : pc'[t] = pc[t]
        /\ pah'.is_calling = pah.is_calling
    BY <1>10, DeleteFrame
  <2>2. p \in {"host", "plugin"} /\ p # "caller"
    BY DEF Processes
  <2>3. CASE DeleteForbid(p)
    <3>1. pah'.okey_to_call = 0 /\ pc'[p] = "del_wait"
      BY <1>1, <2>2, <2>3 DEF DeleteForbid, Store, Goto, PCs, Structs
    <3>. QED
      BY <2>1, <2>2, <3>1 DEF Safe, Exclusion, CallExclusion, EndedForbidsCalls, PastWait,
           InCall, Processes, Threads
  <2>4. CASE DeleteWait(p) \/ DeleteGiveUp(p)
    <3>1. ~InCall
      BY <2>4 DEF DeleteWait, DeleteGiveUp, Safe, Exclusion, InCall, CallPCs
    <3>2. pc[p] = "del_wait" /\ pc'[p] = "del_lock" /\ pah' = pah
      BY <1>1, <2>2, <2>4 DEF DeleteWait, DeleteGiveUp, Move, Goto, PCs
    <3>. QED
      BY <2>1, <2>2, <3>1, <3>2 DEF Safe, Exclusion, CallExclusion, EndedForbidsCalls,
           PastWait, InCall, Processes, Threads
  <2>5. CASE DeleteMark(p)
    <3>1. /\ pc[p] = "del_mark" /\ pc'[p] = "del_unlock"
          /\ pah'.okey_to_call = pah.okey_to_call
      BY <1>1, <2>2, <2>5 DEF DeleteMark, Store, Goto, PCs, Structs
    <3>. QED
      BY <2>1, <2>2, <3>1 DEF Safe, Exclusion, CallExclusion, EndedForbidsCalls, PastWait,
           InCall, Processes, Threads
  <2>6. CASE \/ DeleteBegin(p) \/ DeleteLock(p) \/ DeleteLockFails(p) \/ DeleteStatus(p)
             \/ DeleteUnlock(p) \/ DeleteJoin(p) \/ DeleteClose(p)
    <3>1. /\ PastWait(p)' => PastWait(p)
          /\ pc'[p] \notin {"del_wait", "del_forbid_late"} /\ pah' = pah
      BY <1>1, <2>2, <2>6 DEF DeleteBegin, DeleteLock, DeleteLockFails, DeleteStatus,
         DeleteUnlock, DeleteJoin, DeleteClose, Closing, LockAs, Move, Goto, PCs, PastWait
    <3>. QED
      BY <2>1, <2>2, <3>1 DEF Safe, Exclusion, CallExclusion, EndedForbidsCalls, PastWait,
           InCall, Processes, Threads
  <2>. QED
    BY <1>10, <2>3, <2>4, <2>5, <2>6 DEF DeleteStep, DeleteLookReordered,
         DeleteForbidLate, Store, Goto, Safe, Exclusion
<1>11. ASSUME NEW p \in Processes, Crash(p)
       PROVE  Safe'
  <2>1. \A t \in Threads : pc'[t] \in {pc[t], "dead"}
    BY <1>11 DEF Crash
  <2>2. pah' = pah
    BY <1>11 DEF Crash, Closing
  <2>. QED
    BY <2>1, <2>2 DEF Safe, Exclusion, CallExclusion, EndedForbidsCalls, PastWait, InCall,
         CallPCs, Processes, Threads
<1>12. CASE UNCHANGED vars
  BY <1>12 DEF vars, Safe, Exclusion, CallExclusion, EndedForbidsCalls, PastWait, InCall
<1>. QED
  BY <1>2, <1>3, <1>4, <1>5, <1>6, <1>7, <1>8, <1>9, <1>10, <1>11, <1>12 DEF Next, HostStep, PluginStep

(***************************************************************************)
(* The invariant of an orderly exchange: types, the order of starting up,  *)
(* exclusion.                                                              *)
(***************************************************************************)
Orderly == TypeOK /\ InputKept /\ Opened /\ InOrder /\ Safe

\* It holds at first.
LEMMA InitOrderly == Init => Orderly
<1>. SUFFICES ASSUME Init PROVE InputKept /\ Opened /\ InOrder /\ Safe
  BY InitType DEF Orderly
<1>1. InputKept /\ Opened
  BY DEF Init, InputKept, Opened, Processes
<1>2. InOrder
  BY DEF Init, InOrder, Handshake, PluginPCs, DeletePCs
<1>3. Safe
  BY DEF Init, Safe, Exclusion, CallExclusion, EndedForbidsCalls, PastWait, InCall,
       CallPCs, Processes
<1>. QED
  BY <1>1, <1>2, <1>3

\* Every step keeps it.
LEMMA OrderlyStep ==
  ASSUME ~GivesUp, ~Reorders
  PROVE  Orderly /\ InTime /\ [Next]_vars => Orderly'
BY TypeStep, InputKeptStep, OpenedStep, InOrderStep, SafeStep DEF Orderly

\* So it holds for ever.
LEMMA AlwaysOrderly ==
  ASSUME ~GivesUp, ~Reorders, ~EarlyDelete
  PROVE  Spec => []Orderly
<1>1. Orderly /\ [Next]_vars => Orderly'
  BY OrderlyStep, DeletesInTime
<1>. QED
  BY <1>1, InitOrderly, PTL DEF Spec

\* A call is never past its look at okey_to_call while a delete is past its wait,
\* on whichever side: neither side frees buffers or closes pipes a call is using.
\* It needs a callback that ends within the 50000 us a delete waits, stores that
\* are seen in order, and a plugin that is not deleted while the host starts; that
\* either process dies at any point does not matter.
THEOREM CallsExcluded ==
  ASSUME ~GivesUp, ~Reorders, ~EarlyDelete
  PROVE  Spec => []CallExclusion
BY AlwaysOrderly, PTL DEF Orderly, Safe

\* Under the same conditions no call is allowed any more once the exchange is
\* marked as ended.
THEOREM EndedIsFinal ==
  ASSUME ~GivesUp, ~Reorders, ~EarlyDelete
  PROVE  Spec => []EndedForbidsCalls
BY AlwaysOrderly, PTL DEF Orderly, Safe

-----------------------------------------------------------------------------
(***************************************************************************)
(* Starting up.                                                            *)
(***************************************************************************)
\* What is on the way to the plugin until it has read the host's word.
Starting ==
  /\ pc["plugin"] \in {"init", "status"} =>
       \/ pipe["plugin"] = <<>> /\ pc["host"] \in {"create", "tell", "dead"}
       \/ pipe["plugin"] = Word("thread") /\ pc["host"] \in {"confirmation", "dead"}
       \/ /\ pipe["plugin"] # <<>> /\ pipe["plugin"][1].kind = "no_thread"
          /\ pc["host"] \in DeletePCs \cup {"freed", "dead"}
  /\ pc["plugin"] \in {"create", "tell"} =>
       pipe["plugin"] = <<>> /\ pc["host"] \in {"confirmation", "dead"}
  /\ pc["plugin"] \in {"init", "status", "create"} => pc["server"] = "none"
  /\ pc["plugin"] = "tell" => pc["server"] \in {"receive", "ended"}
  /\ pc["plugin"] \in PluginPCs \/ (pc["host"] = "allow" /\ pc["server"] # "dead") =>
       pipe["control"] = <<>> /\ pc["control"] \in {"none", "receive", "dead"}
  /\ pc["plugin"] = "dead" <=> pc["server"] = "dead"
  /\ pc["host"] = "dead" <=> pc["caller"] = "dead"
  /\ pc["host"] = "dead" <=> pc["control"] = "dead"
  /\ pc["host"] \in {"create", "tell", "confirmation"} =>
       pipe["host"] \in {<<>>, Word("thread"), Word("no_thread")}
  /\ pc["host"] = "allow" =>
       /\ pipe["host"] = <<>>
       /\ pc["server"] = "dead" \/ (pc["server"] = "receive" /\ pipe["plugin"] = <<>>)
  /\ usable => pc["host"] \in {"up"} \cup DeletePCs
  /\ pc["caller"] \notin {"idle", "dead"} => usable \/ pc["host"] = "freed"
  /\ pc["host"] = "up" => pc["server"] # "none"

\* The two buffers on each way: the reader's holds what the writer's may send.
Sized ==
  /\ 1 <= buf.senddatasize_max /\ buf.senddatasize_max <= buf.plugin_receivedatasize
  /\ 1 <= buf.returndatasize_max /\ buf.returndatasize_max <= buf.receivedatasize

\* Before calls are allowed nobody has called or changed a buffer.
Fresh == pc["host"] \in HostPCs => pah.h2p_datasize = 0 /\ Sized

\* The call thread runs, and the host has heard of it.
Made == pc["server"] \notin {"none", "dead"}
Running == Made /\ pc["host"] \in {"allow", "up"} \cup DeletePCs

(***************************************************************************)
(* Ending.                                                                 *)
(***************************************************************************)
Told == pah.status = 1 \/ \E p \in Processes : pc[p] = "del_mark"

\* The plugin has asked the control thread to end the call thread.
PluginTells == pipe["control"] = Word("deleting") \/ pc["control"] \in {"header", "send"}

\* A process is open until it frees itself, and the host joins its thread first.
Joined ==
  /\ \A p \in Processes : p \in open <=> pc[p] \notin {"freed", "dead"}
  /\ pc["host"] \in {"del_close", "freed"} => pc["control"] \in {"none", "ended"}

Tells ==
  /\ \A p \in Processes :
       /\ pc[p] \in {"del_header", "del_send"} => ~Told
       /\ pc[p] \in {"del_unlock", "del_join", "del_close", "freed"} => pah.status = 1
  /\ PluginTells => Told /\ PastWait("plugin") /\ pah.h2p_datasize # -1
  /\ ~Told => pipe["control"] = <<>> /\ pc["control"] \in {"none", "receive"}
  /\ pah.h2p_datasize = -1 => Told \/ pc["host"] = "del_send"
  /\ pc["host"] = "del_send" => pah.h2p_datasize = -1
  /\ pc["control"] = "send" => pah.h2p_datasize = 0 /\ pipe["control"] = <<>>
  /\ \/ pipe["control"] = <<>>
     \/ pipe["control"] = Word("deleting") /\ pc["control"] \in {"none", "receive"}
     \/ pipe["control"] = Word("stopped") /\ pc["server"] = "ended"

\* Nothing is on its way to the call thread.
Rests == pc["server"] = "receive" /\ pipe["plugin"] = <<>>

Ends ==
  ~InCall =>
    /\ ~Told \/ PluginTells => Rests
    /\ pc["server"] \in {"receive", "header", "stop", "ended"}
    /\ pc["server"] = "header" \/ pipe["plugin"] # <<>> => pah.h2p_datasize \in {0, -1}

(***************************************************************************)
(* What the call thread knows.                                             *)
(***************************************************************************)
Matches(message) ==
  \/ pah.h2p_datasize > 0 /\ message = Message("data", calls, pah.h2p_datasize)
  \/ pah.h2p_datasize < -1 /\ message = Word("grow")
  \/ pah.h2p_datasize \in {0, -1} /\ message = Word("stop")

Answering == {"too_big", "ask", "asked", "answer", "reply"}

Serves ==
  /\ pipe["plugin"] # <<>> =>
       \/ /\ pc["server"] = "receive" /\ Matches(pipe["plugin"])
          /\ Len(pipe["plugin"]) <= buf.plugin_receivedatasize
       \/ pc["server"] = "asked" /\ pipe["plugin"] = Word("go_on")
  /\ pc["server"] = "header" => Matches(input)
  /\ pc["server"] = "stop" => pah.h2p_datasize \in {0, -1}
  /\ pc["server"] \in Answering => input[1].call = calls
  /\ pc["server"] \in {"too_big", "ask", "asked"} => reply > buf.returndatasize_max
  /\ pc["server"] \in {"answer", "reply"} => reply <= buf.returndatasize_max
  /\ pc["server"] \in {"ask", "asked"} => pah.p2h_datasize = -reply
  /\ pc["server"] = "reply" => pah.p2h_datasize = reply

(***************************************************************************)
(* What the call knows.                                                    *)
(***************************************************************************)
Answer == Message("answer", calls, IF reply = 0 THEN 1 ELSE reply)

Arrived(message) == Rests /\ message = Answer /\ pah.p2h_datasize = reply

Grows ==
  /\ pah.h2p_datasize = -request /\ request > buf.senddatasize_max
  /\ \/ /\ pc["server"] = "receive" /\ pipe["plugin"] = Word("grow")
        /\ pipe["host"] = <<>>
     \/ pc["server"] = "header" /\ pipe["host"] = <<>>
     \/ /\ pc["server"] = "enlarged" /\ pipe["host"] = <<>>
        /\ buf.plugin_receivedatasize = request
     \/ /\ Rests /\ pipe["host"] = Word("grown")
        /\ buf.plugin_receivedatasize = request

Asks ==
  /\ pah.h2p_datasize = request
  /\ \/ /\ pc["server"] = "receive" /\ pipe["plugin"] = Message("data", calls, request)
        /\ pipe["host"] = <<>>
     \/ /\ pc["server"] \in {"header", "too_big", "ask", "answer", "reply"}
        /\ pipe["host"] = <<>>
     \/ /\ pc["server"] = "asked" /\ pipe["plugin"] = <<>>
        /\ pipe["host"] = Word("enlarge")
     \/ Arrived(pipe["host"])

AsksAgain ==
  \/ /\ pc["server"] = "asked" /\ pipe["plugin"] = Word("go_on") /\ pipe["host"] = <<>>
     /\ buf.receivedatasize = reply
  \/ pc["server"] \in {"answer", "reply"} /\ pipe["host"] = <<>>
  \/ Arrived(pipe["host"])

Calls ==
  /\ pc["caller"] \in CallPCs \cup {"check"} => request > 0
  /\ pc["caller"] \in {"fit", "grow_send", "send"} => Rests
  /\ pc["caller"] = "grow_send" =>
       pah.h2p_datasize = -request /\ request > buf.senddatasize_max
  /\ pc["caller"] = "send" =>
       pah.h2p_datasize = request /\ request <= buf.senddatasize_max
  /\ pc["caller"] = "grow_answer" => Grows
  /\ pc["caller"] = "receive" => Asks
  /\ pc["caller"] = "size" =>
       \/ pc["server"] = "asked" /\ pipe["plugin"] = <<>> /\ output = Word("enlarge")
       \/ Arrived(output)
  /\ pc["caller"] = "go_on" =>
       /\ pc["server"] = "asked" /\ pipe["plugin"] = <<>>
       /\ buf.receivedatasize = reply
  /\ pc["caller"] = "receive_again" => AsksAgain
  /\ pc["caller"] = "return" => Arrived(output)

\* How much the next read of the host takes.
Capacity ==
  IF pc["caller"] \in {"receive", "receive_again"} THEN buf.receivedatasize
  ELSE IF pc["caller"] = "grow_answer" THEN 1 ELSE 0

Fits == usable => Len(pipe["host"]) <= Capacity

Flows ==
  /\ Fits
  /\ Made => Serves
  /\ Running => Tells /\ Ends /\ Calls /\ Sized

Standing == Starting /\ Fresh /\ DeletesLocked /\ Joined

(***************************************************************************)
(* Messages.                                                               *)
(***************************************************************************)
\* The length of a message, and what its units are.
LEMMA MessageFacts ==
  ASSUME NEW kind, NEW n, NEW size \in Nat
  PROVE  /\ Len(Message(kind, n, size)) = size
         /\ size > 0 => /\ Message(kind, n, size) # <<>>
                        /\ Message(kind, n, size)[1].kind = kind
                        /\ Message(kind, n, size)[1].call = n
         /\ <<>> \o Message(kind, n, size) = Message(kind, n, size)
<1>. DEFINE unit == [kind |-> kind, call |-> n]
            message == [i \in 1..size |-> unit]
<1>1. Message(kind, n, size) = message
  BY DEF Message
<1>2. unit.kind = kind /\ unit.call = n
  OBVIOUS
<1>. HIDE DEF unit
<1>3. message \in Seq({unit}) /\ Len(message) = size
  OBVIOUS
<1>4. size > 0 => message[1] = unit /\ 1 \in DOMAIN message
  OBVIOUS
<1>5. size > 0 => message # <<>>
  BY <1>3
<1>. HIDE DEF message
<1>6. <<>> \o message = message
  BY <1>3, ConcatEmptySeq
<1>. QED
  BY <1>1, <1>2, <1>3, <1>4, <1>5, <1>6

\* A read into a buffer that is big enough takes everything.
LEMMA ReadAll ==
  ASSUME TypeOK, NEW to \in {"plugin", "host", "control"}, NEW n \in Nat,
         Len(pipe[to]) <= n
  PROVE  Got(to, n) = pipe[to] /\ Left(to, n) = <<>>
<1>1. pipe[to] \in Seq(Units)
  BY DEF TypeOK, Pipes
<1>2. Len(pipe[to]) \in Nat
  BY <1>1, LenProperties
<1>3. Least(n, Len(pipe[to])) = Len(pipe[to])
  BY <1>2 DEF Least
<1>4. SubSeq(pipe[to], 1, Len(pipe[to])) = pipe[to]
  BY <1>1, SubSeqFull
<1>5. SubSeq(pipe[to], Len(pipe[to]) + 1, Len(pipe[to])) = <<>>
  BY <1>2, SubSeqEmpty
<1>. QED
  BY <1>3, <1>4, <1>5 DEF Got, Left

\* An int that is read from an empty pipe leaves it empty.
LEMMA ReadNothing ==
  ASSUME TypeOK, NEW to \in {"plugin", "host", "control"}, pipe[to] = <<>>
  PROVE  Got(to, 1) = <<>> /\ Left(to, 1) = <<>>
<1>1. Len(pipe[to]) <= 1
  OBVIOUS
<1>. QED
  BY <1>1, ReadAll

(***************************************************************************)
(* Starting up.                                                            *)
(***************************************************************************)
\* A call is made in an exchange that is up.
LEMMA CallerUp ==
  ASSUME Orderly, Starting, CallStart \/ CallStep
  PROVE  /\ pc["plugin"] \notin PluginPCs /\ pc["host"] \notin HostPCs
         /\ pc["host"] # "dead" /\ pc["caller"] # "dead"
         /\ InCall => usable
         /\ InCall \/ InCall' => pc["host"] \in {"up"} \cup DeletePCs
<1>1. pc \in PCs
  BY DEF Orderly, TypeOK
<1>2. usable \/ pc["caller"] \notin {"idle", "dead"}
  BY CallFrame DEF Orderly
<1>3. pc["caller"] # "dead"
  BY CallFrame DEF Orderly
<1>4. /\ pc["plugin"] \notin PluginPCs /\ pc["host"] \notin HostPCs
      /\ pc["host"] # "dead"
  BY <1>2, <1>3 DEF Orderly, Opened, InOrder, Starting
<1>5. InCall => usable
  BY DEF InCall, CallPCs, Orderly, Safe, CallExclusion, PastWait, Starting, Processes
<1>6. InCall \/ InCall' => pc["host"] # "freed"
  <2>1. pc'["host"] = pc["host"]
    BY CallFrame DEF Orderly, Threads
  <2>2. CASE InCall
    BY <2>2 DEF Orderly, Safe, CallExclusion, PastWait, Processes
  <2>3. CASE InCall' /\ ~InCall
    <3>1. pah.okey_to_call # 0
      BY <1>1, <2>3 DEF Orderly, Safe, Exclusion, InCall, CallPCs, CallStart, CallEnter,
           CallEnterReordered, CallStep, CallAnnounce, CallCheck, CallRefuse, CallGrow,
           CallGrowSend, CallGrowAnswer, CallHeader, CallSend, CallReceive, CallEnlarge,
           CallGoOn, CallReceiveAgain, CallAccept, CallReturn, CallRead, Move, Store,
           Write, ReadInt, Goto, PCs
    <3>. QED
      BY <3>1 DEF Orderly, Safe, Exclusion, PastWait, Processes
  <2>. QED
    BY <2>2, <2>3
<1>. QED
  BY <1>1, <1>3, <1>4, <1>5, <1>6 DEF PCs, HostPCs

\* The call thread does nothing before the host allows calls.
LEMMA ServerUp ==
  ASSUME Orderly, Starting, ServerStep
  PROVE  pc["host"] \notin HostPCs
<1>1. /\ TypeOK /\ pc \in PCs
      /\ pc["host"] \in HostPCs => "host" \in open
  BY DEF Orderly, TypeOK, Opened
<1>2. /\ pc["server"] \notin {"none", "ended", "dead"}
      /\ pc["server"] = "receive" => Readable("plugin")
  BY <1>1, ServerFrame
<1>3. CASE pc["host"] \in {"create", "tell", "confirmation"}
  <2>1. Handshake /\ pc["plugin"] \in PluginPCs \cup {"up", "freed", "dead"} \cup DeletePCs
    BY <1>1, <1>3 DEF Orderly, InOrder, PCs
  <2>2. pc["plugin"] \in PluginPCs \cup {"up"}
    <3>1. /\ pc["plugin"] \in DeletePCs \cup {"freed"} => pc["server"] = "none"
          /\ pc["plugin"] = "dead" => pc["server"] = "dead"
      BY <2>1 DEF Handshake
    <3>. QED
      BY <1>2, <2>1, <3>1
  <2>3. pc["server"] = "receive" /\ pipe["plugin"] = <<>>
    BY <1>2, <2>1, <2>2 DEF Handshake, PluginPCs
  <2>. QED
    BY <1>1, <1>2, <1>3, <2>3 DEF Readable, HostPCs
<1>4. CASE pc["host"] = "allow"
  <2>1. pc["server"] = "receive" /\ pipe["plugin"] = <<>>
    BY <1>2, <1>4 DEF Starting
  <2>. QED
    BY <1>1, <1>2, <1>4, <2>1 DEF Readable, HostPCs
<1>. QED
  BY <1>3, <1>4 DEF HostPCs

\* Until the plugin has read the host's word nothing else is on its way to it.
LEMMA StartingStep ==
  ASSUME ~GivesUp, ~Reorders, InTime, Orderly, Starting, [Next]_vars
  PROVE  Starting'
<1>1. /\ pc \in PCs /\ pah \in Structs /\ pipe \in Pipes /\ TypeOK
      /\ pc["host"] \in HostPCs =>
           "host" \in open /\ ~usable /\ pc["caller"] = "idle"
      /\ pc["plugin"] \in PluginPCs \cup {"up"} => "plugin" \in open
  BY DEF Orderly, TypeOK, Opened, HostPCs, PluginPCs
<1>2. CASE CallStart \/ CallStep
  <2>1. /\ \A t \in Threads \ {"caller"} : pc'[t] = pc[t]
        /\ UNCHANGED <<lock, open, usable>> /\ pc["caller"] # "dead"
    BY <1>1, <1>2, CallFrame
  <2>2. pc'["caller"] # "dead" /\ (pc["caller"] = "idle" => usable)
    BY <1>1, <1>2, CallFrame DEF CallStart, CallEnter, CallEnterReordered, CallStep,
       CallAnnounce, CallCheck, CallRefuse, CallGrow, CallGrowSend, CallGrowAnswer,
       CallHeader, CallSend, CallReceive, CallEnlarge, CallGoOn, CallReceiveAgain,
       CallAccept, CallReturn, CallRead, Move, Store, Write, ReadInt, Goto, PCs
  <2>3. pc["plugin"] \notin PluginPCs /\ pc["host"] \notin HostPCs
    BY <1>2, CallerUp
  <2>. QED
    BY <2>1, <2>2, <2>3 DEF Starting, Threads, PluginPCs, HostPCs
<1>3. CASE ServerStep
  <2>1. /\ \A t \in Threads \ {"server"} : pc'[t] = pc[t]
        /\ UNCHANGED <<lock, open, usable>>
        /\ pc["server"] \notin {"none", "ended", "dead"}
        /\ pc["server"] = "receive" => Readable("plugin")
    BY <1>1, <1>3, ServerFrame
  <2>2. pc'["server"] \notin {"none", "dead"}
    BY <1>1, <1>3 DEF ServerStep, ServerReceive, ServerEnd, ServerStop, ServerEnlarge,
       ServerEnlarged, ServerMismatch, ServerCallback, ServerTooBig, ServerAsk,
       ServerAsked, ServerAnswer, ServerReply, Move, Store, Write, ReadInt, Goto, PCs
  <2>3. pc["host"] \notin HostPCs
    BY <1>3, ServerUp
  <2>4. pc["plugin"] \notin {"init", "status", "create"}
    BY <2>1 DEF Starting
  <2>5. pc["plugin"] = "tell" =>
          pipe'["plugin"] = <<>> /\ pipe'["control"] = <<>> /\ pc'["server"] = "ended"
    <3>. SUFFICES ASSUME pc["plugin"] = "tell"
                  PROVE  /\ pipe'["plugin"] = <<>> /\ pipe'["control"] = <<>>
                         /\ pc'["server"] = "ended"
      OBVIOUS
    <3>1. pipe["plugin"] = <<>> /\ pipe["control"] = <<>> /\ pc["server"] = "receive"
      BY <2>1 DEF Starting, PluginPCs
    <3>2. buf.plugin_receivedatasize \in Nat /\ Len(pipe["plugin"]) = 0
      BY <1>1, <3>1 DEF TypeOK, Buffers
    <3>3. Left("plugin", buf.plugin_receivedatasize) = <<>>
      BY <1>1, <3>1, <3>2, ReadAll
    <3>4. ServerReceive
      BY <1>3, <3>1 DEF ServerStep, ServerEnd, ServerStop, ServerEnlarge,
         ServerEnlarged, ServerMismatch, ServerCallback, ServerTooBig, ServerAsk,
         ServerAsked, ServerAnswer, ServerReply, Move, Store, Write, ReadInt, Goto
    <3>. QED
      BY <1>1, <3>1, <3>3, <3>4 DEF ServerReceive, Goto, Pipes, PCs
  <2>. QED
    BY <2>1, <2>2, <2>3, <2>4, <2>5 DEF Starting, Threads, HostPCs, PluginPCs
<1>4. CASE ControlStep
  <2>1. /\ \A t \in Threads \ {"control"} : pc'[t] = pc[t]
        /\ UNCHANGED <<lock, open, usable>> /\ pipe'["host"] = pipe["host"]
        /\ pc["control"] \notin {"none", "ended", "dead"}
        /\ pc["control"] = "receive" => Readable("control")
    BY <1>1, <1>4, ControlFrame
  <2>2. pc'["control"] # "dead"
    BY <1>1, <1>4 DEF ControlStep, ControlReceive, ControlHeader, ControlSend, Store,
       Write, ReadInt, Goto, PCs
  <2>3. pc["plugin"] \notin PluginPCs /\ ~(pc["host"] = "allow" /\ pc["server"] # "dead")
    <3>. SUFFICES ASSUME \/ pc["plugin"] \in PluginPCs
                         \/ pc["host"] = "allow" /\ pc["server"] # "dead"
                  PROVE  FALSE
      OBVIOUS
    <3>1. pipe["control"] = <<>> /\ pc["control"] = "receive"
      BY <2>1 DEF Starting
    <3>2. "plugin" \in open
      <4>1. pc["host"] = "allow" => pc["plugin"] \in {"up", "dead"}
        BY DEF Orderly, InOrder
      <4>2. pc["plugin"] = "dead" <=> pc["server"] = "dead"
        BY DEF Starting
      <4>. QED
        BY <1>1, <4>1, <4>2
    <3>. QED
      BY <2>1, <3>1, <3>2 DEF Readable
  <2>5. /\ pc'["host"] = pc["host"] /\ pc'["caller"] = pc["caller"]
        /\ pc'["plugin"] = pc["plugin"] /\ pc'["server"] = pc["server"]
    BY <2>1 DEF Threads
  <2>. QED
    BY <2>1, <2>2, <2>3, <2>5 DEF Starting, PluginPCs
<1>5. CASE HostStep
  <2>1. /\ \A t \in {"plugin", "caller", "server"} : pc'[t] = pc[t]
        /\ UNCHANGED open /\ pc["host"] # "up"
        /\ ~HostAllow => UNCHANGED usable
    BY <1>1, <1>5, HostFrame
  <2>2. CASE HostCreateThread
    <3>1. /\ pc["host"] = "create" /\ pc'["host"] = "tell" /\ pc'["control"] = "receive"
          /\ UNCHANGED <<pipe, usable>>
      BY <1>1, <2>2 DEF HostCreateThread, PCs
    <3>. QED
      BY <1>1, <2>1, <3>1 DEF Starting, HostPCs, PluginPCs, DeletePCs
  <2>3. CASE HostCannotCreateThread \/ HostTell
    <3>. DEFINE word == IF pc["host"] = "create" THEN "no_thread" ELSE "thread"
    <3>1. /\ pc["host"] \in {"create", "tell"} /\ pc'["control"] = pc["control"]
          /\ pc'["host"] = IF pc["host"] = "create" THEN "del_forbid" ELSE "confirmation"
          /\ pipe'["host"] = pipe["host"] /\ pipe'["control"] = pipe["control"]
          /\ "plugin" \in open => pipe'["plugin"] = pipe["plugin"] \o Word(word)
          /\ UNCHANGED usable
      BY <1>1, <2>3 DEF HostCannotCreateThread, HostTell, Write, Goto, PCs, Pipes
    <3>2. pc["plugin"] \in {"init", "status", "dead"}
      BY <3>1 DEF Orderly, InOrder, Handshake
    <3>3. pc["plugin"] \in {"init", "status"} => pipe'["plugin"] = Word(word)
      BY <1>1, <3>1, WordFacts DEF Starting, PluginPCs, DeletePCs
    <3>4. Word(word) # <<>> /\ Word(word)[1].kind = word
      BY WordFacts
    <3>. HIDE DEF word
    <3>5. pc["host"] = "create" => word = "no_thread"
      BY DEF word
    <3>6. pc["host"] = "tell" => word = "thread"
      BY DEF word
    <3>. QED
      BY <1>1, <2>1, <3>1, <3>2, <3>3, <3>4, <3>5, <3>6 DEF Starting, PluginPCs, HostPCs,
         DeletePCs
  <2>4. CASE HostConfirmation
    <3>1. /\ pc["host"] = "confirmation" /\ pc'["host"] \in {"allow", "del_forbid"}
          /\ pc'["control"] = pc["control"] /\ Readable("host")
          /\ pipe'["host"] = Left("host", 1) /\ pipe'["plugin"] = pipe["plugin"]
          /\ pipe'["control"] = pipe["control"] /\ UNCHANGED usable
          /\ pipe["host"] = Word("no_thread") => pc'["host"] = "del_forbid"
      <4>1. Word("no_thread") # <<>> /\ Word("no_thread")[1].kind = "no_thread"
        BY WordFacts
      <4>. QED
        BY <1>1, <2>4, <4>1 DEF HostConfirmation, ReadInt, IntKinds, Goto, PCs, Pipes
    <3>2. /\ Handshake
          /\ pc["plugin"] \in PluginPCs \cup {"up", "freed", "dead"} \cup DeletePCs
      BY <1>1, <3>1 DEF Orderly, InOrder, PCs
    <3>3. pc["plugin"] \notin PluginPCs
      <4>1. pc["plugin"] \in PluginPCs => pipe["host"] = <<>> /\ "plugin" \in open
        BY <1>1, <3>2 DEF Handshake, PluginPCs
      <4>. QED
        BY <3>1, <4>1 DEF Readable
    <3>4. pipe'["host"] = <<>>
      <4>1. pipe["host"] \in {<<>>, Word("thread"), Word("no_thread")}
        BY <3>1 DEF Starting
      <4>2. pipe["host"] = <<>> => Left("host", 1) = <<>>
        BY <1>1, ReadNothing
      <4>. QED
        BY <3>1, <4>1, <4>2, WordFacts
    <3>5. \/ pc'["host"] = "del_forbid"
          \/ pc["server"] = "dead"
          \/ /\ pc["server"] = "receive" /\ pipe["plugin"] = <<>>
             /\ pipe["control"] = <<>> /\ pc["control"] \in {"none", "receive"}
      <4>1. CASE pc["plugin"] = "up"
        BY <3>2, <4>1 DEF Handshake, PluginPCs
      <4>2. CASE pc["plugin"] \in DeletePCs \cup {"freed"}
        BY <3>1, <3>2, <4>2 DEF Handshake
      <4>3. CASE pc["plugin"] = "dead"
        BY <4>3 DEF Starting
      <4>. QED
        BY <3>2, <3>3, <4>1, <4>2, <4>3
    <3>. QED
      BY <1>1, <2>1, <3>1, <3>3, <3>4, <3>5 DEF Starting, HostPCs, PluginPCs, DeletePCs
  <2>5. CASE HostAllow
    <3>1. /\ pc["host"] = "allow" /\ pc'["host"] = "up" /\ pc'["control"] = pc["control"]
          /\ UNCHANGED pipe /\ usable'
      BY <1>1, <2>5 DEF HostAllow, Goto, PCs
    <3>2. pc["plugin"] \notin PluginPCs
      BY <3>1 DEF Orderly, InOrder
    <3>. QED
      BY <2>1, <3>1, <3>2 DEF Starting, PluginPCs
  <2>6. CASE HostDeleteHeader
    <3>1. /\ pc["host"] = "del_header" /\ pc'["host"] = "del_send"
          /\ pc'["control"] = pc["control"] /\ UNCHANGED <<pipe, usable>>
      BY <1>1, <2>6 DEF HostDeleteHeader, Store, Goto, PCs
    <3>. QED
      BY <2>1, <3>1 DEF Starting, DeletePCs
  <2>7. CASE HostDeleteSend
    <3>1. /\ pc["host"] = "del_send" /\ pc'["host"] \in {"del_mark", "del_unlock"}
          /\ pc'["control"] = pc["control"] /\ UNCHANGED usable
          /\ pipe'["host"] = pipe["host"] /\ pipe'["control"] = pipe["control"]
          /\ pipe'["plugin"] \in {pipe["plugin"], pipe["plugin"] \o Word("stop")}
      BY <1>1, <2>7 DEF HostDeleteSend, Write, Goto, PCs, Pipes
    <3>2. pipe["plugin"] # <<>> =>
            pipe'["plugin"] # <<>> /\ pipe'["plugin"][1] = pipe["plugin"][1]
      <4>1. pipe["plugin"] \in Seq(Units) /\ Word("stop") \in Seq(Units)
        BY <1>1, MessageType DEF Pipes, Word, MessageKinds
      <4>. HIDE <3>1
      <4>2. pipe["plugin"] # <<>> =>
              /\ pipe["plugin"] \o Word("stop") # <<>>
              /\ (pipe["plugin"] \o Word("stop"))[1] = pipe["plugin"][1]
        BY <4>1
      <4>. QED
        BY <3>1, <4>2
    <3>. QED
      BY <2>1, <3>1, <3>2 DEF Starting, DeletePCs, PluginPCs
  <2>. QED
    BY <1>5, <2>2, <2>3, <2>4, <2>5, <2>6, <2>7 DEF HostStep
<1>6. CASE PluginStep
  <2>1. /\ \A t \in {"host", "caller", "control"} : pc'[t] = pc[t]
        /\ UNCHANGED <<open, usable>>
    BY <1>1, <1>6, PluginFrame
  <2>2. CASE PluginInit
    <3>1. /\ pc["plugin"] = "init" /\ pc'["plugin"] = "status"
          /\ pc'["server"] = pc["server"] /\ UNCHANGED pipe
      BY <1>1, <2>2 DEF PluginInit, Goto, PCs
    <3>. QED
      BY <2>1, <3>1 DEF Starting, PluginPCs
  <2>3. CASE PluginStatus
    <3>1. /\ pc["plugin"] = "status" /\ pc'["plugin"] \in {"create", "del_forbid"}
          /\ pc'["server"] = pc["server"] /\ Readable("plugin")
          /\ pipe'["plugin"] = Left("plugin", 1) /\ pipe'["host"] = pipe["host"]
          /\ pipe'["control"] = pipe["control"]
          /\ pipe["plugin"] # <<>> /\ pipe["plugin"][1].kind = "no_thread" =>
               pc'["plugin"] = "del_forbid"
      BY <1>1, <2>3 DEF PluginStatus, ReadInt, IntKinds, Goto, PCs, Pipes
    <3>2. pc'["plugin"] = "create" =>
            pipe'["plugin"] = <<>> /\ pc["host"] \in {"confirmation", "dead"}
      <4>1. CASE pipe["plugin"] = <<>>
        <5>1. "host" \notin open /\ Left("plugin", 1) = <<>>
          BY <1>1, <3>1, <4>1, ReadNothing DEF Readable
        <5>. QED
          BY <1>1, <3>1, <4>1, <5>1, WordFacts DEF Starting, HostPCs
      <4>2. CASE pipe["plugin"] # <<>>
        BY <3>1, <4>2, WordFacts DEF Starting
      <4>. QED
        BY <4>1, <4>2
    <3>. QED
      BY <2>1, <3>1, <3>2 DEF Starting, PluginPCs, DeletePCs
  <2>4. CASE PluginCreateThread
    <3>1. /\ pc["plugin"] = "create" /\ pc'["plugin"] = "tell"
          /\ pc'["server"] = "receive" /\ UNCHANGED pipe
      BY <1>1, <2>4 DEF PluginCreateThread, Goto, PCs
    <3>. QED
      BY <2>1, <3>1 DEF Starting, PluginPCs
  <2>5. CASE PluginCannotCreateThread \/ PluginTell
    <3>. DEFINE word == IF pc["plugin"] = "create" THEN "no_thread" ELSE "thread"
    <3>1. /\ pc["plugin"] \in {"create", "tell"} /\ pc'["plugin"] \in {"del_forbid", "up"}
          /\ pc'["server"] = pc["server"] /\ pipe'["plugin"] = pipe["plugin"]
          /\ pipe'["control"] = pipe["control"]
          /\ "host" \in open => pipe'["host"] = pipe["host"] \o Word(word)
      BY <1>1, <2>5 DEF PluginCannotCreateThread, PluginTell, Write, Goto, PCs, Pipes
    <3>2. pc["host"] \in {"confirmation", "dead"}
      BY <3>1 DEF Starting
    <3>3. pc["host"] = "confirmation" => pipe'["host"] = Word(word)
      <4>1. pc["host"] = "confirmation" => pipe["host"] = <<>> /\ "host" \in open
        BY <1>1, <3>1 DEF Orderly, InOrder, Handshake, PluginPCs, HostPCs
      <4>. QED
        BY <3>1, <4>1, WordFacts
    <3>4. pc["host"] = "dead" => pc["control"] = "dead"
      BY DEF Starting
    <3>5. pc["server"] # "dead" /\ pc'["plugin"] # "dead"
      BY <1>1, <3>1 DEF Starting
    <3>. QED
      BY <2>1, <3>1, <3>2, <3>3, <3>4, <3>5 DEF Starting, PluginPCs
  <2>6. CASE PluginDeleteSend
    <3>1. /\ pc["plugin"] = "del_send" /\ pc'["plugin"] \in {"del_mark", "del_unlock"}
          /\ pc'["server"] = pc["server"] /\ pipe'["plugin"] = pipe["plugin"]
          /\ pipe'["host"] = pipe["host"]
      BY <1>1, <2>6 DEF PluginDeleteSend, Write, Goto, PCs, Pipes
    <3>2. pc["host"] # "allow"
      BY <3>1 DEF Orderly, InOrder
    <3>. QED
      BY <2>1, <3>1, <3>2 DEF Starting, PluginPCs
  <2>. QED
    BY <1>6, <2>2, <2>3, <2>4, <2>5, <2>6 DEF PluginStep
<1>7. ASSUME NEW p \in Processes, DeleteBegin(p) \/ DeleteStep(p)
      PROVE  Starting'
  <2>1. /\ \A t \in Threads \ {p} : pc'[t] = pc[t]
        /\ pc[p] \in DeletePCs \cup {"up"} /\ pc'[p] \in DeletePCs \cup {"freed"}
        /\ UNCHANGED pipe
        /\ pc'[p] # "freed" => UNCHANGED usable
        /\ usable' \in {usable, FALSE}
    BY <1>1, <1>7, DeleteFrame
  <2>2. CASE p = "host"
    <3>1. /\ pc'["caller"] = pc["caller"] /\ pc'["control"] = pc["control"]
          /\ pc'["plugin"] = pc["plugin"] /\ pc'["server"] = pc["server"]
      BY <2>1, <2>2 DEF Threads
    <3>2. pc'["host"] = "freed" => ~usable'
      <4>1. pc'["host"] = "freed" => DeleteClose(p)
        BY <1>1, <1>7, <2>2 DEF DeleteBegin, DeleteStep, DeleteForbid,
           DeleteLookReordered, DeleteForbidLate, DeleteWait, DeleteGiveUp, DeleteLock,
           DeleteLockFails, DeleteStatus, DeleteMark, DeleteUnlock, DeleteJoin, LockAs,
           Move, Store, Goto, PCs
      <4>. QED
        BY <2>2, <4>1 DEF DeleteClose, Closing
    <3>. QED
      BY <2>1, <2>2, <3>1, <3>2 DEF Starting, DeletePCs
  <2>3. CASE p = "plugin"
    <3>1. /\ pc'["caller"] = pc["caller"] /\ pc'["control"] = pc["control"]
          /\ pc'["host"] = pc["host"] /\ pc'["server"] = pc["server"]
      BY <2>1, <2>3 DEF Threads
    <3>2. usable' = usable
      BY <1>1, <1>7, <2>3 DEF DeleteBegin, DeleteStep, DeleteForbid, DeleteLookReordered,
         DeleteForbidLate, DeleteWait, DeleteGiveUp, DeleteLock, DeleteLockFails,
         DeleteStatus, DeleteMark, DeleteUnlock, DeleteJoin, DeleteClose, Closing, LockAs,
         Move, Store, Goto, PCs, TypeOK
    <3>. QED
      BY <2>1, <2>3, <3>1, <3>2 DEF Starting, DeletePCs, PluginPCs
  <2>. QED
    BY <2>2, <2>3 DEF Processes
<1>8. ASSUME NEW p \in Processes, Crash(p)
      PROVE  Starting'
  <2>1. UNCHANGED pipe /\ usable' = (p # "host" /\ usable)
    BY <1>8 DEF Crash, Closing
  <2>2. CASE p = "host"
    <3>1. /\ pc'["host"] = "dead" /\ pc'["caller"] = "dead" /\ pc'["control"] = "dead"
          /\ pc'["plugin"] = pc["plugin"] /\ pc'["server"] = pc["server"]
      BY <1>8, <2>2 DEF Crash, Threads, ProcessOf
    <3>. QED
      BY <2>1, <2>2, <3>1 DEF Starting, DeletePCs, PluginPCs
  <2>3. CASE p = "plugin"
    <3>1. /\ pc'["host"] = pc["host"] /\ pc'["caller"] = pc["caller"]
          /\ pc'["control"] = pc["control"]
          /\ pc'["plugin"] = "dead" /\ pc'["server"] = "dead"
      BY <1>8, <2>3 DEF Crash, Threads, ProcessOf
    <3>. QED
      BY <1>1, <2>1, <2>3, <3>1 DEF Starting, PluginPCs, TypeOK
  <2>. QED
    BY <2>2, <2>3 DEF Processes
<1>9. CASE UNCHANGED vars
  BY <1>9 DEF vars, Starting
<1>. QED
  BY <1>2, <1>3, <1>4, <1>5, <1>6, <1>7, <1>8, <1>9 DEF Next

\* Until calls are allowed the sizes stay as they were.
LEMMA FreshStep ==
  ASSUME Orderly, Starting, Fresh, [Next]_vars
  PROVE  Fresh'
<1>. SUFFICES ASSUME pc'["host"] \in HostPCs
              PROVE  pah'.h2p_datasize = 0 /\ buf' = buf /\ pc["host"] \in HostPCs
  BY DEF Fresh, Sized
<1>1. pc \in PCs /\ pah \in Structs /\ TypeOK
  BY DEF Orderly, TypeOK
<1>2. CASE CallStart \/ CallStep
  <2>1. pc'["host"] = pc["host"]
    BY <1>1, <1>2, CallFrame DEF Threads
  <2>. QED
    BY <1>2, <2>1, CallerUp
<1>3. CASE ServerStep
  <2>1. pc'["host"] = pc["host"]
    BY <1>1, <1>3, ServerFrame DEF Threads
  <2>. QED
    BY <1>3, <2>1, ServerUp
<1>4. CASE ControlStep
  BY <1>1, <1>4 DEF Fresh, ControlStep, ControlReceive, ControlHeader, ControlSend,
     Store, Write, ReadInt, Goto, PCs, Structs, HostPCs
<1>5. CASE HostStep
  <2>1. ~HostDeleteHeader
    BY <1>1 DEF HostDeleteHeader, Store, Goto, PCs, HostPCs
  <2>. QED
    BY <1>1, <1>5, <2>1 DEF Fresh, HostStep, HostCreateThread, HostCannotCreateThread,
       HostTell, HostConfirmation, HostAllow, HostDeleteSend, Write, ReadInt, Goto, PCs,
       Structs, HostPCs
<1>6. CASE PluginStep
  BY <1>1, <1>6 DEF Fresh, PluginStep, PluginInit, PluginStatus, PluginCreateThread,
     PluginCannotCreateThread, PluginTell, PluginDeleteSend, Write, ReadInt, Goto, PCs,
     Structs
<1>7. ASSUME NEW p \in Processes, DeleteBegin(p) \/ DeleteStep(p)
      PROVE  pah'.h2p_datasize = 0 /\ buf' = buf /\ pc["host"] \in HostPCs
  <2>1. pc["host"] \in HostPCs /\ pah.h2p_datasize = 0
    <3>1. pc'["host"] = pc["host"] \/ pc'["host"] \in DeletePCs \cup {"freed"}
      BY <1>1, <1>7, DeleteFrame DEF Threads
    <3>. QED
      BY <3>1 DEF Fresh, HostPCs, DeletePCs
  <2>. QED
    BY <1>1, <1>7, <2>1 DEF DeleteBegin, DeleteStep, DeleteForbid, DeleteLookReordered,
       DeleteForbidLate, DeleteWait, DeleteGiveUp, DeleteLock, DeleteLockFails,
       DeleteStatus, DeleteMark, DeleteUnlock, DeleteJoin, DeleteClose, Closing, LockAs,
       Move, Store, Structs
<1>8. ASSUME NEW p \in Processes, Crash(p)
      PROVE  pah'.h2p_datasize = 0 /\ buf' = buf /\ pc["host"] \in HostPCs
  BY <1>8 DEF Crash, Closing, Fresh, HostPCs, Threads
<1>9. CASE UNCHANGED vars
  BY <1>9 DEF vars, Fresh
<1>. QED
  BY <1>2, <1>3, <1>4, <1>5, <1>6, <1>7, <1>8, <1>9 DEF Next

\* Where the lock file can be made, who is between lock and unlock holds it.
LEMMA LockedStep ==
  ASSUME Lockless = {}
  PROVE  TypeOK /\ DeletesLocked /\ [Next]_vars => DeletesLocked'
<1>. SUFFICES ASSUME TypeOK, DeletesLocked, [Next]_vars PROVE DeletesLocked'
  OBVIOUS
<1>. DEFINE Holding == {"del_status", "del_header", "del_send", "del_mark", "del_unlock"}
<1>1. pc \in PCs /\ TypeOK
  BY DEF TypeOK
<1>2. CASE \/ CallStart \/ CallStep \/ ServerStep \/ ControlStep
  <2>1. /\ \A p \in Processes : pc'[p] = pc[p]
        /\ lock' = lock
    BY <1>1, <1>2, CallFrame, ServerFrame, ControlFrame DEF Threads, Processes
  <2>. QED
    BY <2>1 DEF DeletesLocked
<1>3. CASE HostStep
  <2>1. /\ pc'["plugin"] = pc["plugin"] /\ lock' = lock
        /\ pc'["host"] \in Holding => pc["host"] \in Holding
    BY <1>1, <1>3 DEF HostStep, HostCreateThread, HostCannotCreateThread, HostTell,
       HostConfirmation, HostAllow, HostDeleteHeader, HostDeleteSend, Write, ReadInt,
       Store, Goto, PCs
  <2>. QED
    BY <2>1 DEF DeletesLocked, Processes
<1>4. CASE PluginStep
  <2>1. /\ pc'["host"] = pc["host"] /\ lock' = lock
        /\ pc'["plugin"] \in Holding => pc["plugin"] \in Holding
    BY <1>1, <1>4 DEF PluginStep, PluginInit, PluginStatus, PluginCreateThread,
       PluginCannotCreateThread, PluginTell, PluginDeleteSend, Write, ReadInt, Goto, PCs
  <2>. QED
    BY <2>1 DEF DeletesLocked, Processes
<1>5. ASSUME NEW p \in Processes, DeleteBegin(p) \/ DeleteStep(p)
      PROVE  DeletesLocked'
  <2>1. \A q \in Processes \ {p} : pc'[q] = pc[q]
    BY <1>1, <1>5, DeleteFrame DEF Threads, Processes
  <2>2. p \in {"host", "plugin"} /\ p # "free"
    BY DEF Processes
  <2>3. CASE DeleteLock(p)
    BY <1>1, <2>1, <2>2, <2>3 DEF DeleteLock, DeleteLockFails, LockAs, DeletesLocked,
       Processes
  <2>4. CASE DeleteUnlock(p)
    <3>1. pc[p] = "del_unlock" /\ lock = p /\ pc'[p] = "del_join"
      BY <1>1, <2>2, <2>4 DEF DeleteUnlock, LockAs, Goto, PCs, DeletesLocked
    <3>. QED
      BY <2>1, <3>1 DEF DeletesLocked
  <2>5. CASE ~DeleteLock(p) /\ ~DeleteUnlock(p)
    <3>1. lock' = lock /\ (pc'[p] \in Holding => pc[p] \in Holding)
      BY <1>1, <1>5, <2>2, <2>5 DEF DeleteBegin, DeleteStep, DeleteForbid,
         DeleteLookReordered, DeleteForbidLate, DeleteWait, DeleteGiveUp, DeleteLockFails,
         DeleteStatus, DeleteMark, DeleteJoin, DeleteClose, Closing, Move, Store, Goto,
         PCs
    <3>. QED
      BY <2>1, <3>1 DEF DeletesLocked
  <2>. QED
    BY <2>3, <2>4, <2>5
<1>6. ASSUME NEW p \in Processes, Crash(p)
      PROVE  DeletesLocked'
  <2>1. /\ lock' = lock
        /\ \A q \in Processes : pc'[q] \in {pc[q], "dead"}
    BY <1>6 DEF Crash, Closing, Processes, Threads
  <2>. QED
    BY <2>1 DEF DeletesLocked
<1>7. CASE UNCHANGED vars
  BY <1>7 DEF vars, DeletesLocked
<1>. QED
  BY <1>2, <1>3, <1>4, <1>5, <1>6, <1>7 DEF Next

\* So every delete holds the lock file while it looks at status and tells the other,
\* whatever gives up, is delayed or dies.
THEOREM LocksHeld ==
  ASSUME Lockless = {}
  PROVE  Spec => []DeletesLocked
<1>1. Init => DeletesLocked
  BY DEF Init, DeletesLocked, Processes
<1>. QED
  BY <1>1, LockedStep, TypeCorrect, PTL DEF Spec

\* A process closes when it frees itself or dies, and the host frees itself only
\* when its control thread has ended.
LEMMA JoinedStep == Orderly /\ Joined /\ [Next]_vars => Joined'
<1>. SUFFICES ASSUME Orderly, Joined, [Next]_vars PROVE Joined'
  OBVIOUS
<1>1. pc \in PCs /\ TypeOK /\ open \subseteq Processes
  BY DEF Orderly, TypeOK
<1>2. CASE CallStart \/ CallStep \/ ServerStep
  <2>1. /\ \A t \in {"host", "plugin", "control"} : pc'[t] = pc[t]
        /\ open' = open
    BY <1>1, <1>2, CallFrame, ServerFrame DEF Threads
  <2>. QED
    BY <2>1 DEF Joined, Processes
<1>3. CASE ControlStep
  <2>1. /\ \A t \in {"host", "plugin"} : pc'[t] = pc[t]
        /\ open' = open /\ pc["control"] \notin {"none", "ended"}
    BY <1>1, <1>3, ControlFrame DEF Threads
  <2>. QED
    BY <2>1 DEF Joined, Processes
<1>4. CASE HostStep
  <2>1. /\ pc'["plugin"] = pc["plugin"] /\ open' = open
        /\ pc["host"] \notin {"freed", "dead"}
        /\ pc'["host"] \notin {"del_close", "freed", "dead"}
    BY <1>1, <1>4 DEF HostStep, HostCreateThread, HostCannotCreateThread, HostTell,
       HostConfirmation, HostAllow, HostDeleteHeader, HostDeleteSend, Write, ReadInt,
       Store, Goto, PCs
  <2>. QED
    BY <2>1 DEF Joined, Processes
<1>5. CASE PluginStep
  <2>1. /\ pc'["host"] = pc["host"] /\ pc'["control"] = pc["control"] /\ open' = open
        /\ pc["plugin"] \notin {"freed", "dead"}
        /\ pc'["plugin"] \notin {"freed", "dead"}
    BY <1>1, <1>5 DEF PluginStep, PluginInit, PluginStatus, PluginCreateThread,
       PluginCannotCreateThread, PluginTell, PluginDeleteSend, Write, ReadInt, Goto, PCs
  <2>. QED
    BY <2>1 DEF Joined, Processes
<1>6. ASSUME NEW p \in Processes, DeleteBegin(p) \/ DeleteStep(p)
      PROVE  Joined'
  <2>1. /\ \A q \in Processes \ {p} : pc'[q] = pc[q]
        /\ pc'["control"] = pc["control"]
        /\ pc[p] \notin {"freed", "dead"}
    BY <1>1, <1>6, DeleteFrame DEF Threads, Processes, DeletePCs
  <2>2. p \in {"host", "plugin"}
    BY DEF Processes
  <2>3. CASE DeleteJoin(p)
    <3>1. /\ pc'[p] = "del_close" /\ open' = open
          /\ p = "host" => pc["control"] \in {"none", "ended"}
      BY <1>1, <2>2, <2>3 DEF DeleteJoin, Move, Goto, PCs
    <3>. QED
      BY <2>1, <2>2, <3>1 DEF Joined, Processes
  <2>4. CASE DeleteClose(p)
    <3>1. pc[p] = "del_close" /\ pc'[p] = "freed" /\ open' = open \ {p}
      BY <1>1, <2>2, <2>4 DEF DeleteClose, Closing, Goto, PCs
    <3>. QED
      BY <2>1, <2>2, <3>1 DEF Joined, Processes
  <2>5. CASE ~DeleteJoin(p) /\ ~DeleteClose(p)
    <3>1. pc'[p] \notin {"del_close", "freed", "dead"} /\ open' = open
      BY <1>1, <1>6, <2>2, <2>5 DEF DeleteBegin, DeleteStep, DeleteForbid,
         DeleteLookReordered, DeleteForbidLate, DeleteWait, DeleteGiveUp, DeleteLock,
         DeleteLockFails, DeleteStatus, DeleteMark, DeleteUnlock, LockAs, Move, Store,
         Goto, PCs
    <3>. QED
      BY <2>1, <2>2, <3>1 DEF Joined, Processes
  <2>. QED
    BY <2>3, <2>4, <2>5
<1>7. ASSUME NEW p \in Processes, Crash(p)
      PROVE  Joined'
  <2>1. /\ open' = open \ {p} /\ pc'[p] = "dead"
        /\ \A q \in Processes \ {p} : pc'[q] = pc[q]
        /\ p = "plugin" => pc'["control"] = pc["control"]
    BY <1>7 DEF Crash, Closing, Processes, Threads, ProcessOf
  <2>. QED
    BY <2>1 DEF Joined, Processes
<1>8. CASE UNCHANGED vars
  BY <1>8 DEF vars, Joined
<1>. QED
  BY <1>2, <1>3, <1>4, <1>5, <1>6, <1>7, <1>8 DEF Next

\* All of it at every step.
LEMMA StandingStep ==
  ASSUME ~GivesUp, ~Reorders
  PROVE  Orderly /\ Standing /\ InTime /\ [Next]_vars /\ DeletesLocked' => Standing'
BY StartingStep, FreshStep, JoinedStep DEF Standing

(***************************************************************************)
(* Running.                                                                *)
(***************************************************************************)
\* While the exchange runs the pipes of both sides are open to a call.
LEMMA RunningFacts ==
  ASSUME Orderly, Standing, Running
  PROVE  /\ "host" \in open /\ pc["plugin"] \notin PluginPCs \cup {"dead"}
         /\ pc["plugin"] # "freed" => "plugin" \in open
         /\ InCall => usable /\ "plugin" \in open
                      /\ \A p \in Processes : ~PastWait(p)
<1>1. pc \in PCs
  BY DEF Orderly, TypeOK
<1>2. "host" \in open /\ (pc["plugin"] \notin {"freed", "dead"} => "plugin" \in open)
  BY DEF Running, Standing, Joined, Processes, DeletePCs
<1>3. pc["plugin"] \notin PluginPCs \cup {"dead"}
  <2>1. pc["plugin"] # "dead" /\ pc["plugin"] \notin {"init", "status", "create"}
    BY DEF Running, Made, Standing, Starting
  <2>2. pc["plugin"] # "tell"
    BY DEF Running, Standing, Starting, DeletePCs
  <2>. QED
    BY <2>1, <2>2 DEF PluginPCs
<1>4. InCall => /\ \A p \in Processes : ~PastWait(p)
                /\ pc["caller"] \notin {"idle", "dead"}
  BY DEF Orderly, Safe, CallExclusion, InCall, CallPCs
<1>5. InCall => usable /\ pc["plugin"] # "freed"
  BY <1>4 DEF Standing, Starting, PastWait, Processes, Running, DeletePCs
<1>. QED
  BY <1>2, <1>3, <1>4, <1>5

(***************************************************************************)
(* The call thread.                                                        *)
(***************************************************************************)
\* Which step it takes follows from where it is.
LEMMA ServerAction ==
  ASSUME ServerStep
  PROVE  /\ pc["server"] = "receive" => ServerReceive
         /\ pc["server"] = "header" =>
              ServerEnd \/ ServerEnlarge \/ ServerMismatch \/ ServerCallback
         /\ pc["server"] = "stop" => ServerStop
         /\ pc["server"] = "enlarged" => ServerEnlarged
         /\ pc["server"] = "too_big" => ServerTooBig
         /\ pc["server"] = "ask" => ServerAsk
         /\ pc["server"] = "asked" => ServerAsked
         /\ pc["server"] = "answer" => ServerAnswer
         /\ pc["server"] = "reply" => ServerReply
BY DEF ServerStep, ServerReceive, ServerEnd, ServerStop, ServerEnlarge, ServerEnlarged,
     ServerMismatch, ServerCallback, ServerTooBig, ServerAsk, ServerAsked, ServerAnswer,
     ServerReply, Move, Store, Write, ReadInt, Goto

\* What its steps leave alone.
LEMMA ServerLeaves ==
  ASSUME TypeOK, ServerStep
  PROVE  /\ \A t \in Threads \ {"server"} : pc'[t] = pc[t]
         /\ UNCHANGED <<open, usable, request, calls, output>>
         /\ pah'.h2p_datasize = pah.h2p_datasize /\ pah'.status = pah.status
         /\ buf'.senddatasize_max = buf.senddatasize_max
         /\ buf'.receivedatasize = buf.receivedatasize
         /\ pc["server"] \in ServerPCs /\ pc'["server"] \in ServerPCs \cup {"ended"}
<1>1. pc \in PCs /\ pah \in Structs /\ buf \in Buffers
  BY DEF TypeOK
<1>2. UNCHANGED <<open, usable, request, calls, output>>
  BY DEF ServerStep, ServerReceive, ServerEnd, ServerStop, ServerEnlarge,
     ServerEnlarged, ServerMismatch, ServerCallback, ServerTooBig, ServerAsk,
     ServerAsked, ServerAnswer, ServerReply, Move, Store, Write, ReadInt, data
<1>3. /\ pah'.h2p_datasize = pah.h2p_datasize /\ pah'.status = pah.status
      /\ buf'.senddatasize_max = buf.senddatasize_max
      /\ buf'.receivedatasize = buf.receivedatasize
  BY <1>1 DEF ServerStep, ServerReceive, ServerEnd, ServerStop, ServerEnlarge,
     ServerEnlarged, ServerMismatch, ServerCallback, ServerTooBig, ServerAsk,
     ServerAsked, ServerAnswer, ServerReply, Move, Store, Write, ReadInt, Structs,
     Buffers
<1>4. /\ \A t \in Threads \ {"server"} : pc'[t] = pc[t]
      /\ pc["server"] \in ServerPCs /\ pc'["server"] \in ServerPCs \cup {"ended"}
  BY <1>1 DEF ServerStep, ServerReceive, ServerEnd, ServerStop, ServerEnlarge,
     ServerEnlarged, ServerMismatch, ServerCallback, ServerTooBig, ServerAsk,
     ServerAsked, ServerAnswer, ServerReply, Move, Store, Write, ReadInt, Goto, PCs,
     ServerPCs, Threads
<1>. QED
  BY <1>2, <1>3, <1>4

\* A message is received whole, and its header stays.
LEMMA ServerReceives ==
  ASSUME Orderly, Serves, ServerReceive
  PROVE  /\ pc["server"] = "receive" /\ UNCHANGED <<pah, buf, calls, reply>>
         /\ pipe'["plugin"] = <<>> /\ pipe'["host"] = pipe["host"]
         /\ pipe'["control"] = pipe["control"]
         /\ \/ pipe["plugin"] = <<>> /\ pc'["server"] = "ended"
            \/ /\ pipe["plugin"] # <<>> /\ pc'["server"] = "header"
               /\ input' = pipe["plugin"] /\ Matches(pipe["plugin"])
<1>1. /\ TypeOK /\ pc \in PCs /\ pipe \in Pipes
      /\ buf.plugin_receivedatasize \in Nat
  BY DEF Orderly, TypeOK, Buffers
<1>2. /\ pc["server"] = "receive"
      /\ pc'["server"] = IF pipe["plugin"] = <<>> THEN "ended" ELSE "header"
      /\ input' = Got("plugin", buf.plugin_receivedatasize)
      /\ pipe' = [pipe EXCEPT !["plugin"] = Left("plugin", buf.plugin_receivedatasize)]
      /\ UNCHANGED <<pah, buf, calls, reply>>
  BY <1>1 DEF ServerReceive, Goto, PCs
<1>3. /\ Len(pipe["plugin"]) <= buf.plugin_receivedatasize
      /\ pipe["plugin"] # <<>> => Matches(pipe["plugin"])
  <2>1. CASE pipe["plugin"] = <<>>
    BY <1>1, <2>1
  <2>2. CASE pipe["plugin"] # <<>>
    BY <1>2, <2>2 DEF Serves
  <2>. QED
    BY <2>1, <2>2
<1>4. /\ Got("plugin", buf.plugin_receivedatasize) = pipe["plugin"]
      /\ Left("plugin", buf.plugin_receivedatasize) = <<>>
  BY <1>1, <1>3, ReadAll
<1>. QED
  BY <1>1, <1>2, <1>3, <1>4 DEF Pipes

\* The word that lets it go on is all there is on the pipe.
LEMMA ServerGoesOn ==
  ASSUME Orderly, Serves, ServerAsked
  PROVE  /\ pc["server"] = "asked" /\ pc'["server"] = "answer"
         /\ UNCHANGED <<pah, calls, input, reply>>
         /\ pipe'["plugin"] = <<>> /\ pipe'["host"] = pipe["host"]
         /\ pipe'["control"] = pipe["control"]
         /\ buf'.returndatasize_max = reply
         /\ buf'.plugin_receivedatasize = buf.plugin_receivedatasize
         /\ pipe["plugin"] \in {<<>>, Word("go_on")} /\ Readable("plugin")
<1>1. TypeOK /\ pc \in PCs /\ pipe \in Pipes /\ buf \in Buffers
  BY DEF Orderly, TypeOK
<1>2. /\ pc["server"] = "asked" /\ pc'["server"] = "answer"
      /\ UNCHANGED <<pah, calls, input, reply>>
      /\ pipe' = [pipe EXCEPT !["plugin"] = Left("plugin", 1)]
      /\ buf' = [buf EXCEPT !.returndatasize_max = reply] /\ Readable("plugin")
  BY <1>1 DEF ServerAsked, ReadInt, Goto, PCs, data
<1>3. pipe["plugin"] \in {<<>>, Word("go_on")}
  BY <1>2 DEF Serves
<1>4. Left("plugin", 1) = <<>>
  BY <1>1, <1>3, ReadNothing, WordFacts
<1>. QED
  BY <1>1, <1>2, <1>3, <1>4 DEF Pipes, Buffers

\* The other steps neither read the pipe nor change what was received, and a
\* message that fits its header is never a mismatch.
LEMMA ServerWorks ==
  ASSUME Orderly, Made, Serves, ServerStep, ~ServerReceive, ~ServerAsked
  PROVE  /\ pc["server"] \notin {"receive", "asked"}
         /\ UNCHANGED <<calls, input>>
         /\ pipe["plugin"] = <<>> /\ pipe'["plugin"] = <<>>
         /\ ~ServerMismatch
<1>1. TypeOK /\ pc \in PCs /\ pipe \in Pipes /\ pah \in Structs
  BY DEF Orderly, TypeOK
<1>2. /\ pc["server"] \notin {"receive", "asked"} /\ UNCHANGED <<calls, input>>
      /\ pipe'["plugin"] = pipe["plugin"]
  BY <1>1 DEF ServerStep, ServerEnd, ServerStop, ServerEnlarge, ServerEnlarged,
     ServerMismatch, ServerCallback, ServerTooBig, ServerAsk, ServerAnswer, ServerReply,
     Move, Store, Write, Goto, PCs, Pipes, data
<1>3. pipe["plugin"] = <<>>
  BY <1>2 DEF Serves
<1>4. ASSUME ServerMismatch PROVE FALSE
  <2>1. pah.h2p_datasize > 0 /\ Len(input) # pah.h2p_datasize /\ pc["server"] = "header"
    BY <1>4 DEF ServerMismatch, Write, Goto
  <2>2. pah.h2p_datasize \in Nat
    BY <1>1, <2>1 DEF Structs
  <2>3. input = Message("data", calls, pah.h2p_datasize)
    BY <2>1, <2>2 DEF Serves, Matches
  <2>. QED
    BY <2>1, <2>2, <2>3, MessageFacts
<1>. QED
  BY <1>2, <1>3, <1>4

\* What the call thread knows stays true as it works.
LEMMA ServerServes ==
  ASSUME Orderly, Made, Serves, ServerStep
  PROVE  Serves'
<1>1. /\ TypeOK /\ pc \in PCs /\ pah \in Structs /\ pipe \in Pipes /\ buf \in Buffers
      /\ request \in Nat /\ reply \in Nat /\ calls \in Nat
  BY NatType DEF Orderly, TypeOK
<1>2. CASE ServerReceive
  <2>1. Matches(pipe["plugin"]) => Matches(input)' \/ input' # pipe["plugin"]
    BY <1>2, ServerReceives DEF Matches
  <2>. QED
    BY <1>2, <2>1, ServerReceives DEF Serves, Answering
<1>3. CASE ServerAsked
  BY <1>1, <1>3, ServerGoesOn DEF Serves, Answering
<1>4. CASE ~ServerReceive /\ ~ServerAsked
  <2>0. /\ pipe'["plugin"] = <<>> /\ UNCHANGED <<calls, input>> /\ ~ServerMismatch
        /\ pah'.h2p_datasize = pah.h2p_datasize
    BY <1>1, <1>4, ServerWorks, ServerLeaves
  <2>1. CASE ServerEnd
    BY <1>1, <2>0, <2>1 DEF ServerEnd, Move, Goto, PCs, Serves, Answering
  <2>2. CASE ServerStop \/ ServerEnlarge \/ ServerEnlarged
    <3>1. pc'["server"] \in {"ended", "enlarged", "receive"}
      BY <1>1, <2>2 DEF ServerStop, ServerEnlarge, ServerEnlarged, Move, Write, Goto, PCs
    <3>. QED
      BY <2>0, <3>1 DEF Serves, Answering
  <2>3. CASE ServerCallback
    <3>1. /\ pc["server"] = "header" /\ pah.h2p_datasize > 0
          /\ pc'["server"] = IF reply' > buf.returndatasize_max THEN "too_big" ELSE "answer"
          /\ UNCHANGED <<pah, buf>> /\ reply' \in Nat /\ buf.returndatasize_max \in Nat
      BY <1>1, <2>3, ExchangeAssumption DEF ServerCallback, Goto, PCs, Buffers, ExchangeAssumption
    <3>2. pah.h2p_datasize \in Nat
      BY <1>1, <3>1 DEF Structs
    <3>3. input = Message("data", calls, pah.h2p_datasize)
      BY <3>1, <3>2 DEF Serves, Matches
    <3>4. input[1].call = calls
      BY <3>1, <3>2, <3>3, MessageFacts
    <3>5. reply' > buf.returndatasize_max \/ reply' <= buf.returndatasize_max
      BY <3>1
    <3>. QED
      BY <2>0, <3>1, <3>4, <3>5 DEF Serves, Answering
  <2>4. CASE ServerTooBig \/ ServerAnswer
    <3>1. /\ UNCHANGED <<reply, buf>>
          /\ \/ pc["server"] = "too_big" /\ pc'["server"] = "ask" /\ pah'.p2h_datasize = -reply
             \/ pc["server"] = "answer" /\ pc'["server"] = "reply" /\ pah'.p2h_datasize = reply
      BY <1>1, <2>4 DEF ServerTooBig, ServerAnswer, Store, Goto, PCs, Structs, data
    <3>. QED
      BY <2>0, <3>1 DEF Serves, Answering
  <2>5. CASE ServerAsk \/ ServerReply
    <3>1. /\ UNCHANGED <<reply, buf, pah>>
          /\ \/ pc["server"] = "ask" /\ pc'["server"] = "asked"
             \/ pc'["server"] = "receive"
      BY <1>1, <2>5 DEF ServerAsk, ServerReply, Write, Goto, PCs, data
    <3>. QED
      BY <2>0, <3>1 DEF Serves, Answering
  <2>. QED
    BY <1>4, <2>0, <2>1, <2>2, <2>3, <2>4, <2>5 DEF ServerStep
<1>. QED
  BY <1>2, <1>3, <1>4

\* It tells the control thread to stop only when nobody else has.
LEMMA ServerTells ==
  ASSUME Orderly, Standing, Flows, Running, ServerStep
  PROVE  Tells' /\ (Told' <=> Told) /\ (PluginTells' <=> PluginTells)
<1>1. /\ TypeOK /\ pc \in PCs /\ pipe \in Pipes /\ Made /\ Serves /\ Tells /\ Ends
  BY DEF Orderly, TypeOK, Flows, Running
<1>2. /\ pah'.h2p_datasize = pah.h2p_datasize /\ pah'.status = pah.status
      /\ pc'["host"] = pc["host"] /\ pc'["plugin"] = pc["plugin"]
      /\ pc'["control"] = pc["control"] /\ pc["server"] # "ended"
  BY <1>1, ServerLeaves DEF Threads, ServerPCs
<1>3. Told' <=> Told
  BY <1>2 DEF Told, Processes
<1>4. PastWait("plugin")' <=> PastWait("plugin")
  BY <1>2 DEF PastWait
<1>5. CASE pipe'["control"] = pipe["control"]
  <2>1. PluginTells' <=> PluginTells
    BY <1>2, <1>5 DEF PluginTells
  <2>. QED
    BY <1>1, <1>2, <1>3, <1>4, <1>5, <2>1 DEF Tells, Processes
<1>6. CASE ServerStop /\ pah.h2p_datasize = -1
  <2>1. /\ pc["server"] = "stop" /\ pc'["server"] = "ended"
        /\ pipe'["control"] \in {pipe["control"], pipe["control"] \o Word("stopped")}
    BY <1>1, <1>6 DEF ServerStop, Write, Goto, PCs, Pipes
  <2>2. ~PluginTells /\ pipe["control"] = <<>>
    BY <1>1, <1>6, <2>1 DEF Tells, PluginTells
  <2>3. Told
    <3>1. pc["host"] # "del_send"
      BY <1>1, <2>1 DEF Tells, Ends, Rests, Orderly, Safe, CallExclusion, PastWait, Processes
    <3>. QED
      BY <1>1, <1>6, <3>1 DEF Tells
  <2>4. Word("stopped") # Word("deleting")
    BY WordFacts
  <2>5. pipe'["control"] \in {<<>>, Word("stopped")}
    BY <2>1, <2>2, WordFacts
  <2>6. ~PluginTells'
    BY <1>2, <2>2, <2>4, <2>5, WordFacts DEF PluginTells
  <2>7. pc["control"] # "send"
    BY <2>2 DEF PluginTells
  <2>. QED
    BY <1>1, <1>2, <1>3, <2>1, <2>2, <2>3, <2>5, <2>6, <2>7 DEF Tells, Processes
<1>7. pipe'["control"] = pipe["control"] \/ (ServerStop /\ pah.h2p_datasize = -1)
  BY <1>1 DEF ServerStep, ServerReceive, ServerEnd, ServerStop, ServerEnlarge,
     ServerEnlarged, ServerMismatch, ServerCallback, ServerTooBig, ServerAsk,
     ServerAsked, ServerAnswer, ServerReply, Move, Store, Write, ReadInt, Pipes
<1>. QED
  BY <1>3, <1>5, <1>6, <1>7, <1>2 DEF PluginTells

\* Without a call it only ends.
LEMMA ServerEnds ==
  ASSUME Orderly, Standing, Flows, Running, ServerStep
  PROVE  Ends'
<1>1. /\ TypeOK /\ pc \in PCs /\ pipe \in Pipes /\ Made /\ Serves /\ Tells /\ Ends
      /\ "host" \in open
  BY RunningFacts DEF Orderly, TypeOK, Flows, Running
<1>2. /\ pah'.h2p_datasize = pah.h2p_datasize /\ (InCall' <=> InCall)
      /\ (Told' <=> Told) /\ (PluginTells' <=> PluginTells)
  BY <1>1, ServerLeaves, ServerTells DEF Threads, InCall
<1>3. SUFFICES ASSUME ~InCall PROVE Ends'
  BY <1>2 DEF Ends
<1>4. ~Rests
  BY <1>1, ServerFrame DEF Rests, Readable
<1>5. Told /\ ~PluginTells /\ pc["server"] \in {"receive", "header", "stop", "ended"}
  BY <1>1, <1>3, <1>4 DEF Ends
<1>6. /\ pc["server"] = "header" \/ pipe["plugin"] # <<>> => pah.h2p_datasize \in {0, -1}
  BY <1>1, <1>3 DEF Ends
<1>7. CASE ServerReceive
  BY <1>1, <1>2, <1>3, <1>5, <1>6, <1>7, ServerReceives DEF Ends
<1>8. CASE ~ServerReceive
  <2>1. ~ServerAsked /\ pipe'["plugin"] = <<>>
    <3>1. ~ServerAsked
      BY <1>1, <1>5 DEF ServerAsked, ReadInt, Goto
    <3>. QED
      BY <1>1, <1>8, <3>1, ServerWorks
  <2>2. pc["server"] = "header" => pah.h2p_datasize \in {0, -1}
    BY <1>6
  <2>3. ServerEnd \/ ServerStop
    <3>1. CASE pc["server"] = "header"
      BY <2>2, <3>1, ServerAction DEF ServerEnlarge, ServerMismatch, ServerCallback
    <3>2. CASE pc["server"] # "header"
      BY <1>1, <1>5, <1>8, <3>2, ServerFrame, ServerAction
    <3>. QED
      BY <3>1, <3>2
  <2>4. pc'["server"] \in {"stop", "ended"}
    BY <1>1, <2>3 DEF ServerEnd, ServerStop, Move, Write, Goto, PCs
  <2>. QED
    BY <1>2, <1>3, <1>5, <2>1, <2>4 DEF Ends
<1>. QED
  BY <1>7, <1>8

\* The answer it sends is the answer to the call that is being made.
LEMMA ServerReplies ==
  ASSUME Orderly, Made, Serves, ServerReply, "host" \in open, pipe["host"] = <<>>
  PROVE  /\ pc["server"] = "reply" /\ pc'["server"] = "receive"
         /\ UNCHANGED <<buf, request, calls, reply, output, pah>>
         /\ pipe'["plugin"] = <<>> /\ pipe'["host"] = Answer
         /\ pah.p2h_datasize = reply /\ Len(Answer) = IF reply = 0 THEN 1 ELSE reply
<1>1. /\ pc \in PCs /\ pipe \in Pipes /\ reply \in Nat
  BY NatType DEF Orderly, TypeOK
<1>. DEFINE size == IF reply = 0 THEN 1 ELSE reply
<1>2. /\ pc["server"] = "reply" /\ pc'["server"] = "receive"
      /\ UNCHANGED <<buf, request, calls, reply, output, pah>>
      /\ pipe' = [pipe EXCEPT !["host"] = @ \o Message("answer", input[1].call, size)]
  BY <1>1 DEF ServerReply, Write, Goto, PCs, data
<1>3. /\ pipe["plugin"] = <<>> /\ input[1].call = calls /\ pah.p2h_datasize = reply
  BY <1>2 DEF Serves, Answering
<1>4. size \in Nat
  BY <1>1
<1>. HIDE DEF size
<1>5. <<>> \o Message("answer", calls, size) = Message("answer", calls, size)
      /\ Len(Message("answer", calls, size)) = size
  BY <1>4, MessageFacts
<1>6. Answer = Message("answer", calls, size)
  BY DEF Answer, size
<1>7. pipe'["host"] = pipe["host"] \o Message("answer", input[1].call, size)
      /\ pipe'["plugin"] = pipe["plugin"]
  BY <1>1, <1>2 DEF Pipes
<1>. QED
  BY <1>2, <1>3, <1>5, <1>6, <1>7 DEF size

\* It answers the call, and within the buffer the call reads into.
LEMMA ServerCalls ==
  ASSUME Orderly, Standing, Flows, Running, ServerStep
  PROVE  Calls' /\ Sized' /\ Fits'
<1>1. /\ TypeOK /\ pc \in PCs /\ pipe \in Pipes /\ pah \in Structs /\ buf \in Buffers
      /\ Made /\ Serves /\ Ends /\ Calls /\ Sized /\ Fits
      /\ "host" \in open /\ (InCall => usable)
      /\ request \in Nat /\ reply \in Nat /\ calls \in Nat
  BY RunningFacts, NatType DEF Orderly, TypeOK, Flows, Running
<1>2. /\ pc'["caller"] = pc["caller"] /\ UNCHANGED <<usable, request, calls, output>>
      /\ pah'.h2p_datasize = pah.h2p_datasize
      /\ buf'.senddatasize_max = buf.senddatasize_max
      /\ buf'.receivedatasize = buf.receivedatasize
      /\ InCall' <=> InCall
  BY <1>1, ServerLeaves DEF Threads, InCall
<1>3. ~Rests
  BY <1>1, ServerFrame DEF Rests, Readable
<1>4. Capacity' = Capacity
  BY <1>2 DEF Capacity
<1>5. CASE ~InCall
  <2>1. pc["server"] \in {"receive", "header", "stop", "ended"}
    BY <1>1, <1>5 DEF Ends
  <2>2. pc["server"] = "header" => pah.h2p_datasize \in {0, -1}
    BY <1>1, <1>5 DEF Ends
  <2>3. ServerReceive \/ ServerEnd \/ ServerStop
    BY <1>1, <2>1, <2>2, ServerFrame, ServerAction DEF ServerEnlarge, ServerMismatch,
       ServerCallback
  <2>4. UNCHANGED buf /\ pipe'["host"] = pipe["host"]
    BY <1>1, <2>3 DEF ServerReceive, ServerEnd, ServerStop, Move, Write, Pipes
  <2>. QED
    BY <1>1, <1>2, <1>4, <1>5, <2>4 DEF Calls, Sized, Fits, InCall, CallPCs
<1>6. CASE pc["caller"] = "grow_answer"
  <2>1. Grows /\ pc'["caller"] = "grow_answer"
    BY <1>1, <1>2, <1>6 DEF Calls
  <2>2. request > 1 /\ request > 0 /\ pah.h2p_datasize < -1 /\ Capacity = 1
    BY <1>1, <1>6, <2>1 DEF Grows, Sized, Buffers, Capacity
  <2>3. CASE pc["server"] = "receive"
    <3>1. ServerReceive
      BY <2>3, ServerAction
    <3>2. pipe["plugin"] = Word("grow") /\ pipe["host"] = <<>> /\ pipe["plugin"] # <<>>
      BY <1>3, <2>1, <2>3, WordFacts DEF Grows, Rests
    <3>. QED
      BY <1>1, <1>2, <1>4, <2>1, <3>1, <3>2, ServerReceives DEF Calls, Sized, Fits, Grows
  <2>4. CASE pc["server"] = "header"
    <3>1. ServerEnlarge
      <4>1. pah.h2p_datasize \in Int
        BY <1>1 DEF Structs
      <4>. QED
        BY <2>2, <2>4, <4>1, ServerAction DEF ServerEnd, ServerMismatch, ServerCallback
    <3>2. /\ pc'["server"] = "enlarged" /\ pipe' = pipe
          /\ buf'.plugin_receivedatasize = -pah.h2p_datasize
          /\ buf'.returndatasize_max = buf.returndatasize_max
      BY <1>1, <3>1 DEF ServerEnlarge, Goto, PCs, Buffers
    <3>3. pipe["host"] = <<>> /\ -pah.h2p_datasize = request
      BY <1>1, <2>1, <2>4 DEF Grows, Rests
    <3>4. Sized' /\ Fits'
      BY <1>1, <1>2, <1>4, <2>1, <3>2, <3>3 DEF Sized, Fits, Grows, Buffers
    <3>5. Grows'
      BY <1>2, <2>1, <3>2, <3>3 DEF Grows
    <3>. QED
      BY <2>1, <2>2, <1>2, <3>4, <3>5 DEF Calls
  <2>5. CASE pc["server"] = "enlarged"
    <3>1. ServerEnlarged
      BY <2>5, ServerAction
    <3>2. /\ pipe["plugin"] = <<>> /\ pipe["host"] = <<>>
          /\ buf.plugin_receivedatasize = request
      BY <1>1, <2>1, <2>5 DEF Grows, Serves, Rests
    <3>3. /\ pc'["server"] = "receive" /\ UNCHANGED buf
          /\ pipe'["host"] = Word("grown") /\ pipe'["plugin"] = <<>>
      BY <1>1, <3>1, <3>2, WordFacts DEF ServerEnlarged, Write, Goto, PCs, Pipes
    <3>4. Len(Word("grown")) = 1
      BY WordFacts
    <3>5. Sized' /\ Fits'
      <4>1. Fits'
        <5>1. Len(pipe'["host"]) = 1 /\ Capacity' = 1
          BY <2>2, <1>4, <3>3, <3>4
        <5>. QED
          BY <5>1 DEF Fits
      <4>2. Sized'
        BY <1>1, <3>3 DEF Sized
      <4>. QED
        BY <4>1, <4>2
    <3>6. Grows'
      BY <1>2, <2>1, <3>2, <3>3 DEF Grows, Rests
    <3>. QED
      BY <2>1, <2>2, <1>2, <3>5, <3>6 DEF Calls
  <2>. QED
    BY <1>3, <2>1, <2>3, <2>4, <2>5 DEF Grows, Rests

<1>7. CASE pc["caller"] \in {"receive", "receive_again"}
  <2>1. /\ pc["caller"] = "receive" => Asks
        /\ pc["caller"] = "receive_again" => AsksAgain
        /\ pc'["caller"] = pc["caller"] /\ Capacity = buf.receivedatasize
        /\ request > 0
    BY <1>1, <1>2, <1>7 DEF Calls, Capacity, CallPCs
  <2>2. CASE pc["server"] = "receive"
    <3>1. ServerReceive
      BY <2>2, ServerAction
    <3>2. /\ pc["caller"] = "receive" /\ pah.h2p_datasize = request
          /\ pipe["plugin"] = Message("data", calls, request) /\ pipe["host"] = <<>>
          /\ pipe["plugin"] # <<>>
      BY <1>1, <1>3, <1>7, <2>1, <2>2, MessageFacts DEF Asks, AsksAgain, Rests, Arrived
    <3>. QED
      BY <1>1, <1>2, <1>4, <2>1, <3>1, <3>2, ServerReceives DEF Calls, Sized, Fits, Asks
  <2>3. CASE pc["server"] = "header"
    <3>1. /\ pc["caller"] = "receive" /\ pah.h2p_datasize = request
          /\ pipe["host"] = <<>>
      BY <1>3, <1>7, <2>1, <2>3 DEF Asks, AsksAgain, Rests, Arrived
    <3>2. ServerCallback
      BY <1>1, <2>1, <2>3, <3>1, ServerAction, ServerWorks DEF ServerEnd, ServerEnlarge,
         ServerReceive, ServerAsked, ReadInt, Goto
    <3>3. pc'["server"] \in {"too_big", "answer"} /\ UNCHANGED <<buf, pipe>>
      BY <1>1, <3>2 DEF ServerCallback, Goto, PCs
    <3>. QED
      BY <1>1, <1>2, <1>4, <2>1, <3>1, <3>3 DEF Calls, Sized, Fits, Asks
  <2>4. CASE pc["server"] \in {"too_big", "answer"}
    <3>1. ServerTooBig \/ ServerAnswer
      BY <2>4, ServerAction
    <3>2. /\ pipe["host"] = <<>>
          /\ pc["caller"] = "receive" => pah.h2p_datasize = request
          /\ pc["server"] = "too_big" => pc["caller"] = "receive"
      BY <1>3, <1>7, <2>1, <2>4 DEF Asks, AsksAgain, Rests, Arrived
    <3>3. /\ pc'["server"] = IF pc["server"] = "too_big" THEN "ask" ELSE "reply"
          /\ UNCHANGED <<buf, pipe>>
      BY <1>1, <2>4, <3>1 DEF ServerTooBig, ServerAnswer, Store, Goto, PCs
    <3>4. Sized' /\ Fits'
      BY <1>1, <1>2, <1>4, <3>3 DEF Sized, Fits
    <3>5. /\ pc["caller"] = "receive" => Asks'
          /\ pc["caller"] = "receive_again" => AsksAgain'
      BY <1>2, <1>7, <2>4, <3>2, <3>3 DEF Asks, AsksAgain
    <3>. QED
      BY <1>2, <1>7, <2>1, <3>4, <3>5 DEF Calls
  <2>5. CASE pc["server"] = "ask"
    <3>1. ServerAsk
      BY <2>5, ServerAction
    <3>2. /\ pipe["host"] = <<>> /\ pc["caller"] = "receive" /\ pah.h2p_datasize = request
          /\ pipe["plugin"] = <<>>
      BY <1>1, <1>3, <1>7, <2>1, <2>5 DEF Asks, AsksAgain, Rests, Arrived, Serves
    <3>3. /\ pc'["server"] = "asked" /\ UNCHANGED buf /\ pipe'["plugin"] = <<>>
          /\ pipe'["host"] = Word("enlarge")
      BY <1>1, <3>1, <3>2, WordFacts DEF ServerAsk, Write, Goto, PCs, Pipes
    <3>4. Fits'
      <4>1. Len(Word("enlarge")) = 1 /\ 1 <= buf.receivedatasize
        BY <1>1, WordFacts DEF Sized, Buffers
      <4>. QED
        BY <1>4, <2>1, <3>3, <4>1 DEF Fits
    <3>. QED
      BY <1>1, <1>2, <2>1, <3>2, <3>3, <3>4 DEF Calls, Sized, Asks
  <2>6. CASE pc["server"] = "asked"
    <3>1. ServerAsked
      BY <2>6, ServerAction
    <3>2. pipe["plugin"] # <<>>
      BY <1>1, <3>1, ServerGoesOn DEF Readable
    <3>3. /\ pc["caller"] = "receive_again" /\ pipe["host"] = <<>>
          /\ buf.receivedatasize = reply
      BY <1>3, <1>7, <2>1, <2>6, <3>2 DEF Asks, AsksAgain, Rests, Arrived
    <3>4. /\ pc'["server"] = "answer" /\ pipe'["host"] = <<>>
          /\ buf'.returndatasize_max = reply
          /\ buf'.plugin_receivedatasize = buf.plugin_receivedatasize
      BY <1>1, <3>1, <3>3, ServerGoesOn
    <3>5. Fits'
      BY <1>1, <1>4, <2>1, <3>3, <3>4 DEF Fits
    <3>6. Sized'
      <4>1. reply > buf.returndatasize_max
        BY <1>1, <2>6 DEF Serves
      <4>. QED
        BY <1>1, <1>2, <3>3, <3>4, <4>1 DEF Sized, Buffers
    <3>. QED
      BY <1>1, <1>2, <2>1, <3>3, <3>4, <3>5, <3>6 DEF Calls, AsksAgain
  <2>7. CASE pc["server"] = "reply"
    <3>1. ServerReply
      BY <2>7, ServerAction
    <3>2. pipe["host"] = <<>> /\ (pc["caller"] = "receive" => pah.h2p_datasize = request)
      BY <1>3, <1>7, <2>1, <2>7 DEF Asks, AsksAgain, Rests, Arrived
    <3>3. reply <= buf.returndatasize_max
      BY <1>1, <2>7 DEF Serves
    <3>4. /\ pc'["server"] = "receive" /\ pipe'["plugin"] = <<>>
          /\ pipe'["host"] = Answer /\ pah' = pah /\ pah.p2h_datasize = reply
          /\ UNCHANGED <<buf, reply>> /\ Len(Answer) = IF reply = 0 THEN 1 ELSE reply
      BY <1>1, <3>1, <3>2, ServerReplies
    <3>5. Answer' = Answer
      BY <1>2, <3>4 DEF Answer
    <3>6. Arrived(pipe["host"])'
      BY <3>4, <3>5 DEF Arrived, Rests
    <3>7. Fits'
      BY <1>1, <1>4, <2>1, <3>3, <3>4 DEF Fits, Sized, Buffers
    <3>. QED
      BY <1>1, <1>2, <1>7, <2>1, <3>2, <3>4, <3>6, <3>7 DEF Calls, Sized, Asks, AsksAgain
  <2>. QED
    BY <1>3, <1>7, <2>1, <2>2, <2>3, <2>4, <2>5, <2>6, <2>7 DEF Asks, AsksAgain, Rests, Arrived
<1>8. CASE pc["caller"] \in {"size", "go_on"}
  <2>1. pc["server"] = "asked" /\ pipe["plugin"] = <<>>
    BY <1>1, <1>3, <1>8 DEF Calls, Arrived
  <2>2. Readable("plugin")
    BY <1>1, <2>1, ServerAction, ServerGoesOn
  <2>. QED
    BY <1>1, <2>1, <2>2 DEF Readable
<1>. QED
  BY <1>1, <1>3, <1>5, <1>6, <1>7, <1>8 DEF InCall, CallPCs, Calls, Arrived

(***************************************************************************)
(* The call.                                                               *)
(***************************************************************************)
\* What its steps leave alone.
LEMMA CallLeaves ==
  ASSUME Orderly, CallStart \/ CallStep
  PROVE  /\ \A t \in Threads \ {"caller"} : pc'[t] = pc[t]
         /\ UNCHANGED <<open, usable, input, reply>>
         /\ pah'.status = pah.status /\ pah'.p2h_datasize = pah.p2h_datasize
         /\ pipe'["control"] = pipe["control"]
         /\ buf'.plugin_receivedatasize = buf.plugin_receivedatasize
         /\ buf'.returndatasize_max = buf.returndatasize_max
<1>1. TypeOK /\ pc \in PCs /\ pah \in Structs /\ pipe \in Pipes /\ buf \in Buffers
  BY DEF Orderly, TypeOK
<1>2. \A t \in Threads \ {"caller"} : pc'[t] = pc[t]
  BY <1>1, CallFrame
<1>3. CASE CallStart
  BY <1>1, <1>2, <1>3 DEF CallStart, CallEnter, CallEnterReordered, CallWith, Structs
<1>4. CASE CallStep
  <2>1. UNCHANGED <<open, usable, input, reply>>
    BY <1>4 DEF CallStep, CallAnnounce, CallCheck, CallRefuse, CallGrow, CallGrowSend,
       CallGrowAnswer, CallHeader, CallSend, CallReceive, CallEnlarge, CallGoOn,
       CallReceiveAgain, CallAccept, CallReturn, CallRead, Move, Store, Write, ReadInt,
       data
  <2>2. /\ pah'.status = pah.status /\ pah'.p2h_datasize = pah.p2h_datasize
        /\ pipe'["control"] = pipe["control"]
        /\ buf'.plugin_receivedatasize = buf.plugin_receivedatasize
        /\ buf'.returndatasize_max = buf.returndatasize_max
    BY <1>1, <1>4 DEF CallStep, CallAnnounce, CallCheck, CallRefuse, CallGrow,
       CallGrowSend, CallGrowAnswer, CallHeader, CallSend, CallReceive, CallEnlarge,
       CallGoOn, CallReceiveAgain, CallAccept, CallReturn, CallRead, Move, Store, Write,
       ReadInt, Structs, Pipes, Buffers
  <2>. QED
    BY <1>2, <2>1, <2>2
<1>. QED
  BY <1>3, <1>4

\* Every read takes all there is, and nothing else changes what is on the way to
\* the host: so outside a call nothing is.
LEMMA CallFits ==
  ASSUME Orderly, Orderly', Fits, CallStart \/ CallStep
  PROVE  /\ Fits'
         /\ usable => \/ pipe'["host"] = pipe["host"] /\ pipe["host"] = <<>>
                      \/ /\ pc["caller"] \in {"grow_answer", "receive", "receive_again"}
                         /\ pipe'["host"] = <<>>
                         /\ pc["caller"] # "grow_answer" => output' = pipe["host"]
<1>1. /\ TypeOK /\ pc \in PCs /\ pipe \in Pipes /\ buf \in Buffers /\ usable' = usable
      /\ pipe["host"] \in Seq(Units)
  BY CallLeaves DEF Orderly, TypeOK, Pipes
<1>2. SUFFICES ASSUME usable
               PROVE  \/ pipe'["host"] = pipe["host"] /\ pipe["host"] = <<>>
                      \/ /\ pc["caller"] \in {"grow_answer", "receive", "receive_again"}
                         /\ pipe'["host"] = <<>>
                         /\ pc["caller"] # "grow_answer" => output' = pipe["host"]
  <2>1. buf' \in Buffers
    BY DEF Orderly, TypeOK
  <2>2. pipe'["host"] = <<>> => Len(pipe'["host"]) = 0
    OBVIOUS
  <2>3. Capacity' \in {0, 1, buf'.receivedatasize} /\ buf'.receivedatasize \in Nat
    BY <2>1 DEF Capacity, Buffers
  <2>. QED
    BY <1>1, <2>2, <2>3 DEF Fits
<1>3. Len(pipe["host"]) <= Capacity
  BY <1>2 DEF Fits
<1>4. CASE pc["caller"] \in {"receive", "receive_again"}
  <2>1. /\ output' = Got("host", buf.receivedatasize)
        /\ pipe'["host"] = Left("host", buf.receivedatasize)
    BY <1>1, <1>4 DEF CallStart, CallEnter, CallEnterReordered, CallStep, CallAnnounce,
       CallCheck, CallRefuse, CallGrow, CallGrowSend, CallGrowAnswer, CallHeader,
       CallSend, CallReceive, CallEnlarge, CallGoOn, CallReceiveAgain, CallAccept,
       CallReturn, CallRead, Move, Store, Write, ReadInt, Goto, Pipes
  <2>2. Capacity = buf.receivedatasize /\ buf.receivedatasize \in Nat
    BY <1>1, <1>4 DEF Capacity, Buffers
  <2>. QED
    BY <1>1, <1>3, <1>4, <2>1, <2>2, ReadAll
<1>5. CASE pc["caller"] = "grow_answer"
  <2>1. pipe'["host"] = Left("host", 1)
    BY <1>1, <1>5 DEF CallStart, CallEnter, CallEnterReordered, CallStep, CallAnnounce,
       CallCheck, CallRefuse, CallGrow, CallGrowSend, CallGrowAnswer, CallHeader,
       CallSend, CallReceive, CallEnlarge, CallGoOn, CallReceiveAgain, CallAccept,
       CallReturn, CallRead, Move, Store, Write, ReadInt, Goto, Pipes
  <2>2. Capacity = 1
    BY <1>5 DEF Capacity
  <2>. QED
    BY <1>1, <1>3, <1>5, <2>1, <2>2, ReadAll
<1>6. CASE pc["caller"] \notin {"grow_answer", "receive", "receive_again"}
  <2>1. pipe'["host"] = pipe["host"]
    BY <1>1, <1>6 DEF CallStart, CallEnter, CallEnterReordered, CallWith, CallStep,
       CallAnnounce, CallCheck, CallRefuse, CallGrow, CallGrowSend, CallGrowAnswer,
       CallHeader, CallSend, CallReceive, CallEnlarge, CallGoOn, CallReceiveAgain,
       CallAccept, CallReturn, CallRead, Move, Store, Write, ReadInt, Goto, Pipes
  <2>2. Capacity = 0
    BY <1>6 DEF Capacity
  <2>3. Len(pipe["host"]) \in Nat
    BY <1>1, LenProperties
  <2>4. Len(pipe["host"]) = 0
    BY <1>3, <2>2, <2>3
  <2>5. pipe["host"] = <<>>
    BY <1>1, <2>4, EmptySeq
  <2>. QED
    BY <2>1, <2>5
<1>. QED
  BY <1>4, <1>5, <1>6

\* Which step it takes follows from where it is; a call announces itself before it
\* looks at okey_to_call.
LEMMA CallAction ==
  ASSUME ~Reorders, Orderly, CallStart \/ CallStep
  PROVE  /\ pc["caller"] \in CallPCs \cup {"idle", "check", "refuse"}
         /\ pc["caller"] = "idle" => CallEnter
         /\ pc["caller"] = "check" => CallCheck
         /\ pc["caller"] = "refuse" => CallRefuse
         /\ pc["caller"] = "fit" => CallGrow \/ CallHeader
         /\ pc["caller"] = "grow_send" => CallGrowSend
         /\ pc["caller"] = "grow_answer" => CallGrowAnswer
         /\ pc["caller"] = "send" => CallSend
         /\ pc["caller"] = "receive" => CallReceive
         /\ pc["caller"] = "size" => CallEnlarge \/ CallAccept
         /\ pc["caller"] = "go_on" => CallGoOn
         /\ pc["caller"] = "receive_again" => CallReceiveAgain
         /\ pc["caller"] = "return" => CallReturn
<1>1. pc["caller"] # "announce"
  BY DEF Orderly, Safe, Exclusion
<1>. QED
  BY <1>1 DEF CallStart, CallEnter, CallEnterReordered, CallStep, CallAnnounce,
     CallCheck, CallRefuse, CallGrow, CallGrowSend, CallGrowAnswer, CallHeader, CallSend,
     CallReceive, CallEnlarge, CallGoOn, CallReceiveAgain, CallAccept, CallReturn,
     CallRead, Move, Store, Write, ReadInt, Goto, CallPCs

\* A call that is in the exchange runs, as long as the call thread does.
LEMMA CallRuns ==
  ASSUME Orderly, Standing, CallStart \/ CallStep, Made,
         InCall \/ InCall' \/ CallStart
  PROVE  Running
<1>1. pc["host"] \in {"up"} \cup DeletePCs
  <2>1. CASE InCall \/ InCall'
    BY <2>1, CallerUp DEF Standing
  <2>2. CASE CallStart
    BY <2>2 DEF CallStart, CallEnter, CallEnterReordered, CallWith, Standing, Starting
  <2>. QED
    BY <2>1, <2>2
<1>. QED
  BY <1>1 DEF Running

\* What the headers are, and what a call has sent.
LEMMA CallHeads ==
  ASSUME ~Reorders, Orderly, Standing, Flows, Made, InCall, CallStart \/ CallStep
  PROVE  /\ \/ UNCHANGED <<pipe["plugin"], pah.h2p_datasize, calls, request>>
            \/ /\ pc["caller"] = "fit" /\ Rests /\ UNCHANGED <<pipe["plugin"], calls, request>>
               /\ UNCHANGED buf
               /\ \/ /\ pc'["caller"] = "grow_send" /\ pah'.h2p_datasize = -request
                     /\ request > buf.senddatasize_max /\ pah'.h2p_datasize < -1
                  \/ /\ pc'["caller"] = "send" /\ pah'.h2p_datasize = request
                     /\ request <= buf.senddatasize_max /\ pah'.h2p_datasize > 0
            \/ /\ UNCHANGED <<pah.h2p_datasize, calls, request>> /\ UNCHANGED buf
               /\ \/ /\ pc["caller"] = "grow_send" /\ pc'["caller"] = "grow_answer" /\ Rests
                     /\ pah.h2p_datasize = -request /\ request > buf.senddatasize_max
                     /\ pipe'["plugin"] = Word("grow")
                  \/ /\ pc["caller"] = "send" /\ pc'["caller"] = "receive" /\ Rests
                     /\ pah.h2p_datasize = request /\ request <= buf.senddatasize_max
                     /\ pipe'["plugin"] = Message("data", calls, request)
                  \/ /\ pc["caller"] = "go_on" /\ pc'["caller"] = "receive_again"
                     /\ pc["server"] = "asked" /\ pipe["plugin"] = <<>>
                     /\ buf.receivedatasize = reply
                     /\ pipe'["plugin"] = Word("go_on")
<1>1. /\ TypeOK /\ pc \in PCs /\ pipe \in Pipes /\ pah \in Structs /\ buf \in Buffers
      /\ request \in Nat /\ calls \in Nat
      /\ Running /\ Serves /\ Calls /\ Sized /\ "plugin" \in open /\ request > 0
  BY CallRuns, RunningFacts, NatType DEF Orderly, TypeOK, Flows, Calls, InCall
<1>2. CASE pc["caller"] = "fit"
  <2>1. Rests
    BY <1>1, <1>2 DEF Calls
  <2>2. CASE CallGrow
    <3>1. /\ pc'["caller"] = "grow_send" /\ pah'.h2p_datasize = -request
          /\ request > buf.senddatasize_max /\ UNCHANGED <<pipe, calls, request, buf>>
      BY <1>1, <2>2 DEF CallGrow, Store, Goto, PCs, Structs, data
    <3>2. -request < -1
      BY <1>1, <3>1 DEF Sized, Buffers
    <3>. QED
      BY <1>2, <2>1, <3>1, <3>2
  <2>3. CASE CallHeader
    <3>1. /\ pc'["caller"] = "send" /\ pah'.h2p_datasize = request
          /\ request <= buf.senddatasize_max /\ UNCHANGED <<pipe, calls, request, buf>>
      BY <1>1, <2>3 DEF CallHeader, Store, Goto, PCs, Structs, data
    <3>. QED
      BY <1>1, <1>2, <2>1, <3>1
  <2>. QED
    BY <1>2, <2>2, <2>3, CallAction
<1>3. CASE pc["caller"] \in {"grow_send", "send", "go_on"}
  <2>. DEFINE message == IF pc["caller"] = "grow_send" THEN Word("grow")
                         ELSE IF pc["caller"] = "send" THEN Message("data", calls, request)
                         ELSE Word("go_on")
  <2>1. /\ pipe'["plugin"] = pipe["plugin"] \o message
        /\ UNCHANGED <<pah, calls, request, buf>>
        /\ pc["caller"] = "grow_send" => pc'["caller"] = "grow_answer"
        /\ pc["caller"] = "send" => pc'["caller"] = "receive"
        /\ pc["caller"] = "go_on" => pc'["caller"] = "receive_again"
    <3>1. CallGrowSend \/ CallSend \/ CallGoOn
      BY <1>3, CallAction
    <3>. QED
      BY <1>1, <1>3, <3>1 DEF CallGrowSend, CallSend, CallGoOn, Write, Goto, PCs, Pipes, data
  <2>2. pipe["plugin"] = <<>>
    BY <1>1, <1>3 DEF Calls, Rests
  <2>3. <<>> \o message = message
    BY <1>1, WordFacts, MessageFacts
  <2>4. pipe'["plugin"] = message
    BY <2>1, <2>2, <2>3
  <2>5. /\ pc["caller"] = "grow_send" => message = Word("grow")
        /\ pc["caller"] = "send" => message = Message("data", calls, request)
        /\ pc["caller"] = "go_on" => message = Word("go_on")
    OBVIOUS
  <2>. HIDE DEF message
  <2>6. /\ pc["caller"] \in {"grow_send", "send"} => Rests
        /\ pc["caller"] = "grow_send" =>
             pah.h2p_datasize = -request /\ request > buf.senddatasize_max
        /\ pc["caller"] = "send" =>
             pah.h2p_datasize = request /\ request <= buf.senddatasize_max
        /\ pc["caller"] = "go_on" =>
             pc["server"] = "asked" /\ buf.receivedatasize = reply
    BY <1>1 DEF Calls
  <2>. QED
    BY <1>3, <2>1, <2>2, <2>4, <2>5, <2>6
<1>4. CASE pc["caller"] \notin {"fit", "grow_send", "send", "go_on"}
  <2>1. \/ CallGrowAnswer \/ CallReceive \/ CallEnlarge \/ CallAccept \/ CallReceiveAgain
        \/ CallReturn
    BY <1>4, CallAction DEF InCall, CallPCs
  <2>. QED
    BY <1>1, <2>1 DEF CallGrowAnswer, CallReceive, CallEnlarge, CallAccept,
       CallReceiveAgain, CallReturn, CallRead, Move, Store, ReadInt, Structs, Pipes, data
<1>. QED
  BY <1>2, <1>3, <1>4

\* Outside the exchange a call only counts and announces itself.
LEMMA CallOutside ==
  ASSUME ~Reorders, Orderly, ~InCall, CallStart \/ CallStep
  PROVE  /\ UNCHANGED <<pipe, buf, output>> /\ pah'.h2p_datasize = pah.h2p_datasize
         /\ \/ /\ pc["caller"] = "idle" /\ pc'["caller"] = "check" /\ CallStart
               /\ request' > 0
            \/ /\ UNCHANGED <<calls, request>>
               /\ \/ /\ pc["caller"] = "check" /\ pc'["caller"] \in {"fit", "refuse"}
                     /\ pah.okey_to_call = 0 => pc'["caller"] = "refuse"
                  \/ pc["caller"] = "refuse" /\ pc'["caller"] = "idle"
<1>1. pc \in PCs /\ pah \in Structs
  BY DEF Orderly, TypeOK
<1>2. CallEnter \/ CallCheck \/ CallRefuse
  BY CallAction DEF InCall
<1>3. CASE CallEnter
  <2>1. /\ pc["caller"] = "idle" /\ pc'["caller"] = "check" /\ request' \in Sizes
        /\ UNCHANGED <<pipe, buf, output>> /\ pah'.h2p_datasize = pah.h2p_datasize
    BY <1>1, <1>3 DEF CallEnter, CallWith, Goto, PCs, Structs
  <2>2. request' > 0
    BY <2>1, ExchangeAssumption DEF ExchangeAssumption
  <2>. QED
    BY <1>3, <2>1, <2>2 DEF CallStart
<1>4. CASE CallCheck \/ CallRefuse
  BY <1>1, <1>4 DEF CallCheck, CallRefuse, Move, Store, Goto, PCs, Structs, data
<1>. QED
  BY <1>2, <1>3, <1>4

\* What the call thread knows stays true as the call goes on.
LEMMA CallServes ==
  ASSUME ~Reorders, Orderly, Standing, Flows, Made, CallStart \/ CallStep
  PROVE  Serves'
<1>1. /\ Serves /\ pc'["server"] = pc["server"] /\ UNCHANGED <<input, reply>>
      /\ pah'.p2h_datasize = pah.p2h_datasize
      /\ buf'.plugin_receivedatasize = buf.plugin_receivedatasize
      /\ buf'.returndatasize_max = buf.returndatasize_max
  BY CallLeaves DEF Flows, Threads
<1>2. ASSUME UNCHANGED <<pipe["plugin"], pah.h2p_datasize, calls>>
      PROVE  Serves'
  BY <1>1, <1>2 DEF Serves, Matches, Answering
<1>3. CASE InCall
  <2>1. CASE /\ UNCHANGED <<pipe["plugin"], pah.h2p_datasize, calls, request>>
    BY <1>2, <2>1
  <2>2. CASE Rests /\ UNCHANGED pipe["plugin"]
    BY <1>1, <2>2 DEF Rests, Serves, Answering
  <2>3. CASE /\ UNCHANGED <<pah.h2p_datasize, calls, request>> /\ UNCHANGED buf /\ Rests
             /\ pah.h2p_datasize = -request /\ request > buf.senddatasize_max
             /\ pipe'["plugin"] = Word("grow")
    <3>1. Sized /\ request \in Nat /\ buf \in Buffers
      BY <1>3, CallRuns, NatType DEF Flows, Orderly, TypeOK
    <3>2. pah.h2p_datasize < -1 /\ 1 <= buf.plugin_receivedatasize
      BY <2>3, <3>1 DEF Sized, Buffers
    <3>3. Len(Word("grow")) = 1
      BY WordFacts
    <3>. QED
      BY <1>1, <2>3, <3>2, <3>3 DEF Rests, Serves, Matches, Answering
  <2>4. CASE /\ UNCHANGED <<pah.h2p_datasize, calls, request>> /\ UNCHANGED buf /\ Rests
             /\ pah.h2p_datasize = request /\ request <= buf.senddatasize_max
             /\ pipe'["plugin"] = Message("data", calls, request)
    <3>1. Sized /\ Calls /\ request \in Nat /\ calls \in Nat /\ buf \in Buffers
      BY <1>3, CallRuns, NatType DEF Flows, Orderly, TypeOK
    <3>2. request > 0 /\ request <= buf.plugin_receivedatasize
      BY <1>3, <2>4, <3>1 DEF Sized, Buffers, Calls, InCall
    <3>3. Len(Message("data", calls, request)) = request
      BY <3>1, MessageFacts
    <3>. QED
      BY <1>1, <2>4, <3>2, <3>3 DEF Rests, Serves, Matches, Answering
  <2>5. CASE /\ UNCHANGED <<pah.h2p_datasize, calls, request>> /\ UNCHANGED buf
             /\ pc["server"] = "asked" /\ pipe'["plugin"] = Word("go_on")
    BY <1>1, <2>5 DEF Serves, Answering
  <2>. QED
    BY <1>3, <2>1, <2>2, <2>3, <2>4, <2>5, CallHeads
<1>4. CASE ~InCall
  <2>1. UNCHANGED <<pipe, pah.h2p_datasize, buf>>
    BY <1>4, CallOutside
  <2>2. CASE UNCHANGED calls
    BY <1>2, <2>1, <2>2
  <2>3. CASE CallStart
    <3>1. /\ pc["server"] \in {"receive", "header", "stop", "ended"}
          /\ pc["server"] = "header" \/ pipe["plugin"] # <<>> => pah.h2p_datasize \in {0, -1}
      BY <1>4, <2>3, CallRuns DEF Flows, Ends
    <3>. QED
      BY <1>1, <2>1, <3>1 DEF Serves, Matches, Answering
  <2>. QED
    BY <1>4, <2>2, <2>3, CallOutside
<1>. QED
  BY <1>3, <1>4

\* A call changes h2p_datasize only while no delete has told the other side.
LEMMA CallTells ==
  ASSUME ~Reorders, Orderly, Standing, Flows, Running, CallStart \/ CallStep
  PROVE  Tells' /\ (Told' <=> Told) /\ (PluginTells' <=> PluginTells)
<1>1. /\ \A t \in {"host", "plugin", "control", "server"} : pc'[t] = pc[t]
      /\ pah'.status = pah.status /\ pipe'["control"] = pipe["control"]
      /\ Tells /\ Made
  BY CallLeaves DEF Threads, Flows, Running
<1>2. (Told' <=> Told) /\ (PluginTells' <=> PluginTells)
      /\ (PastWait("plugin")' <=> PastWait("plugin"))
  BY <1>1 DEF Told, PluginTells, PastWait, Processes
<1>3. CASE pah'.h2p_datasize = pah.h2p_datasize
  BY <1>1, <1>2, <1>3 DEF Tells, Processes
<1>4. CASE pah'.h2p_datasize # pah.h2p_datasize
  <2>1. InCall
    BY <1>4, CallOutside
  <2>2. pah'.h2p_datasize # -1
    <3>1. pah'.h2p_datasize < -1 \/ pah'.h2p_datasize > 0
      BY <1>1, <1>4, <2>1, CallHeads
    <3>. QED
      BY <3>1
  <2>3. ~PluginTells /\ pc["host"] # "del_send" /\ pc["control"] # "send"
    <3>1. \A p \in Processes : ~PastWait(p)
      BY <2>1, RunningFacts
    <3>. QED
      BY <1>1, <3>1 DEF Tells, PluginTells, PastWait, Processes
  <2>. QED
    BY <1>1, <1>2, <2>2, <2>3 DEF Tells, Processes
<1>. QED
  BY <1>2, <1>3, <1>4

\* A call that leaves the exchange leaves nothing behind.
LEMMA CallEndsClean ==
  ASSUME ~Reorders, Orderly, Standing, Flows, Running, CallStart \/ CallStep
  PROVE  Ends'
<1>1. /\ pc'["server"] = pc["server"] /\ Made /\ Serves /\ Ends /\ Calls
      /\ (Told' <=> Told) /\ (PluginTells' <=> PluginTells)
      /\ pc \in PCs /\ pipe \in Pipes
  BY CallLeaves, CallTells DEF Threads, Flows, Running, Orderly, TypeOK
<1>2. SUFFICES ASSUME ~InCall' PROVE Ends'
  BY DEF Ends
<1>3. CASE ~InCall
  BY <1>1, <1>3, CallOutside DEF Ends, Rests
<1>4. CASE InCall
  <2>1. ~(pipe["host"] = <<>> /\ Readable("host"))
    BY <1>4, RunningFacts DEF Readable
  <2>2. CallReturn
    <3>1. \/ pc'["caller"] \in CallPCs
          \/ CallReturn
          \/ CallReceive /\ pipe["host"] = <<>>
      BY <1>1, <1>4, CallAction DEF InCall, CallPCs, CallGrow, CallGrowSend,
         CallGrowAnswer, CallHeader, CallSend, CallReceive, CallEnlarge, CallGoOn,
         CallReceiveAgain, CallAccept, CallRead, Move, Store, Write, ReadInt, Goto, PCs
    <3>. QED
      BY <1>2, <2>1, <3>1 DEF InCall, CallReceive, CallRead
  <2>3. pc["caller"] = "return" /\ UNCHANGED pipe
    BY <2>2 DEF CallReturn, Store, Goto
  <2>4. Rests
    BY <1>1, <2>3 DEF Calls, Arrived
  <2>. QED
    BY <1>1, <2>3, <2>4 DEF Ends, Rests
<1>. QED
  BY <1>3, <1>4

\* The call goes on with the call thread where it expects it.
LEMMA CallKnows ==
  ASSUME ~Reorders, Orderly, Orderly', Standing, Flows, Running, CallStart \/ CallStep
  PROVE  Calls' /\ Sized'
<1>1. /\ pc'["server"] = pc["server"] /\ UNCHANGED <<input, reply>>
      /\ pah'.p2h_datasize = pah.p2h_datasize
      /\ buf'.plugin_receivedatasize = buf.plugin_receivedatasize
      /\ buf'.returndatasize_max = buf.returndatasize_max
      /\ Made /\ Serves /\ Ends /\ Calls /\ Sized /\ Fits
      /\ pc \in PCs /\ pipe \in Pipes /\ buf \in Buffers /\ pah \in Structs
      /\ request \in Nat /\ reply \in Nat /\ calls \in Nat
  BY CallLeaves, NatType DEF Threads, Flows, Running, Orderly, TypeOK
<1>2. CASE ~InCall
  <2>1. UNCHANGED <<pipe, buf, output>>
    BY <1>2, CallOutside
  <2>2. Sized'
    BY <1>1, <2>1 DEF Sized
  <2>3. CASE CallStart /\ pc'["caller"] = "check" /\ request' > 0
    BY <2>2, <2>3 DEF Calls
  <2>4. CASE /\ UNCHANGED <<calls, request>> /\ pc["caller"] = "check"
             /\ pc'["caller"] \in {"fit", "refuse"}
             /\ pah.okey_to_call = 0 => pc'["caller"] = "refuse"
    <3>1. pc'["caller"] = "fit" => Rests
      <4>1. SUFFICES ASSUME pah.okey_to_call # 0 PROVE Rests
        BY <2>4
      <4>2. ~Told
        BY <4>1, <1>1 DEF Told, Orderly, Safe, Exclusion, EndedForbidsCalls, PastWait, Structs
      <4>. QED
        BY <1>1, <1>2, <4>2 DEF Ends
    <3>2. request > 0
      BY <1>1, <2>4 DEF Calls
    <3>. QED
      BY <1>1, <2>1, <2>2, <2>4, <3>1, <3>2 DEF Calls, Rests
  <2>5. CASE UNCHANGED <<calls, request>> /\ pc'["caller"] = "idle"
    BY <2>2, <2>5 DEF Calls, CallPCs
  <2>. QED
    BY <1>2, <2>3, <2>4, <2>5, CallOutside
<1>3. CASE InCall
  <2>1. /\ usable /\ "plugin" \in open /\ request > 0 /\ ~CallStart
    BY <1>1, <1>3, RunningFacts DEF Calls, InCall, CallPCs, CallStart, CallEnter,
       CallEnterReordered, Goto
  <2>2. UNCHANGED <<calls, request>>
    BY <1>1, <1>3, CallHeads
  <2>3. pipe["host"] # <<>> \/ ~Readable("host")
    BY <2>1 DEF Readable
  <2>4. CASE pc["caller"] = "fit"
    <3>1. /\ Rests /\ UNCHANGED pipe["plugin"] /\ UNCHANGED buf
          /\ \/ /\ pc'["caller"] = "grow_send" /\ pah'.h2p_datasize = -request
                /\ request > buf.senddatasize_max
             \/ /\ pc'["caller"] = "send" /\ pah'.h2p_datasize = request
                /\ request <= buf.senddatasize_max
      <4>1. CallGrow \/ CallHeader
        BY <2>4, CallAction
      <4>. QED
        BY <1>1, <2>4, <4>1 DEF CallGrow, CallHeader, Store, Goto, PCs, Structs, Calls, data
    <3>. QED
      BY <1>1, <2>1, <2>2, <3>1 DEF Calls, Sized, Rests
  <2>5. CASE pc["caller"] = "grow_send"
    <3>1. pipe'["host"] = <<>> /\ pc["caller"] \notin CallPCs \ {"grow_send"}
      BY <2>1, <2>5, CallFits, <1>1
    <3>2. /\ pc'["caller"] = "grow_answer" /\ Rests /\ pah'.h2p_datasize = -request
          /\ request > buf.senddatasize_max /\ pipe'["plugin"] = Word("grow")
          /\ UNCHANGED buf
      <4>1. CallGrowSend
        BY <2>5, CallAction
      <4>2. Rests /\ pah.h2p_datasize = -request /\ request > buf.senddatasize_max
        BY <1>1, <2>5 DEF Calls
      <4>3. <<>> \o Word("grow") = Word("grow")
        BY WordFacts
      <4>. QED
        BY <1>1, <2>1, <4>1, <4>2, <4>3 DEF CallGrowSend, Write, Goto, PCs, Pipes, Rests, data
    <3>3. Grows'
      BY <1>1, <2>2, <3>1, <3>2 DEF Grows, Rests
    <3>. QED
      BY <1>1, <2>1, <2>2, <3>2, <3>3 DEF Calls, Sized
  <2>6. CASE pc["caller"] = "grow_answer"
    <3>1. /\ pc'["caller"] = "fit" /\ UNCHANGED <<pah, pipe["plugin"]>> /\ Readable("host")
          /\ buf'.senddatasize_max = request /\ buf'.receivedatasize = buf.receivedatasize
      <4>1. CallGrowAnswer
        BY <2>6, CallAction
      <4>. QED
        BY <1>1, <4>1 DEF CallGrowAnswer, ReadInt, Goto, PCs, Pipes, Buffers
    <3>2. Rests /\ buf.plugin_receivedatasize = request
      BY <1>1, <2>3, <2>6, <3>1 DEF Calls, Grows
    <3>3. Sized'
      BY <1>1, <2>1, <3>1, <3>2 DEF Sized
    <3>. QED
      BY <1>1, <2>1, <2>2, <3>1, <3>2, <3>3 DEF Calls, Rests
  <2>7. CASE pc["caller"] = "send"
    <3>1. pipe'["host"] = <<>>
      BY <2>1, <2>7, CallFits, <1>1
    <3>2. /\ pc'["caller"] = "receive" /\ Rests /\ pah'.h2p_datasize = request
          /\ pipe'["plugin"] = Message("data", calls, request)
          /\ UNCHANGED buf
      <4>1. CallSend
        BY <2>7, CallAction
      <4>2. Rests /\ pah.h2p_datasize = request
        BY <1>1, <2>7 DEF Calls
      <4>3. <<>> \o Message("data", calls, request) = Message("data", calls, request)
        BY <1>1, MessageFacts
      <4>. QED
        BY <1>1, <2>1, <4>1, <4>2, <4>3 DEF CallSend, Write, Goto, PCs, Pipes, Rests, data
    <3>3. Asks'
      BY <1>1, <2>2, <3>1, <3>2 DEF Asks, Rests
    <3>. QED
      BY <1>1, <2>1, <2>2, <3>2, <3>3 DEF Calls, Sized
  <2>8. CASE pc["caller"] = "receive"
    <3>1. pc'["caller"] = "size" /\ UNCHANGED <<pah, buf, pipe["plugin"]>> /\ pipe["host"] # <<>>
      <4>1. CallReceive
        BY <2>8, CallAction
      <4>. QED
        BY <1>1, <2>3, <4>1 DEF CallReceive, CallRead, Goto, PCs, Pipes
    <3>2. output' = pipe["host"]
      BY <2>1, <2>8, <3>1, CallFits, <1>1
    <3>3. \/ pc["server"] = "asked" /\ pipe["plugin"] = <<>> /\ pipe["host"] = Word("enlarge")
          \/ Arrived(pipe["host"])
      BY <1>1, <2>8, <3>1 DEF Calls, Asks
    <3>4. Arrived(pipe["host"]) => Arrived(output)'
      BY <1>1, <2>2, <3>1, <3>2 DEF Arrived, Answer, Rests
    <3>. QED
      BY <1>1, <2>1, <2>2, <3>1, <3>2, <3>3, <3>4 DEF Calls, Sized
  <2>9. CASE pc["caller"] = "size"
    <3>1. \/ pc["server"] = "asked" /\ pipe["plugin"] = <<>> /\ output = Word("enlarge")
          \/ Arrived(output)
      BY <1>1, <2>9 DEF Calls
    <3>2. pc["server"] = "asked" => pah.p2h_datasize = -reply /\ pah.p2h_datasize < 0
      <4>1. pc["server"] = "asked" => pah.p2h_datasize = -reply /\ reply > buf.returndatasize_max
        BY <1>1 DEF Serves
      <4>2. buf.returndatasize_max \in Nat
        BY <1>1 DEF Buffers
      <4>. QED
        BY <1>1, <4>1, <4>2
    <3>3. pc["server"] # "asked" => pah.p2h_datasize >= 0 /\ Arrived(output)
      BY <1>1, <3>1 DEF Arrived
    <3>4. CASE CallEnlarge
      <4>1. /\ pc'["caller"] = "go_on" /\ UNCHANGED <<pah, pipe>> /\ pah.p2h_datasize < 0
            /\ buf'.receivedatasize = -pah.p2h_datasize
            /\ buf'.senddatasize_max = buf.senddatasize_max
        BY <1>1, <3>4 DEF CallEnlarge, Goto, PCs, Buffers
      <4>2. pc["server"] = "asked" /\ pipe["plugin"] = <<>> /\ -pah.p2h_datasize = reply
        BY <1>1, <3>1, <3>2, <3>3, <4>1 DEF Arrived, Rests
      <4>3. reply > buf.returndatasize_max
        BY <1>1, <4>2 DEF Serves
      <4>4. Sized'
        BY <1>1, <4>1, <4>2, <4>3 DEF Sized, Buffers
      <4>. QED
        BY <1>1, <2>1, <2>2, <4>1, <4>2, <4>4 DEF Calls
    <3>5. CASE CallAccept
      <4>1. pc'["caller"] = "return" /\ UNCHANGED <<pah, pipe, buf, output>> /\ pah.p2h_datasize >= 0
        BY <1>1, <3>5 DEF CallAccept, Move, Goto, PCs, data
      <4>2. pc["server"] # "asked"
        BY <1>1, <3>2, <4>1
      <4>3. Arrived(output)'
        BY <1>1, <2>2, <3>3, <4>1, <4>2 DEF Arrived, Answer, Rests
      <4>. QED
        BY <1>1, <2>1, <2>2, <4>1, <4>3 DEF Calls, Sized
    <3>. QED
      BY <2>9, <3>4, <3>5, CallAction
  <2>10. CASE pc["caller"] = "go_on"
    <3>1. pipe'["host"] = <<>>
      BY <2>1, <2>10, CallFits, <1>1
    <3>2. /\ pc'["caller"] = "receive_again" /\ pc["server"] = "asked" /\ UNCHANGED buf
          /\ pipe'["plugin"] = Word("go_on") /\ buf.receivedatasize = reply
      <4>1. CallGoOn
        BY <2>10, CallAction
      <4>2. pc["server"] = "asked" /\ pipe["plugin"] = <<>> /\ buf.receivedatasize = reply
        BY <1>1, <2>10 DEF Calls
      <4>3. <<>> \o Word("go_on") = Word("go_on")
        BY WordFacts
      <4>. QED
        BY <1>1, <2>1, <4>1, <4>2, <4>3 DEF CallGoOn, Write, Goto, PCs, Pipes, data
    <3>3. AsksAgain'
      BY <1>1, <2>2, <3>1, <3>2 DEF AsksAgain
    <3>. QED
      BY <1>1, <2>1, <2>2, <3>2, <3>3 DEF Calls, Sized
  <2>11. CASE pc["caller"] = "receive_again"
    <3>1. /\ pc'["caller"] = "return" /\ UNCHANGED <<pah, buf, pipe["plugin"]>>
          /\ pipe["host"] # <<>>
      <4>1. CallReceiveAgain
        BY <2>11, CallAction
      <4>. QED
        BY <1>1, <2>3, <4>1 DEF CallReceiveAgain, CallRead, Goto, PCs, Pipes
    <3>2. output' = pipe["host"]
      BY <2>1, <2>11, <3>1, CallFits, <1>1
    <3>3. Arrived(pipe["host"])
      BY <1>1, <2>11, <3>1 DEF Calls, AsksAgain
    <3>4. Arrived(output)'
      BY <1>1, <2>2, <3>1, <3>2, <3>3 DEF Arrived, Answer, Rests
    <3>. QED
      BY <1>1, <2>1, <2>2, <3>1, <3>4 DEF Calls, Sized
  <2>12. CASE pc["caller"] = "return"
    <3>1. pc'["caller"] = "idle" /\ UNCHANGED buf
      <4>1. CallReturn
        BY <2>12, CallAction
      <4>. QED
        BY <1>1, <4>1 DEF CallReturn, Store, Goto, PCs
    <3>. QED
      BY <1>1, <3>1 DEF Calls, Sized, CallPCs
  <2>. QED
    BY <1>3, <2>4, <2>5, <2>6, <2>7, <2>8, <2>9, <2>10, <2>11, <2>12 DEF InCall, CallPCs
<1>. QED
  BY <1>2, <1>3

\* So a call keeps all of it.
LEMMA CallFlows ==
  ASSUME ~Reorders, Orderly, Orderly', Standing, Flows, CallStart \/ CallStep
  PROVE  Flows'
<1>1. pc'["server"] = pc["server"] /\ pc'["host"] = pc["host"]
  BY CallLeaves DEF Threads
<1>2. (Made' <=> Made) /\ (Running' <=> Running)
  BY <1>1 DEF Made, Running
<1>3. Fits'
  BY CallFits DEF Flows
<1>4. Made => Serves'
  BY CallServes
<1>5. Running => Tells' /\ Ends' /\ Calls' /\ Sized'
  BY CallTells, CallEndsClean, CallKnows
<1>. QED
  BY <1>2, <1>3, <1>4, <1>5 DEF Flows

\* So does the call thread.
LEMMA ServerFlows ==
  ASSUME Orderly, Standing, Flows, ServerStep
  PROVE  Flows'
<1>1. /\ pc["server"] \in ServerPCs /\ pc'["server"] \in ServerPCs \cup {"ended"}
      /\ pc'["host"] = pc["host"] /\ pc'["caller"] = pc["caller"]
      /\ usable' = usable
  BY ServerLeaves DEF Threads, Orderly
<1>2. Made /\ (Running' => Running)
  BY <1>1 DEF Made, Running, ServerPCs
<1>3. Serves'
  BY <1>2, ServerServes DEF Flows
<1>4. CASE Running
  BY <1>3, <1>4, ServerTells, ServerEnds, ServerCalls DEF Flows
<1>5. CASE ~Running
  <2>1. ~usable
    BY <1>2, <1>5 DEF Standing, Starting, Running
  <2>. QED
    BY <1>1, <1>2, <1>3, <1>5, <2>1 DEF Flows, Fits
<1>. QED
  BY <1>4, <1>5

(***************************************************************************)
(* The control thread.                                                     *)
(***************************************************************************)
\* What no thread of a call has touched it still knows.
LEMMA Untouched ==
  ASSUME UNCHANGED <<buf, data, pah.h2p_datasize, pah.p2h_datasize, pipe["plugin"],
                     pc["server"], pc["caller"]>>
  PROVE  /\ Serves' <=> Serves
         /\ Sized' <=> Sized
         /\ Rests' <=> Rests
         /\ InCall' <=> InCall
         /\ Capacity' = Capacity
         /\ Made' <=> Made
         /\ pipe'["host"] = pipe["host"] => (Calls' <=> Calls)
<1>1. UNCHANGED <<buf, request, calls, input, reply, output, pah.h2p_datasize,
                  pah.p2h_datasize, pipe["plugin"], pc["server"], pc["caller"]>>
  BY DEF data
<1>2. Serves' <=> Serves
  BY <1>1 DEF Serves, Matches
<1>3. /\ Sized' <=> Sized
      /\ Rests' <=> Rests
      /\ InCall' <=> InCall
      /\ Capacity' = Capacity
      /\ Made' <=> Made
  BY <1>1 DEF Sized, Rests, InCall, Capacity, Made
<1>4. ASSUME pipe'["host"] = pipe["host"]
      PROVE  Calls' <=> Calls
  <2>1. Answer' = Answer
    BY <1>1 DEF Answer
  <2>2. /\ Arrived(output)' <=> Arrived(output)
        /\ Arrived(pipe["host"])' <=> Arrived(pipe["host"])
    BY <1>1, <1>3, <1>4, <2>1 DEF Arrived
  <2>3. Grows' <=> Grows
    BY <1>1, <1>3, <1>4 DEF Grows
  <2>4. Asks' <=> Asks
    BY <1>1, <1>3, <1>4, <2>2 DEF Asks
  <2>5. AsksAgain' <=> AsksAgain
    BY <1>1, <1>3, <1>4, <2>2 DEF AsksAgain
  <2>. QED
    BY <1>1, <1>3, <2>2, <2>3, <2>4, <2>5 DEF Calls
<1>. QED
  BY <1>2, <1>3, <1>4

\* Before the exchange runs and after it has ended it asks for nothing.
LEMMA ControlRuns ==
  ASSUME Orderly, Standing, ControlStep, Made, ~Running
  PROVE  pc["control"] = "receive"
<1>1. /\ pc \in PCs /\ pc["control"] \notin {"none", "ended", "dead"}
  BY ControlFrame DEF Orderly, TypeOK
<1>2. pc["host"] \notin {"freed", "dead"}
  BY <1>1 DEF Standing, Starting, Joined
<1>3. pc["host"] \in {"create", "tell", "confirmation"}
  BY <1>1, <1>2 DEF Running, PCs, HostPCs
<1>4. Handshake /\ pc["plugin"] \in PluginPCs \cup {"up", "freed", "dead"} \cup DeletePCs
  BY <1>1, <1>3 DEF Orderly, InOrder, PCs
<1>5. /\ pc["plugin"] \in DeletePCs \cup {"freed"} => pc["server"] = "none"
      /\ pc["plugin"] = "dead" => pc["server"] = "dead"
      /\ pc["plugin"] \in PluginPCs \cup {"up"} => pc["control"] \in {"none", "receive"}
  BY <1>4 DEF Handshake
<1>. QED
  BY <1>1, <1>4, <1>5 DEF Made

\* It asks the call thread to end only when that is waiting for a call.
LEMMA ControlFlows ==
  ASSUME Orderly, Standing, Flows, ControlStep
  PROVE  Flows'
<1>1. /\ TypeOK /\ pc \in PCs /\ pipe \in Pipes /\ pah \in Structs /\ buf \in Buffers
      /\ \A t \in {"host", "plugin", "caller", "server"} : pc'[t] = pc[t]
      /\ UNCHANGED <<open, usable, buf, data>> /\ pah'.status = pah.status
      /\ pah'.p2h_datasize = pah.p2h_datasize /\ pipe'["host"] = pipe["host"]
  <2>1. TypeOK /\ pc \in PCs /\ pipe \in Pipes /\ pah \in Structs /\ buf \in Buffers
    BY DEF Orderly, TypeOK
  <2>2. UNCHANGED <<open, usable, buf, data>> /\ pah'.p2h_datasize = pah.p2h_datasize
    BY <2>1 DEF ControlStep, ControlReceive, ControlHeader, ControlSend, Store, Write,
       ReadInt, Structs
  <2>. QED
    BY <2>1, <2>2, ControlFrame DEF Threads
<1>2. /\ Made' <=> Made
      /\ Running' <=> Running
      /\ InCall' <=> InCall
      /\ Told' <=> Told
      /\ PastWait("plugin")' <=> PastWait("plugin")
      /\ Sized' <=> Sized
      /\ Fits' <=> Fits
  BY <1>1 DEF Made, Running, InCall, Told, PastWait, Sized, Fits, Capacity, Processes
<1>3. CASE ControlReceive
  <2>1. /\ pc["control"] = "receive"
        /\ pc'["control"] = IF Got("control", 1) = Word("deleting") THEN "header" ELSE "ended"
        /\ UNCHANGED pah /\ pipe'["plugin"] = pipe["plugin"] /\ Readable("control")
        /\ pipe'["control"] = Left("control", 1)
    BY <1>1, <1>3 DEF ControlReceive, ReadInt, Goto, PCs, Pipes
  <2>2. /\ Serves' <=> Serves
        /\ Calls' <=> Calls
        /\ Rests' <=> Rests
    BY <1>1, <2>1, Untouched
  <2>3. ASSUME Running PROVE Tells' /\ Ends'
    <3>1. Tells /\ Ends
      BY <2>3 DEF Flows
    <3>2. Len(pipe["control"]) <= 1
      <4>1. Len(Word("deleting")) = 1 /\ Len(Word("stopped")) = 1
        BY WordFacts
      <4>2. pipe["control"] = <<>> => Len(pipe["control"]) = 0
        OBVIOUS
      <4>3. pipe["control"] \in {<<>>, Word("deleting"), Word("stopped")}
        BY <3>1 DEF Tells
      <4>4. CASE pipe["control"] = <<>>
        BY <4>2, <4>4
      <4>5. CASE pipe["control"] # <<>>
        <5>1. Len(pipe["control"]) = 1
          BY <4>1, <4>3, <4>5
        <5>. QED
          BY <5>1
      <4>. QED
        BY <4>4, <4>5
    <3>3. Got("control", 1) = pipe["control"] /\ Left("control", 1) = <<>>
      BY <1>1, <3>2, ReadAll
    <3>4. Word("deleting") # <<>>
      BY WordFacts
    <3>5. PluginTells' <=> PluginTells
      BY <2>1, <3>3, <3>4 DEF PluginTells
    <3>6. Told
      <4>1. CASE pipe["control"] = <<>>
        <5>1. pc["plugin"] = "freed"
          BY <2>1, <2>3, <4>1, RunningFacts DEF Readable
        <5>. QED
          BY <3>1, <5>1 DEF Tells, Told, Processes
      <4>2. CASE pipe["control"] # <<>>
        BY <3>1, <4>2 DEF Tells
      <4>. QED
        BY <4>1, <4>2
    <3>7. Tells'
      BY <1>1, <1>2, <2>1, <3>1, <3>3, <3>5, <3>6 DEF Tells, Processes
    <3>8. Ends'
      BY <1>1, <1>2, <2>1, <2>2, <3>1, <3>5, <3>6 DEF Ends
    <3>. QED
      BY <3>7, <3>8
  <2>. QED
    BY <1>2, <2>2, <2>3 DEF Flows
<1>4. CASE ControlHeader \/ ControlSend
  <2>1. /\ pc["control"] \in {"header", "send"} /\ pipe'["control"] = pipe["control"]
        /\ pc["control"] = "header" =>
             /\ pc'["control"] = "send" /\ pah'.h2p_datasize = 0
             /\ pipe'["plugin"] = pipe["plugin"]
        /\ pc["control"] = "send" =>
             /\ pc'["control"] = "ended" /\ pah'.h2p_datasize = pah.h2p_datasize
             /\ pipe'["plugin"] \in {pipe["plugin"], pipe["plugin"] \o Word("stop")}
    BY <1>1, <1>4 DEF ControlHeader, ControlSend, Store, Write, Goto, PCs, Pipes, Structs
  <2>2. Made => Running
    BY <2>1, ControlRuns
  <2>3. SUFFICES ASSUME Running PROVE Serves' /\ Tells' /\ Ends' /\ Calls'
    BY <1>2, <2>2 DEF Flows
  <2>4. Serves /\ Tells /\ Ends /\ Calls /\ Sized /\ PluginTells
    BY <2>1, <2>3 DEF Flows, Running, PluginTells
  <2>5. Told /\ PastWait("plugin") /\ pc["host"] # "del_send"
    BY <2>4 DEF Tells, Processes
  <2>6. ~InCall /\ Rests
    BY <2>3, <2>4, <2>5, RunningFacts DEF Ends, Processes
  <2>7. Calls'
    <3>1. request' = request
      BY <1>1 DEF data
    <3>. QED
      BY <1>1, <2>4, <2>6, <3>1 DEF Calls, InCall, CallPCs
  <2>8. CASE pc["control"] = "header"
    <3>1. pipe["control"] = <<>>
      BY <2>4, <2>6, <2>8 DEF Tells, Rests
    <3>2. PluginTells'
      BY <2>1, <2>8 DEF PluginTells
    <3>3. Rests'
      BY <1>1, <2>1, <2>6, <2>8 DEF Rests
    <3>4. Serves'
      BY <3>3 DEF Serves, Answering, Rests
    <3>5. Tells'
      BY <1>1, <1>2, <2>1, <2>4, <2>5, <2>8, <3>1, <3>2 DEF Tells, Processes
    <3>6. Ends'
      BY <3>3, <2>1, <2>8 DEF Ends, Rests
    <3>. QED
      BY <2>7, <3>4, <3>5, <3>6
  <2>9. CASE pc["control"] = "send"
    <3>1. pah.h2p_datasize = 0 /\ pipe["control"] = <<>>
      BY <2>4, <2>9 DEF Tells
    <3>2. pipe'["plugin"] \in {<<>>, Word("stop")}
      BY <2>1, <2>6, <2>9, WordFacts DEF Rests
    <3>3. ~PluginTells'
      <4>1. Word("deleting") # <<>>
        BY WordFacts
      <4>. QED
        BY <2>1, <2>9, <3>1, <4>1 DEF PluginTells
    <3>4. Serves'
      <4>1. Len(Word("stop")) = 1 /\ 1 <= buf.plugin_receivedatasize
        BY <1>1, <2>4, WordFacts DEF Sized, Buffers
      <4>2. buf' = buf
        BY <1>1
      <4>. QED
        BY <1>1, <2>1, <2>6, <2>9, <3>1, <3>2, <4>1, <4>2 DEF Serves, Matches, Answering, Rests
    <3>5. Tells'
      BY <1>1, <1>2, <2>1, <2>4, <2>5, <2>9, <3>1, <3>3 DEF Tells, Processes
    <3>6. Ends'
      BY <1>1, <1>2, <2>1, <2>5, <2>6, <2>9, <3>1, <3>3 DEF Ends, Rests
    <3>. QED
      BY <2>7, <3>4, <3>5, <3>6
  <2>. QED
    BY <2>1, <2>8, <2>9
<1>. QED
  BY <1>3, <1>4 DEF ControlStep

(***************************************************************************)
(* Starting up and ending.                                                 *)
(***************************************************************************)
\* The host confirms a call thread that waits, and a plugin that is up.
LEMMA HostConfirms ==
  ASSUME Orderly, Standing, HostConfirmation, Made
  PROVE  /\ pc'["host"] = "allow" /\ pc["plugin"] = "up" /\ Handshake
<1>1. TypeOK /\ pc \in PCs /\ pipe \in Pipes
  BY DEF Orderly, TypeOK
<1>2. /\ pc["host"] = "confirmation" /\ Readable("host")
      /\ pipe["host"] = Word("thread") => pc'["host"] = "allow"
  <2>1. Word("thread") # <<>> /\ Word("thread")[1].kind = "thread"
    BY WordFacts
  <2>. QED
    BY <1>1, <2>1 DEF HostConfirmation, ReadInt, IntKinds, Goto, PCs
<1>3. Handshake /\ pc["plugin"] \in PluginPCs \cup {"up", "freed", "dead"} \cup DeletePCs
  BY <1>1, <1>2 DEF Orderly, InOrder, PCs
<1>4. pc["plugin"] \in PluginPCs \cup {"up"}
  <2>1. /\ pc["plugin"] \in DeletePCs \cup {"freed"} => pc["server"] = "none"
        /\ pc["plugin"] = "dead" => pc["server"] = "dead"
    BY <1>3 DEF Handshake
  <2>. QED
    BY <1>3, <2>1 DEF Made
<1>5. pipe["host"] = IF pc["plugin"] = "up" THEN Word("thread") ELSE <<>>
  BY <1>3, <1>4 DEF Handshake
<1>6. pc["plugin"] = "up"
  <2>1. "plugin" \in open
    BY <1>4 DEF Orderly, Opened, PluginPCs
  <2>. QED
    BY <1>2, <1>5, <2>1 DEF Readable
<1>. QED
  BY <1>2, <1>3, <1>5, <1>6

\* The host allows calls in an exchange where everything waits, and tells the call
\* thread to end only when it is waiting.
LEMMA HostFlows ==
  ASSUME Orderly, Orderly', Standing, Standing', Flows, HostStep
  PROVE  Flows'
<1>1. /\ TypeOK /\ pc \in PCs /\ pipe \in Pipes /\ pah \in Structs /\ buf \in Buffers
      /\ pc'["plugin"] = pc["plugin"] /\ pc'["caller"] = pc["caller"]
      /\ pc'["server"] = pc["server"]
      /\ pah'.status = pah.status /\ UNCHANGED <<buf, data>>
      /\ pah'.p2h_datasize = pah.p2h_datasize
  <2>1. TypeOK /\ pc \in PCs /\ pipe \in Pipes /\ pah \in Structs /\ buf \in Buffers
    BY DEF Orderly, TypeOK
  <2>2. UNCHANGED <<buf, data>> /\ pah'.p2h_datasize = pah.p2h_datasize
    BY <2>1 DEF HostStep, HostCreateThread, HostCannotCreateThread, HostTell,
       HostConfirmation, HostAllow, HostDeleteHeader, HostDeleteSend, Store, Write,
       ReadInt, Structs
  <2>. QED
    BY <2>1, <2>2, HostFrame
<1>2. Made' <=> Made
  BY <1>1 DEF Made
<1>3. CASE HostCreateThread \/ HostCannotCreateThread \/ HostTell
  <2>1. pc["host"] \in {"create", "tell"}
    BY <1>3 DEF HostCreateThread, HostCannotCreateThread, HostTell, Write, Goto
  <2>2. pc["plugin"] \in {"init", "status", "dead"}
    BY <2>1 DEF Orderly, InOrder, Handshake
  <2>3. ~Made
    BY <2>2 DEF Made, Standing, Starting
  <2>4. ~usable'
    <3>1. ~usable /\ ~HostAllow
      BY <2>1 DEF Orderly, Opened, HostPCs, HostAllow, Goto
    <3>. QED
      BY <1>1, <1>3, <3>1, HostFrame
  <2>. QED
    BY <1>2, <2>3, <2>4 DEF Flows, Fits, Running
<1>4. CASE HostConfirmation
  <2>1. /\ ~usable' /\ pc["host"] = "confirmation" /\ UNCHANGED pah
        /\ pipe'["plugin"] = pipe["plugin"] /\ pipe'["control"] = pipe["control"]
        /\ pc'["control"] = pc["control"]
    <3>1. pc["host"] = "confirmation"
      BY <1>4 DEF HostConfirmation, ReadInt, Goto
    <3>2. ~usable
      BY <3>1 DEF Orderly, Opened, HostPCs
    <3>. QED
      BY <1>1, <1>4, <3>1, <3>2 DEF HostConfirmation, ReadInt, Goto, PCs, Pipes
  <2>2. SUFFICES ASSUME Made PROVE Serves' /\ Tells' /\ Ends' /\ Calls' /\ Sized'
    BY <1>2, <2>1 DEF Flows, Fits, Running
  <2>3. pc'["host"] = "allow" /\ pc["plugin"] = "up" /\ Handshake
    BY <1>4, <2>2, HostConfirms
  <2>4. /\ pah.status = 0 /\ pipe["control"] = <<>> /\ pc["control"] \in {"none", "receive"}
        /\ pc["server"] = "receive" /\ pipe["plugin"] = <<>>
    BY <2>1, <2>3 DEF Handshake, PluginPCs
  <2>5. pc["caller"] = "idle" /\ pah.h2p_datasize = 0 /\ Sized
    BY <2>1 DEF Standing, Fresh, Orderly, Opened, HostPCs
  <2>6. ~Told'
    BY <1>1, <2>1, <2>3, <2>4 DEF Told, Processes
  <2>7. ~PluginTells'
    <3>1. Word("deleting") # <<>>
      BY WordFacts
    <3>. QED
      BY <2>1, <2>4, <3>1 DEF PluginTells
  <2>8. Rests'
    BY <1>1, <2>1, <2>4 DEF Rests
  <2>9. Serves'
    BY <2>8 DEF Serves, Answering, Rests
  <2>10. Tells'
    BY <1>1, <2>1, <2>3, <2>4, <2>5, <2>6, <2>7 DEF Tells, Processes
  <2>11. Ends'
    BY <2>8 DEF Ends, Rests
  <2>12. Calls' /\ Sized'
    BY <1>1, <2>5 DEF Calls, Sized, CallPCs
  <2>. QED
    BY <2>9, <2>10, <2>11, <2>12
<1>5. CASE HostAllow
  <2>1. /\ pc["host"] = "allow" /\ pc'["host"] = "up" /\ pc'["control"] = pc["control"]
        /\ UNCHANGED pipe /\ pah'.h2p_datasize = pah.h2p_datasize
    BY <1>1, <1>5 DEF HostAllow, Goto, PCs, Structs
  <2>2. pc["caller"] = "idle" /\ pipe["host"] = <<>>
    BY <2>1 DEF Orderly, Opened, HostPCs, Standing, Starting
  <2>3. Fits'
    <3>1. Len(pipe'["host"]) = 0
      BY <2>1, <2>2
    <3>2. Capacity' = 0
      BY <1>1, <2>2 DEF Capacity
    <3>. QED
      BY <3>1, <3>2 DEF Fits
  <2>4. /\ Serves' <=> Serves
        /\ Sized' <=> Sized
        /\ Rests' <=> Rests
        /\ InCall' <=> InCall
        /\ Calls' <=> Calls
    BY <1>1, <2>1, Untouched
  <2>5. /\ Running' <=> Running
        /\ Told' <=> Told
        /\ PluginTells' <=> PluginTells
        /\ PastWait("plugin")' <=> PastWait("plugin")
    BY <1>1, <1>2, <2>1 DEF Running, Told, PluginTells, PastWait, Processes, DeletePCs
  <2>6. Tells => Tells'
    BY <1>1, <2>1, <2>5 DEF Tells, Processes
  <2>7. Ends => Ends'
    BY <1>1, <2>1, <2>4, <2>5 DEF Ends
  <2>. QED
    BY <1>2, <2>3, <2>4, <2>5, <2>6, <2>7 DEF Flows
<1>6. CASE HostDeleteHeader \/ HostDeleteSend
  <2>1. /\ pc["host"] \in {"del_header", "del_send"} /\ pc'["control"] = pc["control"]
        /\ usable' = usable
        /\ pipe'["host"] = pipe["host"] /\ pipe'["control"] = pipe["control"]
        /\ pc["host"] = "del_header" =>
             /\ pc'["host"] = "del_send" /\ pah'.h2p_datasize = -1
             /\ pipe'["plugin"] = pipe["plugin"]
        /\ pc["host"] = "del_send" =>
             /\ pah'.h2p_datasize = pah.h2p_datasize
             /\ pc'["host"] = IF "plugin" \in open THEN "del_mark" ELSE "del_unlock"
             /\ "plugin" \in open => pipe'["plugin"] = pipe["plugin"] \o Word("stop")
    BY <1>1, <1>6 DEF HostDeleteHeader, HostDeleteSend, Store, Write, Goto, PCs, Pipes,
       Structs
  <2>2. Running' = Running /\ (Made => Running)
    BY <1>2, <2>1 DEF Running, DeletePCs
  <2>3. /\ Fits' <=> Fits
        /\ InCall' <=> InCall
        /\ Sized' <=> Sized
    BY <1>1, <2>1 DEF Fits, InCall, Sized, Capacity
  <2>4. SUFFICES ASSUME Running PROVE Serves' /\ Tells' /\ Ends' /\ Calls'
    BY <1>2, <2>2, <2>3 DEF Flows
  <2>5. Serves /\ Tells /\ Ends /\ Calls /\ Sized
    BY <2>4 DEF Flows, Running
  <2>6. ~InCall /\ ~Told
    <3>1. PastWait("host")
      BY <2>1 DEF PastWait
    <3>. QED
      BY <2>1, <2>4, <2>5, <3>1, RunningFacts DEF Tells, Processes
  <2>7. Rests /\ pipe["control"] = <<>> /\ pc["control"] \in {"none", "receive"}
    BY <2>5, <2>6 DEF Ends, Tells
  <2>8. Calls'
    <3>1. request' = request
      BY <1>1 DEF data
    <3>. QED
      BY <1>1, <2>5, <2>6, <3>1 DEF Calls, InCall, CallPCs
  <2>9. ~PluginTells'
    <3>1. Word("deleting") # <<>>
      BY WordFacts
    <3>. QED
      BY <2>1, <2>7, <3>1 DEF PluginTells
  <2>10. pc["plugin"] \notin {"del_header", "del_send", "del_mark", "del_unlock"}
    BY <2>1 DEF Standing, DeletesLocked, Processes
  <2>11. CASE pc["host"] = "del_header"
    <3>1. Rests'
      BY <1>1, <2>1, <2>7, <2>11 DEF Rests
    <3>2. Serves' /\ Ends'
      BY <3>1, <2>1, <2>11 DEF Serves, Answering, Ends, Rests
    <3>3. ~Told'
      BY <1>1, <2>1, <2>6, <2>11 DEF Told, Processes
    <3>4. Tells'
      BY <1>1, <2>1, <2>5, <2>7, <2>9, <2>10, <2>11, <3>3 DEF Tells, Processes
    <3>. QED
      BY <2>8, <3>2, <3>4
  <2>12. CASE pc["host"] = "del_send"
    <3>1. "plugin" \in open
      <4>1. pc["plugin"] # "freed"
        BY <2>5, <2>6 DEF Tells, Told, Processes
      <4>. QED
        BY <2>4, <4>1, RunningFacts
    <3>2. pah'.h2p_datasize = -1 /\ pc'["host"] = "del_mark"
      BY <2>1, <2>5, <2>12, <3>1 DEF Tells
    <3>3. pipe'["plugin"] = Word("stop")
      BY <2>1, <2>7, <2>12, <3>1, WordFacts DEF Rests
    <3>4. Told'
      BY <3>2 DEF Told, Processes
    <3>5. Serves'
      <4>1. Len(Word("stop")) = 1 /\ 1 <= buf.plugin_receivedatasize
        BY <1>1, <2>5, WordFacts DEF Sized, Buffers
      <4>2. buf' = buf
        BY <1>1
      <4>. QED
        BY <1>1, <2>7, <3>2, <3>3, <4>1, <4>2 DEF Serves, Matches, Answering, Rests
    <3>6. Tells'
      BY <1>1, <2>1, <2>5, <2>7, <2>9, <2>10, <3>2, <3>4 DEF Tells, Processes
    <3>7. Ends'
      BY <1>1, <2>3, <2>6, <2>7, <2>9, <3>2, <3>4 DEF Ends, Rests
    <3>. QED
      BY <2>8, <3>5, <3>6, <3>7
  <2>. QED
    BY <2>1, <2>11, <2>12
<1>. QED
  BY <1>3, <1>4, <1>5, <1>6 DEF HostStep

\* The plugin makes a call thread that waits, and asks the control thread to end it
\* only when no delete of the host has.
LEMMA PluginFlows ==
  ASSUME Orderly, Orderly', Standing, Standing', Flows, PluginStep
  PROVE  Flows'
<1>1. /\ TypeOK /\ pc \in PCs /\ pipe \in Pipes /\ pah \in Structs
      /\ pc'["host"] = pc["host"] /\ pc'["caller"] = pc["caller"]
      /\ pc'["control"] = pc["control"] /\ usable' = usable
      /\ UNCHANGED <<buf, data>>
      /\ pah'.p2h_datasize = pah.p2h_datasize /\ pah'.h2p_datasize = pah.h2p_datasize
  <2>1. TypeOK /\ pc \in PCs /\ pipe \in Pipes /\ pah \in Structs
    BY DEF Orderly, TypeOK
  <2>2. /\ UNCHANGED <<buf, data>> /\ pah'.p2h_datasize = pah.p2h_datasize
        /\ pah'.h2p_datasize = pah.h2p_datasize
    BY <2>1 DEF PluginStep, PluginInit, PluginStatus, PluginCreateThread,
       PluginCannotCreateThread, PluginTell, PluginDeleteSend, Write, ReadInt, Structs
  <2>. QED
    BY <2>1, <2>2, PluginFrame
<1>2. CASE PluginInit \/ PluginStatus \/ PluginCannotCreateThread
  <2>1. pc["plugin"] \in {"init", "status", "create"} /\ pc'["server"] = pc["server"]
    BY <1>1, <1>2 DEF PluginInit, PluginStatus, PluginCannotCreateThread, Write, ReadInt,
       Goto, PCs
  <2>2. ~usable /\ pc["server"] = "none"
    BY <2>1 DEF Orderly, InOrder, Standing, Starting, PluginPCs
  <2>. QED
    BY <1>1, <2>1, <2>2 DEF Flows, Fits, Made, Running
<1>3. CASE PluginCreateThread
  <2>1. pc["plugin"] = "create" /\ pc'["server"] = "receive" /\ UNCHANGED pipe
    BY <1>1, <1>3 DEF PluginCreateThread, Goto, PCs
  <2>2. /\ ~usable /\ pipe["plugin"] = <<>>
        /\ pc["host"] \in {"confirmation", "dead"}
    BY <2>1 DEF Orderly, InOrder, Standing, Starting, PluginPCs
  <2>3. Serves'
    BY <2>1, <2>2 DEF Serves, Answering
  <2>. QED
    BY <1>1, <2>2, <2>3 DEF Flows, Fits, Running, DeletePCs
<1>4. CASE PluginTell
  <2>1. /\ pc["plugin"] = "tell" /\ pc'["server"] = pc["server"]
        /\ pipe'["plugin"] = pipe["plugin"]
    BY <1>1, <1>4 DEF PluginTell, Write, Goto, PCs, Pipes
  <2>2. ~usable /\ pc["host"] \in {"confirmation", "dead"}
    BY <2>1 DEF Orderly, InOrder, Standing, Starting, PluginPCs
  <2>3. /\ Serves' <=> Serves
        /\ Made' <=> Made
    BY <1>1, <2>1, Untouched
  <2>. QED
    BY <1>1, <2>2, <2>3 DEF Flows, Fits, Running, DeletePCs
<1>5. CASE PluginDeleteSend
  <2>1. /\ pc["plugin"] = "del_send" /\ pc'["server"] = pc["server"] /\ UNCHANGED pah
        /\ pipe'["plugin"] = pipe["plugin"] /\ pipe'["host"] = pipe["host"]
        /\ pc'["plugin"] = IF "host" \in open THEN "del_mark" ELSE "del_unlock"
        /\ "host" \in open => pipe'["control"] = pipe["control"] \o Word("deleting")
    BY <1>1, <1>5 DEF PluginDeleteSend, Write, Goto, PCs, Pipes
  <2>2. /\ Serves' <=> Serves
        /\ Sized' <=> Sized
        /\ Rests' <=> Rests
        /\ InCall' <=> InCall
        /\ Capacity' = Capacity
        /\ Made' <=> Made
        /\ Calls' <=> Calls
    BY <1>1, <2>1, Untouched
  <2>3. Running' <=> Running
    BY <1>1, <2>2 DEF Running
  <2>4. Fits'
    BY <1>1, <2>1, <2>2 DEF Flows, Fits
  <2>5. ASSUME Running PROVE Tells' /\ Ends'
    <3>1. Tells /\ Ends
      BY <2>5 DEF Flows
    <3>2. ~Told /\ PastWait("plugin") /\ "host" \in open
      BY <2>1, <2>5, <3>1, RunningFacts DEF Tells, PastWait, Processes
    <3>3. /\ ~InCall /\ Rests /\ pipe["control"] = <<>>
          /\ pc["control"] \in {"none", "receive"}
      BY <2>5, <3>1, <3>2, RunningFacts DEF Ends, Tells, Processes
    <3>4. pc["host"] \notin {"del_header", "del_send", "del_mark", "del_unlock"}
      BY <2>1 DEF Standing, DeletesLocked, Processes
    <3>5. pah.h2p_datasize # -1
      BY <3>1, <3>2, <3>4 DEF Tells
    <3>6. pipe'["control"] = Word("deleting") /\ pc'["plugin"] = "del_mark"
      BY <2>1, <3>2, <3>3, WordFacts
    <3>7. Told' /\ PastWait("plugin")'
      BY <3>6 DEF Told, PastWait, Processes
    <3>8. Tells'
      BY <1>1, <2>1, <3>1, <3>3, <3>4, <3>5, <3>6, <3>7 DEF Tells, Processes
    <3>9. Ends'
      BY <1>1, <2>1, <2>2, <3>3 DEF Ends, Rests
    <3>. QED
      BY <3>8, <3>9
  <2>. QED
    BY <2>2, <2>3, <2>4, <2>5 DEF Flows
<1>. QED
  BY <1>2, <1>3, <1>4, <1>5 DEF PluginStep

\* A delete tells the other side once: status is set when it is done.
LEMMA DeleteFlows ==
  ASSUME ~Reorders, Orderly, Orderly', Standing, Standing', Flows,
         NEW p \in Processes, DeleteBegin(p) \/ DeleteStep(p)
  PROVE  Flows'
<1>1. /\ TypeOK /\ pc \in PCs /\ pah \in Structs
      /\ \A t \in Threads \ {p} : pc'[t] = pc[t]
      /\ UNCHANGED <<pipe, buf, data>> /\ usable' \in {usable, FALSE}
      /\ pah'.p2h_datasize = pah.p2h_datasize /\ pah'.h2p_datasize = pah.h2p_datasize
      /\ pc[p] \in DeletePCs \cup {"up"} /\ pc'[p] \in DeletePCs \cup {"freed"}
  <2>1. TypeOK /\ pc \in PCs /\ pah \in Structs
    BY DEF Orderly, TypeOK
  <2>2. /\ UNCHANGED <<buf, data>> /\ pah'.p2h_datasize = pah.p2h_datasize
        /\ pah'.h2p_datasize = pah.h2p_datasize
    BY <2>1 DEF DeleteBegin, DeleteStep, DeleteForbid, DeleteLookReordered,
       DeleteForbidLate, DeleteWait, DeleteGiveUp, DeleteLock, DeleteLockFails,
       DeleteStatus, DeleteMark, DeleteUnlock, DeleteJoin, DeleteClose, Closing, LockAs,
       Move, Store, Structs
  <2>. QED
    BY <2>1, <2>2, DeleteFrame
<1>2. p \in {"host", "plugin"}
  BY DEF Processes
<1>3. /\ pc'["server"] = pc["server"] /\ pc'["caller"] = pc["caller"]
      /\ pc'["control"] = pc["control"]
  BY <1>1, <1>2 DEF Threads
<1>4. /\ Serves' <=> Serves
      /\ Sized' <=> Sized
      /\ Rests' <=> Rests
      /\ InCall' <=> InCall
      /\ Capacity' = Capacity
      /\ Made' <=> Made
      /\ Calls' <=> Calls
  BY <1>1, <1>3, Untouched
<1>5. Running' => Running
  BY <1>1, <1>2, <1>4 DEF Running, Threads
<1>6. Fits'
  BY <1>1, <1>4 DEF Flows, Fits
<1>7. (PluginTells' <=> PluginTells) /\ (PastWait("plugin") => PastWait("plugin")')
  <2>1. PluginTells' <=> PluginTells
    BY <1>1, <1>3 DEF PluginTells
  <2>2. PastWait("plugin") => PastWait("plugin")'
    <3>1. CASE p = "host"
      BY <1>1, <3>1 DEF PastWait, Threads
    <3>2. CASE p = "plugin"
      BY <1>1, <3>2 DEF PastWait, PCs, DeleteBegin, DeleteStep, DeleteForbid,
         DeleteLookReordered, DeleteForbidLate, DeleteWait, DeleteGiveUp, DeleteLock,
         DeleteLockFails, DeleteStatus, DeleteMark, DeleteUnlock, DeleteJoin, DeleteClose,
         LockAs, Move, Store, Goto
    <3>. QED
      BY <1>2, <3>1, <3>2
  <2>. QED
    BY <2>1, <2>2
<1>8. ASSUME Running, Running' PROVE Tells' /\ Ends'
  <2>1. Tells /\ Ends /\ DeletesLocked /\ DeletesLocked'
    BY <1>8 DEF Flows, Standing
  <2>2. /\ Told' <=> Told
        /\ pc'[p] \in {"del_header", "del_send"} => ~Told
        /\ pc'[p] \in {"del_unlock", "del_join", "del_close", "freed"} => pah'.status = 1
        /\ \A q \in Processes \ {p} : pc'[q] = pc[q]
        /\ pah.status = 1 => pah'.status = 1
        /\ pc'[p] = "del_send" => p = "plugin"
        /\ pc[p] # "del_send"
    <3>1. \A q \in Processes \ {p} : pc'[q] = pc[q]
      BY <1>1 DEF Processes, Threads
    <3>2. CASE DeleteMark(p)
      <4>1. /\ pc[p] = "del_mark" /\ pc'[p] = "del_unlock" /\ pah'.status = 1
        BY <1>1, <1>2, <3>2 DEF DeleteMark, Store, Goto, PCs, Structs
      <4>. QED
        BY <3>1, <4>1 DEF Told
    <3>3. CASE DeleteStatus(p)
      <4>1. /\ pc[p] = "del_status" /\ UNCHANGED pah
            /\ pc'[p] = IF pah.status # 0 THEN "del_unlock"
                        ELSE IF p = "host" THEN "del_header" ELSE "del_send"
        BY <1>1, <1>2, <3>3 DEF DeleteStatus, Move, Goto, PCs
      <4>2. pah.status \in {0, 1}
        BY <1>1 DEF Structs
      <4>3. \A q \in Processes : pc[q] # "del_mark" /\ pc'[q] # "del_mark"
        BY <2>1, <4>1, <3>1 DEF DeletesLocked
      <4>4. pc'[p] \in {"del_unlock", "del_header", "del_send"}
        BY <4>1
      <4>. QED
        BY <1>2, <3>1, <4>1, <4>2, <4>3, <4>4 DEF Told
    <3>4. CASE ~DeleteMark(p) /\ ~DeleteStatus(p)
      <4>1. /\ pah'.status = pah.status
            /\ pc[p] \notin {"del_mark", "del_send", "del_header"}
            /\ pc'[p] \notin {"del_mark", "del_send", "del_header"}
            /\ pc'[p] \in {"del_unlock", "del_join", "del_close", "freed"} =>
                 pc[p] \in {"del_unlock", "del_join", "del_close"}
        BY <1>1, <1>2, <1>8, <3>4 DEF DeleteBegin, DeleteStep, DeleteForbid,
           DeleteLookReordered, DeleteForbidLate, DeleteWait, DeleteGiveUp, DeleteLock,
           DeleteLockFails, DeleteUnlock, DeleteJoin, DeleteClose, Closing, LockAs, Move,
           Store, Goto, PCs, Structs
      <4>2. pc[p] \in {"del_unlock", "del_join", "del_close"} => pah.status = 1
        BY <2>1 DEF Tells
      <4>. QED
        BY <3>1, <4>1, <4>2 DEF Told
    <3>. QED
      BY <3>2, <3>3, <3>4
  <2>3. Tells'
    <3>1. \A q \in Processes :
            /\ pc'[q] \in {"del_header", "del_send"} => ~Told'
            /\ pc'[q] \in {"del_unlock", "del_join", "del_close", "freed"} => pah'.status = 1
      BY <2>1, <2>2 DEF Tells
    <3>2. pc'["host"] = "del_send" <=> pc["host"] = "del_send"
      BY <1>2, <2>2 DEF Processes
    <3>. QED
      BY <1>1, <1>3, <1>7, <2>1, <2>2, <3>1, <3>2 DEF Tells
  <2>4. Ends'
    BY <1>1, <1>3, <1>4, <1>7, <2>1, <2>2 DEF Ends
  <2>. QED
    BY <2>3, <2>4
<1>. QED
  BY <1>4, <1>5, <1>6, <1>8 DEF Flows

\* When the host dies nobody knows more than before, when the plugin dies nobody is
\* left to know anything.
LEMMA CrashFlows ==
  ASSUME Standing, Flows, NEW p \in Processes, Crash(p)
  PROVE  Flows'
<1>1. UNCHANGED <<pah, pipe, buf, data>> /\ usable' = (p # "host" /\ usable)
  BY DEF Crash, Closing
<1>2. CASE p = "host"
  <2>1. pc'["host"] = "dead" /\ pc'["server"] = pc["server"]
    BY <1>2 DEF Crash, Threads, ProcessOf
  <2>2. (Serves' <=> Serves) /\ (Made' <=> Made)
    <3>1. UNCHANGED <<buf, request, calls, input, reply, pah.h2p_datasize,
                      pah.p2h_datasize, pipe["plugin"], pc["server"]>>
      BY <1>1, <2>1 DEF data
    <3>. QED
      BY <3>1 DEF Serves, Matches, Made
  <2>. QED
    BY <1>1, <1>2, <2>1, <2>2 DEF Flows, Fits, Running, DeletePCs
<1>3. CASE p = "plugin"
  <2>1. pc'["server"] = "dead" /\ pc'["caller"] = pc["caller"]
    BY <1>3 DEF Crash, Threads, ProcessOf
  <2>2. Fits'
    BY <1>1, <2>1 DEF Flows, Fits, Capacity
  <2>. QED
    BY <2>1, <2>2 DEF Flows, Made, Running
<1>. QED
  BY <1>2, <1>3 DEF Processes

\* The whole invariant of the calls.
Flowing == Orderly /\ Standing /\ Flows

\* It holds at first.
LEMMA InitFlowing == Init => Flowing
<1>. SUFFICES ASSUME Init PROVE Standing /\ Flows
  BY InitOrderly DEF Flowing
<1>1. /\ pc["host"] = "create" /\ pc["plugin"] = "init" /\ pc["caller"] = "idle"
      /\ pc["control"] = "none" /\ pc["server"] = "none"
      /\ pipe["plugin"] = <<>> /\ pipe["host"] = <<>> /\ pipe["control"] = <<>>
      /\ pah.h2p_datasize = 0 /\ usable = FALSE /\ open = Processes
  BY DEF Init
<1>2. Starting
  BY <1>1 DEF Starting, PluginPCs, DeletePCs
<1>3. Sized
  BY DEF Init, Sized
<1>4. \A p \in Processes : pc[p] \in {"create", "init"}
  BY <1>1 DEF Processes
<1>5. Fresh /\ DeletesLocked /\ Joined
  BY <1>1, <1>3, <1>4 DEF Fresh, DeletesLocked, Joined
<1>6. Flows
  BY <1>1 DEF Flows, Fits, Made, Running
<1>. QED
  BY <1>2, <1>5, <1>6 DEF Standing

\* Every step keeps it.
LEMMA FlowingStep ==
  ASSUME ~GivesUp, ~Reorders
  PROVE  Flowing /\ InTime /\ [Next]_vars /\ DeletesLocked' => Flowing'
<1>. SUFFICES ASSUME Flowing, InTime, [Next]_vars, DeletesLocked' PROVE Flows'
  BY OrderlyStep, StandingStep DEF Flowing
<1>1. Orderly /\ Standing /\ Flows /\ Orderly' /\ Standing'
  BY OrderlyStep, StandingStep DEF Flowing
<1>2. CASE CallStart \/ CallStep
  BY <1>1, <1>2, CallFlows
<1>3. CASE ServerStep \/ ControlStep
  BY <1>1, <1>3, ServerFlows, ControlFlows
<1>4. CASE HostStep \/ PluginStep
  BY <1>1, <1>4, HostFlows, PluginFlows
<1>5. ASSUME NEW p \in Processes, DeleteBegin(p) \/ DeleteStep(p) \/ Crash(p)
      PROVE  Flows'
  BY <1>1, <1>5, DeleteFlows, CrashFlows
<1>6. CASE UNCHANGED vars
  <2>1. UNCHANGED <<pc, pah, pipe, buf, data, usable>>
    BY <1>6 DEF vars
  <2>2. /\ UNCHANGED <<buf, data, pah.h2p_datasize, pah.p2h_datasize, pipe["plugin"],
                       pipe["host"], pc["server"], pc["caller"]>>
    BY <2>1
  <2>3. /\ Serves' <=> Serves
        /\ Sized' <=> Sized
        /\ Rests' <=> Rests
        /\ InCall' <=> InCall
        /\ Capacity' = Capacity
        /\ Made' <=> Made
        /\ Calls' <=> Calls
    BY <2>2, Untouched
  <2>4. /\ Told' <=> Told
        /\ PluginTells' <=> PluginTells
        /\ PastWait("plugin")' <=> PastWait("plugin")
        /\ Running' <=> Running
    BY <2>1, <2>3 DEF Told, PluginTells, PastWait, Running
  <2>5. (Tells' <=> Tells) /\ (Ends' <=> Ends) /\ (Fits' <=> Fits)
    BY <2>1, <2>3, <2>4 DEF Tells, Ends, Fits
  <2>. QED
    BY <1>1, <2>3, <2>4, <2>5 DEF Flows
<1>. QED
  BY <1>1, <1>2, <1>3, <1>4, <1>5, <1>6 DEF Next

\* So it holds for ever, as long as every delete gets the lock file.
LEMMA AlwaysFlowing ==
  ASSUME ~GivesUp, ~Reorders, ~EarlyDelete
  PROVE  Spec /\ []DeletesLocked => []Flowing
<1>1. Flowing /\ [Next]_vars /\ DeletesLocked' => Flowing'
  BY FlowingStep, DeletesInTime
<1>. QED
  BY <1>1, InitFlowing, PTL DEF Spec

\* When the call thread acts on h2p_datasize, that still says what the message was
\* sent for that woke it up, whichever of the three writers sent it, and whichever
\* process died meanwhile, as long as every delete gets the lock file.
THEOREM HeadersMatch ==
  ASSUME ~GivesUp, ~Reorders, ~EarlyDelete
  PROVE  Spec /\ []DeletesLocked => []MessageMatchesHeader
<1>1. Flowing => MessageMatchesHeader
  BY DEF Flowing, Flows, Made, Serves, Matches, MessageMatchesHeader
<1>. QED
  BY <1>1, AlwaysFlowing, PTL

\* A call reads all that was sent to it: once it has returned nothing is left on the
\* pipe for the next one, also when the plugin died during it; same condition.
THEOREM AlwaysNothingStray ==
  ASSUME ~GivesUp, ~Reorders, ~EarlyDelete
  PROVE  Spec /\ []DeletesLocked => []NothingStray
<1>1. Flowing => NothingStray
  <2>. SUFFICES ASSUME Flowing, usable, ~InCall PROVE pipe["host"] = <<>>
    BY DEF NothingStray
  <2>1. Len(pipe["host"]) <= 0
    BY DEF Flowing, Flows, Fits, Capacity, InCall, CallPCs
  <2>2. pipe["host"] \in Seq(Units)
    BY DEF Flowing, Orderly, TypeOK, Pipes
  <2>. QED
    BY <2>1, <2>2, EmptySeq
<1>. QED
  BY <1>1, AlwaysFlowing, PTL

(***************************************************************************)
(* Telling the control thread.                                             *)
(***************************************************************************)
\* There is at most one word for the control thread.
OneWord == Len(pipe["control"]) <= 1

\* A plugin that never made its call thread is told of nothing, and tells the host
\* only at the end of its delete.
NoneTells ==
  pc["server"] = "none" /\ pipe["control"] # <<>> =>
    pc["plugin"] \in {"del_mark", "del_unlock", "del_join", "del_close", "freed"}

\* Two steps write to the control thread; both find its pipe empty.
LEMMA ControlPipe ==
  ASSUME Flowing, NoneTells, [Next]_vars
  PROVE  \/ pipe'["control"] = pipe["control"]
         \/ pipe'["control"] = Left("control", 1) /\ pc'["plugin"] = pc["plugin"]
         \/ /\ pipe["control"] = <<>> /\ pipe'["control"] = Word("stopped")
            /\ pc'["server"] = "ended"
         \/ /\ pipe["control"] = <<>> /\ pipe'["control"] = Word("deleting")
            /\ pc'["plugin"] = "del_mark"
<1>1. /\ Orderly /\ Standing /\ Flows /\ TypeOK
      /\ pc \in PCs /\ pipe \in Pipes /\ pah \in Structs
  BY DEF Flowing, Orderly, TypeOK
<1>2. CASE CallStart \/ CallStep
  BY <1>1, <1>2, CallLeaves
<1>3. CASE ServerStep
  <2>1. CASE ServerStop /\ pah.h2p_datasize = -1 /\ "host" \in open
    <3>1. /\ pc["server"] = "stop" /\ pc'["server"] = "ended"
          /\ pipe'["control"] = pipe["control"] \o Word("stopped")
      BY <1>1, <2>1 DEF ServerStop, Write, Goto, PCs, Pipes
    <3>2. pc["host"] \notin HostPCs \cup {"freed", "dead"}
      BY <1>1, <1>3, <2>1, ServerUp DEF Standing, Joined, Processes
    <3>3. Running
      BY <1>1, <3>1, <3>2 DEF Running, Made, PCs
    <3>4. pipe["control"] = <<>>
      <4>1. Tells
        BY <1>1, <3>3 DEF Flows
      <4>. QED
        BY <2>1, <3>1, <4>1 DEF Tells, PluginTells
    <3>. QED
      BY <3>1, <3>4, WordFacts
  <2>2. CASE ~(ServerStop /\ pah.h2p_datasize = -1 /\ "host" \in open)
    BY <1>1, <1>3, <2>2 DEF ServerStep, ServerReceive, ServerEnd, ServerStop, ServerEnlarge,
       ServerEnlarged, ServerMismatch, ServerCallback, ServerTooBig, ServerAsk, ServerAsked,
       ServerAnswer, ServerReply, Move, Store, Write, ReadInt, Pipes
  <2>. QED
    BY <2>1, <2>2
<1>4. CASE ControlStep
  BY <1>1, <1>4 DEF ControlStep, ControlReceive, ControlHeader, ControlSend, Store, Write,
     ReadInt, Goto, Pipes, PCs
<1>5. CASE HostStep
  BY <1>1, <1>5 DEF HostStep, HostCreateThread, HostCannotCreateThread, HostTell,
     HostConfirmation, HostAllow, HostDeleteHeader, HostDeleteSend, Write, ReadInt, Store,
     Pipes
<1>6. CASE PluginStep
  <2>1. CASE PluginDeleteSend /\ "host" \in open
    <3>1. /\ pc["plugin"] = "del_send" /\ pc'["plugin"] = "del_mark"
          /\ pipe'["control"] = pipe["control"] \o Word("deleting")
      BY <1>1, <2>1 DEF PluginDeleteSend, Write, Goto, PCs, Pipes
    <3>2. pc["server"] # "dead" /\ pc["host"] \notin {"freed", "dead"}
      BY <1>1, <2>1, <3>1 DEF Standing, Starting, Joined, Processes
    <3>3. CASE pc["server"] = "none"
      BY <3>1, <3>3, WordFacts DEF NoneTells
    <3>4. CASE Made
      <4>1. pc["host"] \notin {"create", "tell", "confirmation"}
        BY <1>1, <3>1, <3>4 DEF Orderly, InOrder, Handshake, DeletePCs, Made
      <4>2. Running
        BY <1>1, <3>2, <3>4, <4>1 DEF Running, PCs, HostPCs
      <4>3. pipe["control"] = <<>>
        BY <1>1, <3>1, <4>2 DEF Flows, Tells, Processes
      <4>. QED
        BY <3>1, <4>3, WordFacts
    <3>. QED
      BY <3>2, <3>3, <3>4 DEF Made
  <2>2. CASE ~(PluginDeleteSend /\ "host" \in open)
    BY <1>1, <1>6, <2>2 DEF PluginStep, PluginInit, PluginStatus, PluginCreateThread,
       PluginCannotCreateThread, PluginTell, PluginDeleteSend, Write, ReadInt, Pipes
  <2>. QED
    BY <2>1, <2>2
<1>7. ASSUME NEW p \in Processes, DeleteBegin(p) \/ DeleteStep(p) \/ Crash(p)
      PROVE  pipe'["control"] = pipe["control"]
  BY <1>1, <1>7, DeleteFrame DEF Crash, Closing
<1>8. CASE UNCHANGED vars
  BY <1>8 DEF vars
<1>. QED
  BY <1>2, <1>3, <1>4, <1>5, <1>6, <1>7, <1>8 DEF Next

\* So there is never more than one word on its pipe.
LEMMA OneTellsStep ==
  ASSUME Flowing, NoneTells, OneWord, [Next]_vars
  PROVE  NoneTells' /\ OneWord'
<1>1. /\ TypeOK /\ pc \in PCs /\ pipe["control"] \in Seq(Units)
  BY DEF Flowing, Orderly, TypeOK, Pipes
<1>2. /\ Left("control", 1) = <<>>
  BY <1>1, ReadAll DEF OneWord
<1>3. OneWord'
  <2>1. CASE pipe'["control"] = pipe["control"]
    BY <2>1 DEF OneWord
  <2>2. CASE pipe'["control"] = <<>>
    BY <2>2 DEF OneWord
  <2>3. ASSUME NEW kind, pipe'["control"] = Word(kind) PROVE OneWord'
    <3>1. Len(Word(kind)) = 1
      BY WordFacts
    <3>. QED
      BY <2>3, <3>1 DEF OneWord
  <2>. QED
    BY <1>2, <2>1, <2>2, <2>3, ControlPipe
<1>4. NoneTells'
  <2>1. pc'["server"] = "none" => pc["server"] = "none"
    <3>1. CASE ServerStep
      BY <1>1, <3>1, ServerLeaves DEF ServerPCs
    <3>. QED
      BY <1>1, <3>1, ServerAlone
  <2>2. ASSUME pc'["server"] = "none",
               pc["plugin"] \in {"del_mark", "del_unlock", "del_join", "del_close", "freed"}
        PROVE  pc'["plugin"] \in {"del_mark", "del_unlock", "del_join", "del_close", "freed"}
    <3>1. CASE CallStart \/ CallStep \/ ServerStep \/ ControlStep \/ HostStep
      <4>1. pc'["plugin"] = pc["plugin"]
        BY <1>1, <3>1, CallFrame, ServerFrame, ControlFrame, HostFrame DEF Threads
      <4>. QED
        BY <2>2, <4>1
    <3>2. CASE PluginStep
      BY <1>1, <2>2, <3>2 DEF PluginStep, PluginInit, PluginStatus, PluginCreateThread,
         PluginCannotCreateThread, PluginTell, PluginDeleteSend, Write, ReadInt, Goto
    <3>3. ASSUME NEW p \in Processes, DeleteBegin(p) \/ DeleteStep(p)
          PROVE  pc'["plugin"] \in {"del_mark", "del_unlock", "del_join", "del_close", "freed"}
      <4>1. CASE p = "plugin"
        BY <1>1, <2>2, <3>3, <4>1 DEF DeleteBegin, DeleteStep, DeleteForbid,
           DeleteLookReordered, DeleteForbidLate, DeleteWait, DeleteGiveUp, DeleteLock,
           DeleteLockFails, DeleteStatus, DeleteMark, DeleteUnlock, DeleteJoin,
           DeleteClose, LockAs, Move, Store, Goto, PCs
      <4>2. CASE p = "host"
        BY <1>1, <2>2, <3>3, <4>2, DeleteFrame DEF Threads
      <4>. QED
        BY <4>1, <4>2 DEF Processes
    <3>4. ASSUME NEW p \in Processes, Crash(p)
          PROVE  pc'["plugin"] \in {"del_mark", "del_unlock", "del_join", "del_close", "freed"}
      BY <2>2, <3>4 DEF Crash, Processes, Threads, ProcessOf
    <3>5. CASE UNCHANGED vars
      BY <2>2, <3>5 DEF vars
    <3>. QED
      BY <3>1, <3>2, <3>3, <3>4, <3>5 DEF Next
  <2>3. ASSUME pc'["server"] = "none", pipe'["control"] # <<>>
        PROVE  pc'["plugin"] \in {"del_mark", "del_unlock", "del_join", "del_close", "freed"}
    <3>1. pc["server"] = "none"
      BY <2>1, <2>3
    <3>2. \/ pipe'["control"] = pipe["control"]
          \/ pc'["plugin"] = "del_mark"
      BY <1>2, <2>3, ControlPipe
    <3>. QED
      BY <2>2, <2>3, <3>1, <3>2 DEF NoneTells
  <2>. QED
    BY <2>3 DEF NoneTells
<1>. QED
  BY <1>3, <1>4

\* Of two deletes only one tells the other process to end, also when one of the
\* processes dies between two steps: the control thread never finds two words, the
\* second of which nobody would read, on its pipe.  The lock file is what it needs.
THEOREM AlwaysOneTells ==
  ASSUME ~GivesUp, ~Reorders, ~EarlyDelete
  PROVE  Spec => OneTells
<1>1. Init => NoneTells /\ OneWord
  BY DEF Init, NoneTells, OneWord
<1>2. Flowing /\ NoneTells /\ OneWord /\ [Next]_vars => (NoneTells /\ OneWord)'
  BY OneTellsStep
<1>3. Spec /\ []DeletesLocked => []OneWord
  BY <1>1, <1>2, AlwaysFlowing, PTL DEF Spec
<1>. QED
  BY <1>3, PTL DEF OneTells, OneWord

-----------------------------------------------------------------------------
(***************************************************************************)
(* The exchange implements the remote call (RemoteCall.tla): the steps of  *)
(* its threads are steps of the remote call or invisible to it.            *)
(***************************************************************************)

(***************************************************************************)
(* What is left to know when no process dies.                              *)
(***************************************************************************)
\* The user holds a caller only of a plugin that made its call thread.
Alive ==
  /\ pc["server"] # "dead" /\ pc["host"] # "dead"
  /\ usable => pc["server"] # "none"

\* After the host is freed the call thread still runs, until it has read the word
\* that ends it, and a call that came too late is still to be refused.
WindingDown ==
  pc["host"] = "freed" =>
    /\ pc["caller"] # "idle" => pipe["host"] = <<>> /\ pc["server"] # "none"
    /\ Made =>
         /\ pc["server"] \in {"receive", "header", "stop", "ended"}
         /\ pc["server"] = "header" \/ pipe["plugin"] # <<>> => pah.h2p_datasize \in {0, -1}

\* The call's answer exists and has not been returned yet.
AnswerExists ==
  \/ pc["caller"] \in {"size", "go_on", "receive_again"}
  \/ /\ pc["caller"] = "receive"
     /\ pc["server"] \notin {"receive", "header"} \/ pipe["host"] # <<>>

Known == Flowing /\ Alive /\ WindingDown

\* Without crashes the call thread only ends by itself.
LEMMA AliveStep ==
  ASSUME Crashes = {}, Flowing, Alive, [Next]_vars
  PROVE  Alive'
<1>1. TypeOK /\ pc \in PCs /\ Starting
  BY DEF Flowing, Orderly, TypeOK, Standing
<1>2. \A p \in Processes : ~Crash(p)
  BY DEF Crash
<1>3. pc'["host"] # "dead"
  <2>1. CASE HostStep
    BY <1>1, <2>1 DEF HostStep, HostCreateThread, HostCannotCreateThread, HostTell,
       HostConfirmation, HostAllow, HostDeleteHeader, HostDeleteSend, Write, ReadInt,
       Store, Goto, PCs
  <2>2. CASE PluginStep \/ CallStart \/ CallStep \/ ServerStep \/ ControlStep
    <3>1. pc'["host"] = pc["host"]
      BY <1>1, <2>2, PluginFrame, CallFrame, ServerFrame, ControlFrame DEF Threads
    <3>. QED
      BY <3>1 DEF Alive
  <2>3. ASSUME NEW p \in Processes, DeleteBegin(p) \/ DeleteStep(p)
        PROVE  pc'["host"] # "dead"
    BY <1>1, <2>3, DeleteFrame DEF Threads, Processes, DeletePCs, Alive
  <2>4. CASE UNCHANGED vars
    BY <2>4 DEF vars, Alive
  <2>. QED
    BY <1>2, <2>1, <2>2, <2>3, <2>4 DEF Next
<1>4. CASE ServerStep
  BY <1>1, <1>3, <1>4, ServerLeaves DEF ServerPCs, Alive
<1>5. CASE ~ServerStep
  <2>1. pc'["server"] \in {pc["server"], "receive"}
    <3>1. pc'["server"] \in {pc["server"], "receive", "dead"}
      BY <1>1, <1>5, ServerAlone
    <3>2. CASE PluginCreateThread
      BY <1>1, <3>2 DEF PluginCreateThread, PCs
    <3>3. CASE PluginStep /\ ~PluginCreateThread
      BY <1>1, <3>3 DEF PluginStep, PluginInit, PluginStatus, PluginCannotCreateThread,
         PluginTell, PluginDeleteSend, Write, ReadInt, Goto, PCs
    <3>4. CASE HostStep \/ CallStart \/ CallStep \/ ControlStep
      BY <1>1, <3>4, HostFrame, CallFrame, ControlFrame DEF Threads
    <3>5. ASSUME NEW p \in Processes, DeleteBegin(p) \/ DeleteStep(p)
          PROVE  pc'["server"] = pc["server"]
      BY <1>1, <3>5, DeleteFrame DEF Threads, Processes
    <3>6. CASE UNCHANGED vars
      BY <3>6 DEF vars
    <3>. QED
      BY <1>2, <1>5, <3>2, <3>3, <3>4, <3>5, <3>6 DEF Next
  <2>2. usable' => usable \/ pc["server"] \in {"dead", "receive"}
    <3>1. CASE HostAllow
      BY <1>1, <3>1 DEF HostAllow, Goto, Starting
    <3>2. CASE HostStep /\ ~HostAllow
      BY <1>1, <3>2, HostFrame
    <3>3. CASE PluginStep \/ CallStart \/ CallStep \/ ControlStep
      BY <1>1, <3>3, PluginFrame, CallFrame, ControlFrame
    <3>4. ASSUME NEW p \in Processes, DeleteBegin(p) \/ DeleteStep(p)
          PROVE  usable' => usable
      BY <1>1, <3>4, DeleteFrame
    <3>5. CASE UNCHANGED vars
      BY <3>5 DEF vars
    <3>. QED
      BY <1>2, <1>5, <3>1, <3>2, <3>3, <3>4, <3>5 DEF Next
  <2>. QED
    BY <1>3, <2>1, <2>2 DEF Alive
<1>. QED
  BY <1>4, <1>5

\* What the host leaves behind when it frees itself.
LEMMA WindingDownStep ==
  ASSUME ~Reorders, Crashes = {}, Flowing, Flowing', Alive, WindingDown, [Next]_vars
  PROVE  WindingDown'
<1>1. /\ TypeOK /\ pc \in PCs /\ pipe \in Pipes /\ pah \in Structs
      /\ Orderly /\ Starting /\ Standing /\ Flows /\ Joined
  BY DEF Flowing, Orderly, TypeOK, Standing
<1>2. \A p \in Processes : ~Crash(p)
  BY DEF Crash
<1>3. CASE pc["host"] # "freed"
  <2>1. SUFFICES ASSUME pc'["host"] = "freed" PROVE WindingDown'
    BY DEF WindingDown
  <2>2. DeleteClose("host") /\ pc["host"] = "del_close"
    <3>1. CASE PluginStep \/ CallStart \/ CallStep \/ ServerStep \/ ControlStep
      BY <1>1, <1>3, <2>1, <3>1, PluginFrame, CallFrame, ServerFrame, ControlFrame
         DEF Threads
    <3>2. CASE HostStep
      BY <1>1, <2>1, <3>2 DEF HostStep, HostCreateThread, HostCannotCreateThread, HostTell,
         HostConfirmation, HostAllow, HostDeleteHeader, HostDeleteSend, Write, ReadInt,
         Store, Goto, PCs
    <3>3. ASSUME NEW p \in Processes, DeleteBegin(p) \/ DeleteStep(p)
          PROVE  DeleteClose("host") /\ pc["host"] = "del_close"
      <4>1. p = "host"
        BY <1>1, <1>3, <2>1, <3>3, DeleteFrame DEF Threads, Processes
      <4>. QED
        BY <1>1, <2>1, <3>3, <4>1 DEF DeleteBegin, DeleteStep, DeleteForbid,
           DeleteLookReordered, DeleteForbidLate, DeleteWait, DeleteGiveUp, DeleteLock,
           DeleteLockFails, DeleteStatus, DeleteMark, DeleteUnlock, DeleteJoin,
           DeleteClose, LockAs, Move, Store, Goto, PCs
    <3>4. CASE UNCHANGED vars
      BY <1>3, <2>1, <3>4 DEF vars
    <3>. QED
      BY <1>2, <3>1, <3>2, <3>3, <3>4 DEF Next
  <2>3. /\ UNCHANGED <<pah, pipe>>
        /\ pc'["caller"] = pc["caller"] /\ pc'["server"] = pc["server"]
    BY <1>1, <2>2 DEF DeleteClose, Closing, Goto, PCs
  <2>4. ~InCall
    BY <1>1, <2>2 DEF Orderly, Safe, CallExclusion, PastWait, Processes
  <2>5. pc["caller"] # "idle" => pipe["host"] = <<>> /\ pc["server"] # "none"
    <3>. SUFFICES ASSUME pc["caller"] # "idle"
                  PROVE  pipe["host"] = <<>> /\ pc["server"] # "none"
      OBVIOUS
    <3>1. usable
      BY <1>1, <2>2 DEF Starting
    <3>2. pipe["host"] \in Seq(Units) /\ Len(pipe["host"]) <= 0
      BY <1>1, <2>4, <3>1 DEF Pipes, Flows, Fits, Capacity, InCall, CallPCs
    <3>. QED
      BY <3>1, <3>2, EmptySeq DEF Alive
  <2>6. Made => /\ pc["server"] \in {"receive", "header", "stop", "ended"}
                /\ pc["server"] = "header" \/ pipe["plugin"] # <<>> =>
                     pah.h2p_datasize \in {0, -1}
    BY <1>1, <2>2, <2>4 DEF Running, DeletePCs, Flows, Ends
  <2>. QED
    BY <2>3, <2>5, <2>6 DEF WindingDown, Made
<1>4. CASE pc["host"] = "freed"
  <2>1. /\ "host" \notin open /\ ~usable /\ pc["control"] \in {"none", "ended"}
        /\ pc["plugin"] # "create"
    BY <1>1, <1>4 DEF Starting, Joined, Processes, DeletePCs
  <2>2. CASE CallStart \/ CallStep
    <3>1. /\ ~InCall /\ pc["caller"] # "idle" /\ pah.okey_to_call = 0
      BY <1>1, <1>4, <2>1, <2>2, CallFrame DEF Orderly, Safe, CallExclusion, Exclusion,
         PastWait, Processes
    <3>2. CallCheck \/ CallRefuse
      BY <1>1, <2>2, <3>1, CallAction DEF InCall
    <3>3. pipe' = pipe /\ pah'.h2p_datasize = pah.h2p_datasize
      BY <1>1, <3>2 DEF CallCheck, CallRefuse, Move, Store, Structs
    <3>4. pc'["server"] = pc["server"]
      BY <1>1, <2>2, CallFrame DEF Threads
    <3>. QED
      BY <1>4, <3>1, <3>3, <3>4 DEF WindingDown, Made
  <2>3. CASE ServerStep
    <3>1. Made /\ Serves /\ pc'["caller"] = pc["caller"]
      BY <1>1, <2>3, ServerFrame DEF Made, Flows, Threads
    <3>2. /\ pah'.h2p_datasize = pah.h2p_datasize
          /\ pc["server"] \in {"receive", "header", "stop"}
      BY <1>1, <1>4, <2>3, <3>1, ServerLeaves, ServerFrame DEF WindingDown
    <3>3. CASE pc["server"] = "receive"
      BY <1>1, <1>4, <2>3, <3>1, <3>2, <3>3, ServerAction, ServerReceives DEF WindingDown, Made
    <3>4. CASE pc["server"] = "header"
      <4>1. pah.h2p_datasize \in {0, -1}
        BY <1>4, <3>1, <3>4 DEF WindingDown
      <4>2. ServerEnd
        BY <2>3, <3>4, <4>1, ServerAction DEF ServerEnlarge, ServerMismatch, ServerCallback
      <4>3. pc'["server"] = "stop" /\ UNCHANGED <<pipe, pah>>
        BY <1>1, <4>2 DEF ServerEnd, Move, Goto, PCs
      <4>. QED
        BY <1>4, <3>1, <4>1, <4>3 DEF WindingDown, Made
    <3>5. CASE pc["server"] = "stop"
      <4>1. /\ pc'["server"] = "ended" /\ pah' = pah /\ pipe' = pipe
        BY <1>1, <2>1, <2>3, <3>5, ServerAction DEF ServerStop, Move, Write, Goto, PCs
      <4>. QED
        BY <1>4, <3>1, <3>5, <4>1 DEF WindingDown, Made
    <3>. QED
      BY <3>2, <3>3, <3>4, <3>5
  <2>4. CASE ControlStep
    BY <1>1, <2>1, <2>4, ControlFrame DEF PCs, ControlStep, ControlReceive, ControlHeader,
       ControlSend, Write, ReadInt, Store, Goto
  <2>5. CASE HostStep
    BY <1>1, <1>4, <2>5 DEF HostStep, HostCreateThread, HostCannotCreateThread, HostTell,
       HostConfirmation, HostAllow, HostDeleteHeader, HostDeleteSend, Write, ReadInt,
       Store, Goto
  <2>6. CASE PluginStep
    <3>1. /\ pc'["server"] = pc["server"] /\ pc'["caller"] = pc["caller"]
          /\ pc'["host"] = pc["host"] /\ pah'.h2p_datasize = pah.h2p_datasize
          /\ pipe'["host"] = pipe["host"]
      BY <1>1, <2>1, <2>6 DEF PluginStep, PluginInit, PluginStatus, PluginCreateThread,
         PluginCannotCreateThread, PluginTell, PluginDeleteSend, Write, ReadInt, Goto, PCs,
         Pipes, Structs
    <3>2. pipe["plugin"] = <<>> => pipe'["plugin"] = <<>>
      BY <1>1, <2>1, <2>6, ReadNothing DEF PluginStep, PluginInit, PluginStatus,
         PluginCreateThread, PluginCannotCreateThread, PluginTell, PluginDeleteSend, Write,
         ReadInt, Pipes
    <3>. QED
      BY <1>4, <3>1, <3>2 DEF WindingDown, Made
  <2>7. ASSUME NEW p \in Processes, DeleteBegin(p) \/ DeleteStep(p)
        PROVE  WindingDown'
    <3>1. /\ pc'["server"] = pc["server"] /\ pc'["caller"] = pc["caller"]
          /\ UNCHANGED pipe
      BY <1>1, <2>7, DeleteFrame DEF Threads, Processes
    <3>2. pah'.h2p_datasize = pah.h2p_datasize
      BY <1>1, <2>7 DEF DeleteBegin, DeleteStep, DeleteForbid, DeleteLookReordered,
         DeleteForbidLate, DeleteWait, DeleteGiveUp, DeleteLock, DeleteLockFails,
         DeleteStatus, DeleteMark, DeleteUnlock, DeleteJoin, DeleteClose, Closing, LockAs,
         Move, Store, Structs
    <3>. QED
      BY <1>4, <3>1, <3>2 DEF WindingDown, Made
  <2>8. CASE UNCHANGED vars
    BY <2>8 DEF vars, WindingDown, Made
  <2>. QED
    BY <1>2, <2>2, <2>3, <2>4, <2>5, <2>6, <2>7, <2>8 DEF Next
<1>. QED
  BY <1>3, <1>4

(***************************************************************************)
(* What the user of the remote call sees.                                  *)
(***************************************************************************)
\* While a call is in the exchange the call thread runs.
LEMMA CallKnown ==
  ASSUME Known, InCall
  PROVE  /\ Running /\ Calls /\ usable /\ pc["host"] \in {"up"} \cup DeletePCs
         /\ "plugin" \in open /\ "host" \in open /\ pc["plugin"] \notin PluginPCs
<1>1. /\ Orderly /\ Standing /\ Flows /\ pc \in PCs
  BY DEF Known, Flowing, Orderly, TypeOK
<1>2. usable /\ pc["host"] \in {"up"} \cup DeletePCs
  <2>1. pc["caller"] \notin {"idle", "dead"} /\ pc["host"] # "freed"
    BY <1>1 DEF InCall, CallPCs, Orderly, Safe, CallExclusion, PastWait, Processes
  <2>. QED
    BY <1>1, <2>1 DEF Standing, Starting
<1>3. Running
  BY <1>2 DEF Known, Alive, Made, Running
<1>. QED
  BY <1>1, <1>2, <1>3, RunningFacts DEF Flows

\* Outside a call, and before one has sent its data, nothing is an answer.
LEMMA NoAnswer ==
  ASSUME Known,
         pc["caller"] \in {"check", "refuse", "fit", "grow_send", "grow_answer", "send"}
  PROVE  ~AnswerReady
<1>1. /\ Orderly /\ Standing /\ Flows /\ pc \in PCs /\ pipe["host"] \in Seq(Units)
  BY DEF Known, Flowing, Orderly, TypeOK, Pipes
<1>2. CASE pc["caller"] \in {"check", "refuse"}
  <2>1. usable \/ pc["host"] = "freed"
    BY <1>1, <1>2 DEF Standing, Starting
  <2>2. CASE pc["host"] = "freed"
    BY <1>2, <2>2 DEF Known, WindingDown, Made, Alive, AnswerReady
  <2>3. CASE usable
    <3>1. pipe["host"] = <<>>
      <4>1. Len(pipe["host"]) <= 0
        BY <1>1, <1>2, <2>3 DEF Flows, Fits, Capacity
      <4>. QED
        BY <1>1, <4>1, EmptySeq
    <3>2. Running
      BY <1>1, <2>3 DEF Known, Alive, Made, Running, Standing, Starting
    <3>3. pc["server"] \in {"receive", "header", "stop", "ended"}
      BY <1>1, <1>2, <3>2 DEF Flows, Ends, InCall, CallPCs
    <3>. QED
      BY <1>2, <3>1, <3>3 DEF AnswerReady
  <2>. QED
    BY <2>1, <2>2, <2>3
<1>3. CASE pc["caller"] \in {"fit", "grow_send", "send"}
  <2>1. usable /\ Calls
    BY <1>3, CallKnown DEF InCall, CallPCs
  <2>2. pc["server"] = "receive"
    BY <1>3, <2>1 DEF Calls, Rests
  <2>3. pipe["host"] = <<>>
    <3>1. Len(pipe["host"]) <= 0
      BY <1>1, <1>3, <2>1 DEF Flows, Fits, Capacity
    <3>. QED
      BY <1>1, <3>1, EmptySeq
  <2>. QED
    BY <1>3, <2>2, <2>3 DEF AnswerReady
<1>4. CASE pc["caller"] = "grow_answer"
  <2>1. Grows
    BY <1>4, CallKnown DEF InCall, CallPCs, Calls
  <2>2. pc["server"] \in {"receive", "header", "enlarged"}
    BY <2>1 DEF Grows, Rests
  <2>3. \A i \in DOMAIN pipe["host"] : pipe["host"][i].kind # "answer"
    <3>1. CASE pipe["host"] = <<>>
      BY <3>1
    <3>2. CASE pipe["host"] = Word("grown")
      BY <3>2 DEF Word, Message
    <3>. QED
      BY <2>1, <3>1, <3>2 DEF Grows
  <2>. QED
    BY <1>4, <2>2, <2>3 DEF AnswerReady
<1>. QED
  BY <1>2, <1>3, <1>4

\* The answer that arrived is one.
LEMMA ArrivedFacts ==
  ASSUME TypeOK, NEW message, Arrived(message)
  PROVE  /\ message # <<>> /\ 1 \in DOMAIN message /\ message[1].kind = "answer"
         /\ message = Message("answer", calls,
                              IF pah.p2h_datasize = 0 THEN 1 ELSE pah.p2h_datasize)
         /\ pah.p2h_datasize = reply
<1>1. reply \in Nat
  BY NatType
<1>. DEFINE size == IF reply = 0 THEN 1 ELSE reply
<1>2. size \in Nat /\ size > 0
  BY <1>1
<1>3. message = Message("answer", calls, size) /\ pah.p2h_datasize = reply
  BY DEF Arrived, Answer
<1>4. 1 \in 1..size
  BY <1>2
<1>. HIDE DEF size
<1>5. 1 \in DOMAIN message /\ message[1].kind = "answer"
  BY <1>3, <1>4 DEF Message
<1>6. message # <<>>
  BY <1>2, <1>3, MessageFacts
<1>. QED
  BY <1>3, <1>5, <1>6 DEF size

\* From when the callback has run until the call returns there is an answer.
LEMMA SomeAnswer ==
  ASSUME Known, pc["caller"] \in {"receive", "size", "go_on", "receive_again"}
  PROVE  AnswerReady <=> AnswerExists
<1>1. TypeOK /\ InCall /\ Calls
  BY CallKnown DEF Known, Flowing, Orderly, InCall, CallPCs
<1>2. CASE pc["caller"] = "receive"
  <2>1. Asks
    BY <1>1, <1>2 DEF Calls
  <2>2. CASE Arrived(pipe["host"])
    <3>1. 1 \in DOMAIN pipe["host"] /\ pipe["host"][1].kind = "answer" /\ pipe["host"] # <<>>
      BY <1>1, <2>2, ArrivedFacts
    <3>. QED
      BY <1>2, <3>1 DEF AnswerReady, AnswerExists
  <2>3. CASE pc["server"] \in {"too_big", "ask", "asked", "answer", "reply"}
    BY <1>2, <2>3 DEF AnswerReady, AnswerExists
  <2>4. CASE pc["server"] \in {"receive", "header"} /\ pipe["host"] = <<>>
    BY <1>2, <2>4 DEF AnswerReady, AnswerExists
  <2>. QED
    BY <2>1, <2>2, <2>3, <2>4 DEF Asks
<1>3. CASE pc["caller"] = "size"
  <2>1. CASE pc["server"] = "asked"
    BY <1>3, <2>1 DEF AnswerReady, AnswerExists
  <2>2. CASE Arrived(output)
    BY <1>1, <1>3, <2>2, ArrivedFacts DEF AnswerReady, AnswerExists
  <2>. QED
    BY <1>1, <1>3, <2>1, <2>2 DEF Calls
<1>4. CASE pc["caller"] = "go_on"
  BY <1>1, <1>4 DEF Calls, AnswerReady, AnswerExists
<1>5. CASE pc["caller"] = "receive_again"
  <2>1. CASE Arrived(pipe["host"])
    <3>1. 1 \in DOMAIN pipe["host"] /\ pipe["host"][1].kind = "answer"
      BY <1>1, <2>1, ArrivedFacts
    <3>. QED
      BY <1>5, <3>1 DEF AnswerReady, AnswerExists
  <2>2. CASE pc["server"] \in {"asked", "answer", "reply"}
    BY <1>5, <2>2 DEF AnswerReady, AnswerExists
  <2>. QED
    BY <1>1, <1>5, <2>1, <2>2 DEF Calls, AsksAgain
<1>. QED
  BY <1>2, <1>3, <1>4, <1>5

\* How far the remote call is, and what it gives, from where the call is.
Sees ==
  /\ pc["caller"] = "idle" => Phase = "idle"
  /\ pc["caller"] = "return" => Phase = "delivered" /\ Given = reply
  /\ pc["caller"] # "return" => Given = "nothing"
  /\ pc["caller"] \notin {"idle", "return", "dead"} =>
       Phase = IF AnswerExists THEN "answered" ELSE "asked"

\* It is so in every state of a call.
LEMMA Seen == Known => Sees
<1>. SUFFICES ASSUME Known PROVE Sees
  OBVIOUS
<1>1. pc["caller"] = "idle" => Phase = "idle"
  BY DEF Phase
<1>2. pc["caller"] = "return" => Phase = "delivered"
  BY DEF Phase
<1>3. pc["caller"] # "return" => Given = "nothing"
  BY DEF Given
<1>4. pc["caller"] = "return" => Given = reply
  <2>. SUFFICES ASSUME pc["caller"] = "return" PROVE Given = reply
    OBVIOUS
  <2>1. TypeOK /\ Arrived(output)
    BY CallKnown DEF Known, Flowing, Orderly, InCall, CallPCs, Calls
  <2>. QED
    BY <2>1, ArrivedFacts DEF Given
<1>5. ASSUME pc["caller"] \notin {"idle", "return", "dead"}
      PROVE  Phase = IF AnswerExists THEN "answered" ELSE "asked"
  <2>1. Phase = IF AnswerReady THEN "answered" ELSE "asked"
    BY <1>5 DEF Phase
  <2>2. pc["caller"] # "announce" /\ pc \in PCs
    BY DEF Known, Flowing, Orderly, Safe, Exclusion, TypeOK
  <2>3. CASE pc["caller"] \in {"receive", "size", "go_on", "receive_again"}
    BY <2>1, <2>3, SomeAnswer
  <2>4. CASE pc["caller"] \in {"check", "refuse", "fit", "grow_send", "grow_answer", "send"}
    BY <2>1, <2>4, NoAnswer DEF AnswerExists
  <2>. QED
    BY <1>5, <2>2, <2>3, <2>4 DEF PCs, CallPCs
<1>. QED
  BY <1>1, <1>2, <1>3, <1>4, <1>5 DEF Sees

\* And it is so after a step.
LEMMA SeenNext == Known' => Sees'
BY Seen, PTL

(***************************************************************************)
(* Every step is a step of the remote call or invisible to it.             *)
(***************************************************************************)
\* A step that leaves the call and the answers to it alone is invisible.
LEMMA Invisible ==
  ASSUME Known, Known', pc'["caller"] = pc["caller"], pc["caller"] # "dead",
         pc["caller"] = "receive" => (AnswerExists' <=> AnswerExists)
  PROVE  Phase' = Phase /\ (reply' = reply => Given' = Given)
<1>0. Sees /\ Sees'
  BY Seen, SeenNext
<1>1. pc["caller"] # "receive" => (AnswerExists' <=> AnswerExists)
  BY DEF AnswerExists
<1>2. /\ pc["caller"] = "idle" => Phase = "idle" /\ Phase' = "idle"
      /\ pc["caller"] = "return" => Phase = "delivered" /\ Phase' = "delivered"
  BY DEF Phase
<1>3. pc["caller"] \notin {"idle", "return"} => Phase' = Phase
  BY <1>0, <1>1 DEF Sees
<1>4. reply' = reply => Given' = Given
  BY <1>0 DEF Sees
<1>. QED
  BY <1>2, <1>3, <1>4

\* The call: it begins or is refused, or it takes the answer and returns it.
LEMMA CallSeen ==
  ASSUME ~Reorders, Known, Known', CallStart \/ CallStep
  PROVE  \/ Call!Ask \/ Call!Refuse \/ Call!Deliver \/ Call!Return
         \/ UNCHANGED <<Phase, reply, Given>>
<1>0. Sees /\ Sees'
  BY Seen, SeenNext
<1>1. /\ TypeOK /\ pc \in PCs /\ Orderly /\ Standing /\ Flows /\ pipe["host"] \in Seq(Units)
      /\ reply' = reply /\ pc'["server"] = pc["server"]
  BY CallLeaves DEF Known, Flowing, Orderly, TypeOK, Pipes, Threads
<1>2. pc["caller"] \in CallPCs \cup {"idle", "check", "refuse"}
  BY <1>1, CallAction
<1>3. CASE pc["caller"] = "idle"
  <2>1. pc'["caller"] = "check"
    BY <1>1, <1>3, CallAction DEF CallEnter, Goto, PCs
  <2>2. /\ Phase = "idle" /\ Given = "nothing"
        /\ Phase' = "asked" /\ Given' = "nothing"
    BY <1>3, <2>1, <1>0 DEF Sees, AnswerExists
  <2>. QED
    BY <1>1, <2>2 DEF Call!Ask
<1>4. CASE pc["caller"] = "refuse"
  <2>1. pc'["caller"] = "idle"
    BY <1>1, <1>4, CallAction DEF CallRefuse, Store, Goto, PCs
  <2>2. /\ Phase = "asked" /\ Given = "nothing"
        /\ Phase' = "idle" /\ Given' = "nothing"
    BY <1>4, <2>1, <1>0 DEF Sees, AnswerExists
  <2>. QED
    BY <1>1, <2>2 DEF Call!Refuse
<1>5. CASE pc["caller"] = "return"
  <2>1. pc'["caller"] = "idle"
    BY <1>1, <1>5, CallAction DEF CallReturn, Store, Goto, PCs
  <2>2. /\ Phase = "delivered" /\ Phase' = "idle" /\ Given' = "nothing"
    BY <1>5, <2>1, <1>0 DEF Sees
  <2>. QED
    BY <1>1, <2>2 DEF Call!Return, Call!NotGiven
<1>6. CASE \/ pc["caller"] = "receive_again"
           \/ pc["caller"] = "size" /\ pc'["caller"] = "return"
  <2>1. pc'["caller"] = "return"
    BY <1>1, <1>6, CallAction DEF CallReceiveAgain, CallRead, Goto, PCs
  <2>2. Phase = "answered" /\ Phase' = "delivered" /\ Given' = reply'
    BY <1>6, <2>1, <1>0 DEF Sees, AnswerExists
  <2>. QED
    BY <1>1, <2>2 DEF Call!Deliver
<1>7. CASE pc["caller"] = "receive"
  <2>1. usable /\ "plugin" \in open
    BY <1>7, CallKnown DEF InCall, CallPCs
  <2>2. CallReceive
    BY <1>1, <1>7, CallAction
  <2>3. pipe["host"] # <<>>
    BY <2>1, <2>2 DEF CallReceive, CallRead, Readable
  <2>4. pc'["caller"] = "size"
    BY <1>1, <2>2, <2>3 DEF CallReceive, CallRead, Goto, PCs
  <2>5. Phase = "answered" /\ Phase' = "answered" /\ Given = "nothing" /\ Given' = "nothing"
    BY <1>7, <2>3, <2>4, <1>0 DEF Sees, AnswerExists
  <2>. QED
    BY <1>1, <2>5
<1>8. CASE pc["caller"] \in {"check", "fit", "grow_send", "grow_answer"}
  <2>1. pc'["caller"] \in {"refuse", "fit", "grow_send", "grow_answer", "send"}
    BY <1>1, <1>8, CallAction DEF CallCheck, CallGrow, CallHeader, CallGrowSend,
       CallGrowAnswer, Move, Store, Write, ReadInt, Goto, PCs
  <2>2. Phase = "asked" /\ Phase' = "asked" /\ Given = "nothing" /\ Given' = "nothing"
    BY <1>8, <2>1, <1>0 DEF Sees, AnswerExists
  <2>. QED
    BY <1>1, <2>2
<1>9. CASE pc["caller"] = "send"
  <2>1. CallSend /\ usable /\ Calls
    BY <1>1, <1>9, CallAction, CallKnown DEF InCall, CallPCs
  <2>2. pc'["caller"] = "receive" /\ pipe'["host"] = pipe["host"]
    BY <1>1, <2>1 DEF CallSend, Write, Goto, PCs, TypeOK, Pipes
  <2>3. pc["server"] = "receive"
    BY <1>9, <2>1 DEF Calls, Rests
  <2>4. pipe["host"] = <<>>
    <3>1. Len(pipe["host"]) <= 0
      BY <1>1, <1>9, <2>1 DEF Flows, Fits, Capacity
    <3>. QED
      BY <1>1, <3>1, EmptySeq
  <2>5. Phase = "asked" /\ Phase' = "asked" /\ Given = "nothing" /\ Given' = "nothing"
    BY <1>1, <1>9, <2>2, <2>3, <2>4, <1>0 DEF Sees, AnswerExists
  <2>. QED
    BY <1>1, <2>5
<1>10. CASE pc["caller"] \in {"size", "go_on"} /\ pc'["caller"] # "return"
  <2>1. pc'["caller"] \in {"go_on", "receive_again"}
    BY <1>1, <1>10, CallAction DEF CallEnlarge, CallAccept, CallGoOn, Move, Write, Goto,
       PCs
  <2>2. Phase = "answered" /\ Phase' = "answered" /\ Given = "nothing" /\ Given' = "nothing"
    BY <1>10, <2>1, <1>0 DEF Sees, AnswerExists
  <2>. QED
    BY <1>1, <2>2
<1>11. pc["caller"] = "go_on" => pc'["caller"] # "return"
  BY <1>1, CallAction DEF CallGoOn, Write, Goto, PCs
<1>. QED
  BY <1>2, <1>3, <1>4, <1>5, <1>6, <1>7, <1>8, <1>9, <1>10, <1>11 DEF CallPCs

\* The callback runs for a call that has sent its data, and for nothing else.
LEMMA CallbackSeen ==
  ASSUME Known, Known', ServerCallback
  PROVE  Call!RunCallback
<1>0. Sees /\ Sees'
  BY Seen, SeenNext
<1>1. /\ TypeOK /\ pc \in PCs /\ Orderly /\ Standing /\ Flows /\ pah \in Structs
      /\ request \in Nat
  BY NatType DEF Known, Flowing, Orderly, TypeOK
<1>2. /\ pc["server"] = "header" /\ pah.h2p_datasize > 0 /\ pc'["caller"] = pc["caller"]
      /\ pc'["server"] \in {"too_big", "answer"} /\ reply' \in ReplySizes
      /\ pipe' = pipe
  BY <1>1 DEF ServerCallback, Goto, PCs
<1>3. pah.h2p_datasize \notin {0, -1}
  BY <1>2
<1>4. ServerStep /\ Made
  BY <1>2 DEF ServerStep, Made
<1>5. pc["host"] # "freed"
  BY <1>2, <1>3, <1>4 DEF Known, WindingDown
<1>6. Running
  <2>1. pc["host"] \notin HostPCs /\ pc["host"] # "dead"
    BY <1>1, <1>4, ServerUp DEF Standing, Known, Alive
  <2>. QED
    BY <1>1, <1>4, <1>5, <2>1 DEF Running, PCs
<1>7. InCall
  BY <1>1, <1>2, <1>3, <1>6 DEF Flows, Ends
<1>8. pc["caller"] = "receive"
  <2>1. Calls
    BY <1>1, <1>6 DEF Flows
  <2>2. pc["caller"] \notin {"fit", "grow_send", "send"}
    BY <1>2, <2>1 DEF Calls, Rests
  <2>3. pc["caller"] # "grow_answer"
    <3>. SUFFICES ASSUME pc["caller"] = "grow_answer" PROVE FALSE
      OBVIOUS
    <3>1. pah.h2p_datasize = -request
      BY <2>1 DEF Calls, Grows
    <3>. QED
      BY <1>1, <1>2, <3>1
  <2>4. pc["caller"] \notin {"size", "go_on", "receive_again", "return"}
    BY <1>2, <2>1 DEF Calls, Arrived, AsksAgain, Rests
  <2>. QED
    BY <1>7, <2>2, <2>3, <2>4 DEF InCall, CallPCs
<1>9. pipe["host"] = <<>>
  BY <1>1, <1>2, <1>6, <1>8 DEF Flows, Calls, Asks, Arrived, Rests
<1>10. /\ Phase = "asked" /\ Given = "nothing"
       /\ Phase' = "answered" /\ Given' = "nothing"
  BY <1>2, <1>8, <1>9, <1>0 DEF Sees, AnswerExists
<1>. QED
  BY <1>2, <1>10 DEF Call!RunCallback

\* The rest of what the call thread does is invisible.
LEMMA ServerSeen ==
  ASSUME Known, Known', ServerStep, ~ServerCallback
  PROVE  UNCHANGED <<Phase, reply, Given>>
<1>1. /\ TypeOK /\ pc \in PCs /\ Orderly /\ Standing /\ Flows /\ pah \in Structs
      /\ pipe \in Pipes /\ pipe["host"] \in Seq(Units) /\ request \in Nat /\ reply \in Nat
  BY NatType DEF Known, Flowing, Orderly, TypeOK, Pipes
<1>2. pc'["caller"] = pc["caller"] /\ Made
  BY <1>1, ServerFrame DEF Threads, Made
<1>3. reply' = reply
  BY DEF ServerStep, ServerReceive, ServerEnd, ServerStop, ServerEnlarge, ServerEnlarged,
     ServerMismatch, ServerTooBig, ServerAsk, ServerAsked, ServerAnswer, ServerReply, Move,
     Store, Write, ReadInt, data
<1>4. ASSUME pc["caller"] = "receive" PROVE AnswerExists' <=> AnswerExists
  <2>1. Asks /\ request > 0 /\ "host" \in open /\ Serves
    BY <1>1, <1>2, <1>4, CallKnown DEF InCall, CallPCs, Calls, Flows
  <2>2. pah.h2p_datasize = request
    BY <2>1 DEF Asks
  <2>3. pah.h2p_datasize > 0 /\ pah.h2p_datasize \notin {0, -1} /\ ~(pah.h2p_datasize < -1)
    BY <1>1, <2>1, <2>2
  <2>4. CASE pc["server"] = "receive"
    <3>1. ServerReceive
      BY <2>4, ServerAction
    <3>2. pipe["plugin"] # <<>>
      BY <2>1, <3>1 DEF ServerReceive, Readable
    <3>3. pipe["host"] = <<>> /\ pipe'["host"] = <<>> /\ pc'["server"] = "header"
      BY <1>1, <2>1, <2>4, <3>1, <3>2, ServerReceives DEF Asks, Arrived, Rests
    <3>. QED
      BY <1>2, <2>4, <3>3 DEF AnswerExists
  <2>5. CASE pc["server"] = "header"
    <3>1. ServerMismatch
      BY <2>3, <2>5, ServerAction DEF ServerEnd, ServerEnlarge
    <3>2. ~ServerReceive /\ ~ServerAsked
      BY <2>5 DEF ServerReceive, ServerAsked, ReadInt, Goto
    <3>. QED
      BY <1>1, <1>2, <2>1, <3>1, <3>2, ServerWorks
  <2>6. CASE pc["server"] \in {"too_big", "ask", "asked", "answer"}
    <3>1. pc'["server"] \in {"ask", "asked", "answer", "reply"}
      BY <1>1, <2>6, ServerAction DEF ServerTooBig, ServerAsk, ServerAsked, ServerAnswer,
         Store, Write, ReadInt, Goto, PCs
    <3>. QED
      BY <1>2, <1>4, <2>6, <3>1 DEF AnswerExists
  <2>7. CASE pc["server"] = "reply"
    <3>1. ServerReply
      BY <2>7, ServerAction
    <3>2. pipe["host"] = <<>>
      BY <2>1, <2>7 DEF Asks, Arrived, Rests
    <3>3. pipe'["host"] = Answer /\ Len(Answer) = IF reply = 0 THEN 1 ELSE reply
      BY <1>1, <1>2, <2>1, <3>1, <3>2, ServerReplies
    <3>4. Len(pipe'["host"]) # 0
      BY <1>1, <3>3
    <3>5. pipe'["host"] # <<>>
      BY <3>4
    <3>. QED
      BY <1>2, <1>4, <2>7, <3>5 DEF AnswerExists
  <2>. QED
    BY <2>1, <2>4, <2>5, <2>6, <2>7 DEF Asks, Arrived, Rests
<1>5. pc["caller"] # "dead"
  BY <1>1 DEF Known, Alive, Standing, Starting
<1>. QED
  BY <1>2, <1>3, <1>4, <1>5, Invisible

\* Starting, ending and the control thread are invisible too.
LEMMA OthersSeen ==
  ASSUME Crashes = {}, Known, Known',
         \/ HostStep \/ PluginStep \/ ControlStep \/ UNCHANGED vars
         \/ \E p \in Processes : DeleteBegin(p) \/ DeleteStep(p) \/ Crash(p)
  PROVE  UNCHANGED <<Phase, reply, Given>>
<1>1. /\ TypeOK /\ pc \in PCs /\ Orderly /\ Standing /\ pipe \in Pipes
      /\ \A p \in Processes : ~Crash(p)
  BY DEF Known, Flowing, Orderly, TypeOK, Crash
<1>2. pc["caller"] # "dead"
  BY <1>1 DEF Known, Alive, Standing, Starting
<1>3. pc'["caller"] = pc["caller"] /\ reply' = reply
  <2>1. CASE HostStep
    BY <1>1, <2>1, HostFrame DEF HostStep, HostCreateThread, HostCannotCreateThread,
       HostTell, HostConfirmation, HostAllow, HostDeleteHeader, HostDeleteSend, Write,
       ReadInt, Store, data
  <2>2. CASE PluginStep
    BY <1>1, <2>2, PluginFrame DEF PluginStep, PluginInit, PluginStatus, PluginCreateThread,
       PluginCannotCreateThread, PluginTell, PluginDeleteSend, Write, ReadInt, data
  <2>3. CASE ControlStep
    BY <1>1, <2>3, ControlFrame DEF ControlStep, ControlReceive, ControlHeader, ControlSend,
       Write, ReadInt, Store, Threads, data
  <2>4. CASE UNCHANGED vars
    BY <2>4 DEF vars, data
  <2>5. ASSUME NEW p \in Processes, DeleteBegin(p) \/ DeleteStep(p)
        PROVE  pc'["caller"] = pc["caller"] /\ reply' = reply
    <3>1. reply' = reply
      BY <2>5 DEF DeleteBegin, DeleteStep, DeleteForbid, DeleteLookReordered,
         DeleteForbidLate, DeleteWait, DeleteGiveUp, DeleteLock, DeleteLockFails,
         DeleteStatus, DeleteMark, DeleteUnlock, DeleteJoin, DeleteClose, Closing, LockAs,
         Move, Store, data
    <3>. QED
      BY <1>1, <2>5, <3>1, DeleteFrame DEF Threads, Processes
  <2>. QED
    BY <1>1, <2>1, <2>2, <2>3, <2>4, <2>5
<1>4. ASSUME pc["caller"] = "receive"
      PROVE  pc'["server"] = pc["server"] /\ pipe'["host"] = pipe["host"]
  <2>1. pc["plugin"] \notin PluginPCs /\ pc["host"] \in {"up"} \cup DeletePCs
    BY <1>4, CallKnown DEF InCall, CallPCs
  <2>2. CASE HostStep
    <3>1. HostDeleteHeader \/ HostDeleteSend
      BY <2>1, <2>2 DEF HostStep, HostCreateThread, HostCannotCreateThread, HostTell,
         HostConfirmation, HostAllow, Write, ReadInt, Goto, DeletePCs
    <3>. QED
      BY <1>1, <2>2, <3>1, HostFrame DEF HostDeleteHeader, HostDeleteSend, Store, Write,
         Pipes
  <2>3. CASE PluginStep
    <3>1. PluginDeleteSend
      BY <2>1, <2>3 DEF PluginStep, PluginInit, PluginStatus, PluginCreateThread,
         PluginCannotCreateThread, PluginTell, Write, ReadInt, Goto, PluginPCs
    <3>. QED
      BY <1>1, <3>1 DEF PluginDeleteSend, Write, Goto, PCs, Pipes
  <2>4. CASE ControlStep
    BY <1>1, <2>4, ControlFrame DEF Threads
  <2>5. CASE UNCHANGED vars
    BY <2>5 DEF vars
  <2>6. ASSUME NEW p \in Processes, DeleteBegin(p) \/ DeleteStep(p)
        PROVE  pc'["server"] = pc["server"] /\ pipe'["host"] = pipe["host"]
    BY <1>1, <2>6, DeleteFrame DEF Threads, Processes
  <2>. QED
    BY <1>1, <2>2, <2>3, <2>4, <2>5, <2>6
<1>5. pc["caller"] = "receive" => (AnswerExists' <=> AnswerExists)
  BY <1>3, <1>4 DEF AnswerExists
<1>. QED
  BY <1>2, <1>3, <1>5, Invisible

\* No call, no callback and no delete leaves what the remote call allows.
LEMMA KnownStep ==
  ASSUME ~GivesUp, ~Reorders, ~EarlyDelete, Crashes = {}
  PROVE  Known /\ [Next]_vars /\ DeletesLocked' =>
           Known' /\ [Call!RCNext]_<<Phase, reply, Given>>
<1>. SUFFICES ASSUME Known, [Next]_vars, DeletesLocked'
              PROVE  Known' /\ [Call!RCNext]_<<Phase, reply, Given>>
  OBVIOUS
<1>1. Flowing'
  BY FlowingStep, DeletesInTime DEF Known
<1>2. Known'
  BY <1>1, AliveStep, WindingDownStep DEF Known
<1>3. CASE CallStart \/ CallStep
  BY <1>2, <1>3, CallSeen DEF Call!RCNext
<1>4. CASE ServerStep
  BY <1>2, <1>4, CallbackSeen, ServerSeen DEF Call!RCNext
<1>5. CASE \/ HostStep \/ PluginStep \/ ControlStep \/ UNCHANGED vars
           \/ \E p \in Processes : DeleteBegin(p) \/ DeleteStep(p) \/ Crash(p)
  BY <1>2, <1>5, OthersSeen
<1>. QED
  BY <1>2, <1>3, <1>4, <1>5 DEF Next

\* What a call promises its user holds whatever both deletes do meanwhile, however
\* big the data and the answer are, and with every choice of the threads' order: it
\* is refused, or its data reaches the callback once and it returns the answer of
\* that run, whole and with its size.  As before, every delete gets the lock file.
THEOREM RemoteCallImplemented ==
  ASSUME ~GivesUp, ~Reorders, ~EarlyDelete, Crashes = {}
  PROVE  Spec /\ []DeletesLocked => ImplementsRemoteCall
<1>1. Init => Known /\ Call!RCInit
  <2>. SUFFICES ASSUME Init PROVE Known /\ Call!RCInit
    OBVIOUS
  <2>1. /\ pc["caller"] = "idle" /\ pc["host"] = "create" /\ pc["server"] = "none"
        /\ usable = FALSE /\ reply = 0
    BY DEF Init
  <2>2. Phase = "idle" /\ Given = "nothing"
    BY <2>1 DEF Phase, Given
  <2>. QED
    BY <2>1, <2>2, InitFlowing DEF Known, Alive, WindingDown, Call!RCInit, Call!NotGiven
<1>. QED
  BY <1>1, KnownStep, PTL DEF Spec, ImplementsRemoteCall, Call!RCSpec
=============================================================================
