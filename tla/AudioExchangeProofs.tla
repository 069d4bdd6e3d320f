------------------------ MODULE AudioExchangeProofs ------------------------
(***************************************************************************)
(* Theorems about the audio layer: every call and every delete it begins   *)
(* belongs to an orderly exchange, its buffers are not used by both sides  *)
(* at once, and every frame is processed.                                  *)
(***************************************************************************)
EXTENDS AudioExchange, ExchangeProofs

(***************************************************************************)
(* Types, and the order the socket for the ports imposes.                  *)
(***************************************************************************)
Buffer == [0..BUFFERSIZE - 1 -> Int]
Areas  == [inputs : Buffer, outputs : Buffer]
Jobs   == [at : {"idle", "copy", "call", "calling", "copy_out", "true", "false"},
           left : Nat, place : Nat]
Ports  == [host   : {"new", "accept", "receive", "up", "failed", "refused"},
           plugin : {"new", "connected", "up", "gave_up"}]

AudioTypes == job \in Jobs /\ area \in Areas /\ ports \in Ports

\* The plugin tells its ports to a host that listens, so to one that is up; a call
\* of the exchange is made for an audio call, and that for a host that has the ports.
PortsInOrder ==
  /\ ports["host"] # "new" => HostReturned
  /\ ports["plugin"] \in {"connected", "up"} => ports["host"] # "new"
  /\ ports["host"] = "up" => ports["plugin"] = "up"
  /\ job.at # "idle" => ports["host"] = "up"
  /\ pc["caller"] \notin {"idle", "dead"} => job.at = "calling"
  /\ job.at = "calling" => pc["caller"] # "idle"

Ordered == TypeOK /\ InputKept /\ AudioTypes /\ PortsInOrder

\* The audio layer takes only steps of the exchange.
LEMMA AudioIsNext == [AudioNext]_audioVars => [Next]_vars
<1>. SUFFICES ASSUME [AudioNext]_audioVars PROVE [Next]_vars
  OBVIOUS
<1>1. CASE AudioPortStep
  BY <1>1 DEF AudioPortStep, HostListen, HostCannotListen, HostAccept, HostAcceptFails,
     HostReceivePorts, HostReceiveFails, PluginConnect, PluginTimesOut, PluginSendPorts,
     PortStep
<1>2. CASE JobBegin \/ JobCopyIn \/ JobCopyOut
  BY <1>2 DEF JobBegin, JobCopyIn, JobCopyOut
<1>3. CASE JobCall \/ JobCalling \/ AudioServerStep
  BY <1>3 DEF JobCall, JobCalling, AudioServerStep, Next, CallStart
<1>4. CASE LowerStep
  BY <1>4 DEF LowerStep, Next
<1>5. ASSUME NEW p \in Processes, AudioDeleteBegin(p) PROVE Next
  BY <1>5 DEF AudioDeleteBegin, Next
<1>6. CASE UNCHANGED audioVars
  BY <1>6 DEF audioVars
<1>. QED
  BY <1>1, <1>2, <1>3, <1>4, <1>5, <1>6 DEF AudioNext, JobStep

\* Once aipc_plugincaller_new has returned it has returned for ever.
LEMMA ReturnedStays == TypeOK /\ HostReturned /\ [Next]_vars => HostReturned'
<1>. SUFFICES ASSUME TypeOK, HostReturned, [Next]_vars PROVE HostReturned'
  OBVIOUS
<1>1. pc \in PCs
  BY DEF TypeOK
<1>2. CASE CallStart \/ CallStep \/ ServerStep \/ ControlStep \/ PluginStep
  <2>1. pc'["host"] = pc["host"]
    BY <1>2, CallFrame, ServerFrame, ControlFrame, PluginFrame DEF Threads
  <2>. QED
    BY <2>1 DEF HostReturned
<1>3. CASE HostStep
  BY <1>1, <1>3 DEF HostStep, HostCreateThread, HostCannotCreateThread, HostTell,
     HostConfirmation, HostAllow, HostDeleteHeader, HostDeleteSend, Write, ReadInt, Store,
     Goto, PCs, HostReturned
<1>4. ASSUME NEW p \in Processes, DeleteBegin(p) \/ DeleteStep(p)
      PROVE  HostReturned'
  <2>1. CASE p = "host"
    BY <1>4, <2>1, DeleteFrame DEF HostReturned, DeletePCs
  <2>2. CASE p = "plugin"
    <3>1. pc'["host"] = pc["host"]
      BY <1>4, <2>2, DeleteFrame DEF Threads
    <3>. QED
      BY <3>1 DEF HostReturned
  <2>. QED
    BY <2>1, <2>2 DEF Processes
<1>5. ASSUME NEW p \in Processes, Crash(p)
      PROVE  HostReturned'
  BY <1>5 DEF Crash, Threads, HostReturned
<1>6. CASE UNCHANGED vars
  BY <1>6 DEF vars, HostReturned
<1>. QED
  BY <1>2, <1>3, <1>4, <1>5, <1>6 DEF Next

\* The chunk is a part of what is left, and fits into the shared buffers.
LEMMA ChunkFits ==
  ASSUME NEW n \in Nat
  PROVE  /\ Chunk(n) \in Nat /\ Chunk(n) <= n /\ Chunk(n) <= BUFFERSIZE
         /\ n <= Chunk(n) => Chunk(n) = n
<1>1. BUFFERSIZE \in Nat
  BY AudioAssumption DEF AudioAssumption
<1>. QED
  BY <1>1 DEF Chunk, Least

\* The buffers hold numbers, and a job counts its frames.
LEMMA AudioTypesStep == AudioTypes /\ [AudioNext]_audioVars => AudioTypes'
<1>. SUFFICES ASSUME AudioTypes, [AudioNext]_audioVars PROVE AudioTypes'
  OBVIOUS
<1>1. job \in Jobs /\ area \in Areas /\ ports \in Ports
  BY DEF AudioTypes
<1>2. job.left \in Nat /\ job.place \in Nat
  BY <1>1 DEF Jobs
<1>3. CASE AudioPortStep
  <2>1. job' = job /\ area' = area
    BY <1>3 DEF AudioPortStep, HostListen, HostCannotListen, HostAccept, HostAcceptFails,
       HostReceivePorts, HostReceiveFails, PluginConnect, PluginTimesOut, PluginSendPorts,
       PortStep
  <2>2. ports' \in Ports
    <3>1. \/ \E to \in {"accept", "receive", "up", "failed", "refused"} :
                ports' = [ports EXCEPT !["host"] = to]
          \/ \E to \in {"connected", "up", "gave_up"} :
                ports' = [ports EXCEPT !["plugin"] = to]
      BY <1>3 DEF AudioPortStep, HostListen, HostCannotListen, HostAccept,
         HostAcceptFails, HostReceivePorts, HostReceiveFails, PluginConnect,
         PluginTimesOut, PluginSendPorts, PortStep
    <3>. QED
      BY <1>1, <3>1 DEF Ports
  <2>. QED
    BY <1>1, <2>1, <2>2 DEF AudioTypes
<1>4. CASE JobBegin
  <2>1. PICK n \in Frames : job' = [at |-> "copy", left |-> n, place |-> 0]
    BY <1>4 DEF JobBegin
  <2>2. n \in Nat
    BY AudioAssumption DEF AudioAssumption
  <2>3. job' \in Jobs
    BY <2>1, <2>2 DEF Jobs
  <2>. QED
    BY <1>1, <1>4, <2>3 DEF JobBegin, AudioTypes
<1>5. CASE JobCopyIn
  <2>1. job' \in Jobs /\ ports' = ports
    BY <1>1, <1>5 DEF JobCopyIn, Jobs
  <2>2. area' = [area EXCEPT !.inputs =
                   [i \in DOMAIN area.inputs |->
                      IF i < Chunk(job.left) THEN job.place + i ELSE area.inputs[i]]]
    BY <1>5 DEF JobCopyIn
  <2>3. area.inputs \in Buffer
    BY <1>1 DEF Areas
  <2>4. [i \in DOMAIN area.inputs |->
           IF i < Chunk(job.left) THEN job.place + i ELSE area.inputs[i]] \in Buffer
    <3>1. DOMAIN area.inputs \subseteq Int /\ \A i \in DOMAIN area.inputs : area.inputs[i] \in Int
      BY <2>3, AudioAssumption DEF Buffer, AudioAssumption
    <3>2. \A i \in DOMAIN area.inputs :
            (IF i < Chunk(job.left) THEN job.place + i ELSE area.inputs[i]) \in Int
      BY <1>2, <3>1
    <3>. QED
      BY <2>3, <3>2 DEF Buffer
  <2>5. \A b \in Buffer : [area EXCEPT !.inputs = b] \in Areas
    BY <1>1 DEF Areas
  <2>6. area' \in Areas
    BY <2>2, <2>4, <2>5
  <2>. QED
    BY <1>1, <2>1, <2>6 DEF AudioTypes
<1>6. CASE JobCall
  BY <1>1, <1>6 DEF JobCall, Jobs, AudioTypes
<1>7. CASE JobCopyOut
  <2>1. /\ Chunk(job.left) \in Nat /\ Chunk(job.left) <= job.left
    BY <1>2, ChunkFits
  <2>2. job' \in Jobs
    BY <1>2, <1>7, <2>1 DEF JobCopyOut, Jobs
  <2>. QED
    BY <1>1, <1>7, <2>2 DEF JobCopyOut, AudioTypes
<1>8. CASE JobCalling
  BY <1>1, <1>8 DEF JobCalling, Jobs, AudioTypes
<1>9. CASE AudioServerStep
  <2>1. job' = job /\ ports' = ports
    BY <1>9 DEF AudioServerStep
  <2>2. CASE area' = area
    BY <1>1, <2>1, <2>2 DEF AudioTypes
  <2>3. CASE area' = [area EXCEPT !.outputs =
                        [i \in DOMAIN area.outputs |->
                           IF i < Chunk(job.left) THEN area.inputs[i] ELSE area.outputs[i]]]
    <3>1. area.outputs \in Buffer /\ area.inputs \in Buffer
      BY <1>1 DEF Areas
    <3>2. [i \in DOMAIN area.outputs |->
             IF i < Chunk(job.left) THEN area.inputs[i] ELSE area.outputs[i]] \in Buffer
      BY <3>1 DEF Buffer
    <3>3. area' \in Areas
      BY <1>1, <2>3, <3>2 DEF Areas
    <3>. QED
      BY <1>1, <2>1, <3>3 DEF AudioTypes
  <2>. QED
    BY <1>9, <2>2, <2>3 DEF AudioServerStep
<1>10. CASE UNCHANGED audio
  BY <1>1, <1>10 DEF audio, AudioTypes
<1>. QED
  BY <1>3, <1>4, <1>5, <1>6, <1>7, <1>8, <1>9, <1>10
  DEF AudioNext, JobStep, LowerStep, AudioDeleteBegin, audioVars

\* Every step keeps the order.
LEMMA PortsInOrderStep == Ordered /\ [AudioNext]_audioVars => PortsInOrder'
<1>. SUFFICES ASSUME Ordered, [AudioNext]_audioVars PROVE PortsInOrder'
  OBVIOUS
<1>1. /\ TypeOK /\ pc \in PCs /\ job \in Jobs /\ ports \in Ports /\ PortsInOrder
      /\ [Next]_vars
  BY AudioIsNext DEF Ordered, TypeOK, AudioTypes
<1>2. HostReturned => HostReturned'
  BY <1>1, ReturnedStays
<1>3. CASE AudioPortStep
  <2>1. UNCHANGED <<pc, job>>
    BY <1>3 DEF AudioPortStep, HostListen, HostCannotListen, HostAccept, HostAcceptFails,
       HostReceivePorts, HostReceiveFails, PluginConnect, PluginTimesOut, PluginSendPorts,
       PortStep, vars
  <2>2. pc["host"] = "up" => HostReturned
    BY DEF HostReturned
  <2>. QED
    BY <1>1, <1>2, <1>3, <2>1, <2>2 DEF AudioPortStep, HostListen, HostCannotListen,
       HostAccept, HostAcceptFails, HostReceivePorts, HostReceiveFails, PluginConnect,
       PluginTimesOut, PluginSendPorts, PortStep, Ports, PortsInOrder
<1>4. CASE JobBegin \/ JobCopyIn \/ JobCopyOut
  <2>1. /\ UNCHANGED <<pc, ports>>
        /\ job.at \notin {"calling"} /\ job'.at \notin {"idle", "calling"}
        /\ ports["host"] = "up"
    BY <1>1, <1>4 DEF JobBegin, JobCopyIn, JobCopyOut, vars, Jobs, PortsInOrder
  <2>. QED
    BY <1>1, <1>2, <2>1 DEF PortsInOrder
<1>5. CASE JobCall
  <2>1. /\ CallStart /\ ports' = ports /\ job'.at = "calling" /\ job.at = "call"
        /\ pc'["caller"] # "idle"
    BY <1>1, <1>5 DEF JobCall, CallStart, CallEnter, CallEnterReordered, Goto, PCs, Jobs
  <2>. QED
    BY <1>1, <1>2, <2>1 DEF PortsInOrder
<1>6. CASE JobCalling
  <2>1. /\ CallStep /\ ports' = ports
        /\ pc'["caller"] # "idle" => job' = job
        /\ pc'["caller"] = "idle" => job'.at \in {"copy_out", "false"}
    BY <1>1, <1>6 DEF JobCalling, Jobs
  <2>2. pc["caller"] \notin {"idle", "dead"}
    BY <2>1 DEF CallStep, CallAnnounce, CallCheck, CallRefuse, CallGrow, CallGrowSend,
       CallGrowAnswer, CallHeader, CallSend, CallReceive, CallEnlarge, CallGoOn,
       CallReceiveAgain, CallAccept, CallReturn, CallRead, Move, Store, Write, ReadInt,
       Goto
  <2>. QED
    BY <1>1, <1>2, <2>1, <2>2 DEF PortsInOrder
<1>8. CASE AudioServerStep
  <2>1. ServerStep /\ UNCHANGED <<ports, job>>
    BY <1>8 DEF AudioServerStep
  <2>2. pc'["caller"] = pc["caller"]
    BY <1>1, <2>1, ServerFrame DEF Threads
  <2>. QED
    BY <1>1, <1>2, <2>1, <2>2 DEF PortsInOrder
<1>9. CASE LowerStep
  <2>1. UNCHANGED <<ports, job>>
    BY <1>9 DEF LowerStep, audio
  <2>2. pc'["caller"] \in {pc["caller"], "dead"}
    BY <1>1, <1>9, HostFrame, PluginFrame, ControlFrame, DeleteFrame
    DEF LowerStep, Threads, Processes, Crash
  <2>. QED
    BY <1>1, <1>2, <2>1, <2>2 DEF PortsInOrder
<1>10. ASSUME NEW p \in Processes, AudioDeleteBegin(p)
       PROVE  PortsInOrder'
  <2>1. UNCHANGED <<ports, job>>
    BY <1>10 DEF AudioDeleteBegin, audio
  <2>2. pc'["caller"] = pc["caller"]
    BY <1>1, <1>10, DeleteFrame DEF AudioDeleteBegin, Threads, Processes
  <2>. QED
    BY <1>1, <1>2, <2>1, <2>2 DEF PortsInOrder
<1>11. CASE UNCHANGED audioVars
  BY <1>1, <1>11 DEF audioVars, audio, vars, PortsInOrder, HostReturned
<1>. QED
  BY <1>3, <1>4, <1>5, <1>6, <1>8, <1>9, <1>10, <1>11 DEF AudioNext, JobStep

\* So the ports are told in order, whatever the exchange below allows.
LEMMA AlwaysOrdered == AudioSpec => []Ordered
<1>1. AudioInit => Ordered
  <2>. SUFFICES ASSUME AudioInit PROVE Ordered
    OBVIOUS
  <2>1. TypeOK /\ InputKept
    BY InitType DEF AudioInit, Init, InputKept
  <2>2. job \in Jobs /\ ports \in Ports
    BY DEF AudioInit, Jobs, Ports
  <2>3. area \in Areas
    BY DEF AudioInit, Areas, Buffer, Silence
  <2>4. PortsInOrder
    BY DEF AudioInit, Init, PortsInOrder
  <2>. QED
    BY <2>1, <2>2, <2>3, <2>4 DEF Ordered, AudioTypes
<1>2. Ordered /\ [AudioNext]_audioVars => Ordered'
  BY AudioIsNext, TypeStep, InputKeptStep, AudioTypesStep, PortsInOrderStep DEF Ordered
<1>. QED
  BY <1>1, <1>2, PTL DEF AudioSpec

\* A plugin that has told its ports, or still has to, is not deleted while the host
\* starts.
LEMMA AudioInTime ==
  ASSUME Ordered, [AudioNext]_audioVars, ports["plugin"] # "gave_up"
  PROVE  InTime
<1>. SUFFICES ASSUME DeleteBegin("plugin") PROVE HostReturned
  BY DEF InTime
<1>1. TypeOK /\ pc \in PCs /\ ports \in Ports /\ PortsInOrder
  BY DEF Ordered, TypeOK, AudioTypes
<1>2. pc["plugin"] = "up" /\ pc'["plugin"] = "del_forbid"
  BY <1>1 DEF DeleteBegin, Move, Goto, PCs
<1>3. ~UNCHANGED vars
  BY <1>2 DEF vars
<1>4. ~AudioPortStep /\ ~JobBegin /\ ~JobCopyIn /\ ~JobCopyOut /\ ~UNCHANGED audioVars
  BY <1>3 DEF AudioPortStep, HostListen, HostCannotListen, HostAccept, HostAcceptFails,
     HostReceivePorts, HostReceiveFails, PluginConnect, PluginTimesOut, PluginSendPorts,
     PortStep, JobBegin, JobCopyIn, JobCopyOut, audioVars
<1>5. ~CallStart /\ ~CallStep /\ ~ServerStep /\ ~ControlStep /\ ~HostStep
  BY <1>1, <1>2, CallFrame, ServerFrame, ControlFrame, HostFrame DEF Threads
<1>6. ~PluginStep
  BY <1>2 DEF PluginStep, PluginInit, PluginStatus, PluginCreateThread,
     PluginCannotCreateThread, PluginTell, PluginDeleteSend, Write, ReadInt, Goto
<1>7. ASSUME NEW p \in Processes
      PROVE  ~DeleteStep(p) /\ ~Crash(p) /\ (AudioDeleteBegin(p) => p = "plugin")
  <2>1. ~Crash(p)
    BY <1>2 DEF Crash, Threads
  <2>2. p = "host" => ~DeleteStep(p) /\ ~AudioDeleteBegin(p)
    BY <1>1, <1>2, DeleteFrame DEF AudioDeleteBegin, Threads, Processes
  <2>3. p = "plugin" => ~DeleteStep(p)
    BY <1>2 DEF DeleteStep, DeleteForbid, DeleteLookReordered, DeleteForbidLate,
       DeleteWait, DeleteGiveUp, DeleteLock, DeleteLockFails, DeleteStatus, DeleteMark,
       DeleteUnlock, DeleteJoin, DeleteClose, LockAs, Move, Store, Goto
  <2>. QED
    BY <2>1, <2>2, <2>3 DEF Processes
<1>8. AudioDeleteBegin("plugin")
  BY <1>4, <1>5, <1>6, <1>7 DEF AudioNext, JobStep, JobCall, JobCalling, CallStart,
     AudioServerStep, LowerStep
<1>. QED
  BY <1>1, <1>8 DEF AudioDeleteBegin, Ports, PortsInOrder

(***************************************************************************)
(* The exchange below is an orderly one.                                   *)
(***************************************************************************)
\* The steps that do not ask for EarlyDelete are the same in both exchanges.
LEMMA LowerSteps ==
  /\ Lower!Processes = Processes
  /\ (Lower!HostStep <=> HostStep) /\ (Lower!PluginStep <=> PluginStep)
  /\ (Lower!CallStart <=> CallStart) /\ (Lower!CallStep <=> CallStep)
  /\ (Lower!ServerStep <=> ServerStep) /\ (Lower!ControlStep <=> ControlStep)
  /\ \A p : (Lower!DeleteStep(p) <=> DeleteStep(p)) /\ (Lower!Crash(p) <=> Crash(p))
<1>1. Lower!Processes = Processes
  BY DEF Lower!Processes, Processes
<1>2. Lower!HostStep <=> HostStep
  BY DEF HostStep, HostCreateThread, HostCannotCreateThread, HostTell, HostConfirmation,
     HostAllow, HostDeleteHeader, HostDeleteSend, Move, Store, Write, ReadInt, Goto, Word,
     Message, Left, Least, Readable, IntKinds, data, Lower!HostStep, Lower!HostCreateThread,
     Lower!HostCannotCreateThread, Lower!HostTell, Lower!HostConfirmation, Lower!HostAllow,
     Lower!HostDeleteHeader, Lower!HostDeleteSend, Lower!Move, Lower!Store, Lower!Write,
     Lower!ReadInt, Lower!Goto, Lower!Word, Lower!Message, Lower!Left, Lower!Least,
     Lower!Readable, Lower!IntKinds, Lower!data
<1>3. Lower!PluginStep <=> PluginStep
  BY DEF PluginStep, PluginInit, PluginStatus, PluginCreateThread, PluginCannotCreateThread,
     PluginTell, PluginDeleteSend, Move, Store, Write, ReadInt, Goto, Word, Message, Left,
     Least, Readable, IntKinds, data, Lower!PluginStep, Lower!PluginInit,
     Lower!PluginStatus, Lower!PluginCreateThread, Lower!PluginCannotCreateThread,
     Lower!PluginTell, Lower!PluginDeleteSend, Lower!Move, Lower!Store, Lower!Write,
     Lower!ReadInt, Lower!Goto, Lower!Word, Lower!Message, Lower!Left, Lower!Least,
     Lower!Readable, Lower!IntKinds, Lower!data
<1>4. Lower!CallStart <=> CallStart
  BY DEF CallStart, CallEnter, CallEnterReordered, CallWith, Goto, data, Lower!CallStart,
     Lower!CallEnter, Lower!CallEnterReordered, Lower!CallWith, Lower!Goto, Lower!data
<1>5. Lower!CallStep <=> CallStep
  BY DEF CallStep, CallAnnounce, CallCheck, CallRefuse, CallGrow, CallGrowSend, CallGrowAnswer,
     CallHeader, CallSend, CallReceive, CallEnlarge, CallGoOn, CallReceiveAgain, CallAccept,
     CallReturn, CallRead, Move, Store, Write, ReadInt, Goto, Word, Message, Got, Left,
     Least, Readable, data, Lower!CallStep, Lower!CallAnnounce, Lower!CallCheck,
     Lower!CallRefuse, Lower!CallGrow, Lower!CallGrowSend, Lower!CallGrowAnswer,
     Lower!CallHeader, Lower!CallSend, Lower!CallReceive, Lower!CallEnlarge, Lower!CallGoOn,
     Lower!CallReceiveAgain, Lower!CallAccept, Lower!CallReturn, Lower!CallRead, Lower!Move,
     Lower!Store, Lower!Write, Lower!ReadInt, Lower!Goto, Lower!Word, Lower!Message,
     Lower!Got, Lower!Left, Lower!Least, Lower!Readable, Lower!data
<1>6. Lower!ServerStep <=> ServerStep
  BY DEF ServerStep, ServerReceive, ServerEnd, ServerStop, ServerEnlarge, ServerEnlarged,
     ServerMismatch, ServerCallback, ServerTooBig, ServerAsk, ServerAsked, ServerAnswer,
     ServerReply, Move, Store, Write, ReadInt, Goto, Word, Message, Got, Left, Least,
     Readable, data, Lower!ServerStep, Lower!ServerReceive, Lower!ServerEnd,
     Lower!ServerStop, Lower!ServerEnlarge, Lower!ServerEnlarged, Lower!ServerMismatch,
     Lower!ServerCallback, Lower!ServerTooBig, Lower!ServerAsk, Lower!ServerAsked,
     Lower!ServerAnswer, Lower!ServerReply, Lower!Move, Lower!Store, Lower!Write,
     Lower!ReadInt, Lower!Goto, Lower!Word, Lower!Message, Lower!Got, Lower!Left,
     Lower!Least, Lower!Readable, Lower!data
<1>7. Lower!ControlStep <=> ControlStep
  BY DEF ControlStep, ControlReceive, ControlHeader, ControlSend, Move, Store, Write, ReadInt,
     Goto, Word, Message, Got, Left, Least, Readable, data, Lower!ControlStep,
     Lower!ControlReceive, Lower!ControlHeader, Lower!ControlSend, Lower!Move, Lower!Store,
     Lower!Write, Lower!ReadInt, Lower!Goto, Lower!Word, Lower!Message, Lower!Got,
     Lower!Left, Lower!Least, Lower!Readable, Lower!data
<1>8. ASSUME NEW p PROVE Lower!DeleteStep(p) <=> DeleteStep(p)
  BY DEF DeleteStep, DeleteForbid, DeleteLookReordered, DeleteForbidLate, DeleteWait,
     DeleteGiveUp, DeleteLock, DeleteLockFails, DeleteStatus, DeleteMark, DeleteUnlock,
     DeleteJoin, DeleteClose, Closing, LockAs, Move, Store, Goto, data, Lower!DeleteStep,
     Lower!DeleteForbid, Lower!DeleteLookReordered, Lower!DeleteForbidLate,
     Lower!DeleteWait, Lower!DeleteGiveUp, Lower!DeleteLock, Lower!DeleteLockFails,
     Lower!DeleteStatus, Lower!DeleteMark, Lower!DeleteUnlock, Lower!DeleteJoin,
     Lower!DeleteClose, Lower!Closing, Lower!LockAs, Lower!Move, Lower!Store, Lower!Goto,
     Lower!data
<1>9. ASSUME NEW p PROVE Lower!Crash(p) <=> Crash(p)
  BY DEF Crash, Closing, Threads, ProcessOf, data, Lower!Crash, Lower!Closing, Lower!Threads,
     Lower!ProcessOf, Lower!data
<1>. QED
  BY <1>1, <1>2, <1>3, <1>4, <1>5, <1>6, <1>7, <1>8, <1>9

\* A step at which the plugin is not deleted too early is one of the orderly exchange.
LEMMA LowerNext == InTime /\ Next => Lower!Next
<1>. SUFFICES ASSUME InTime, Next PROVE Lower!Next
  OBVIOUS
<1>1. ASSUME NEW p \in Processes, DeleteBegin(p)
      PROVE  Lower!DeleteBegin(p)
  BY <1>1 DEF InTime, DeleteBegin, HostReturned, Move, Goto, data, Lower!DeleteBegin,
     Lower!HostReturned, Lower!Move, Lower!Goto, Lower!data
<1>. QED
  BY <1>1, LowerSteps DEF Next, Lower!Next

\* It starts as one.
LEMMA LowerInit == Init => Lower!Init
BY DEF Init, Processes, Lower!Init, Lower!Processes

\* The socket for the ports keeps the two processes in step: but for a plugin that
\* gave up telling its ports, whose user may delete it at once, what the audio layer
\* does is an exchange whose plugin is never deleted while the host starts.  That is
\* so for every bound, callback, crash and order of stores.
THEOREM AudioImplementsOrderlyExchange == AudioSpec => ImplementsOrderlyExchange
<1>1. AudioInit => Lower!Init
  BY LowerInit DEF AudioInit
<1>2. Ordered /\ [AudioNext]_audioVars => [Lower!Next \/ ports["plugin"] = "gave_up"]_vars
  <2>. SUFFICES ASSUME Ordered, [AudioNext]_audioVars, ports["plugin"] # "gave_up"
                PROVE  [Lower!Next]_vars
    OBVIOUS
  <2>. QED
    BY AudioInTime, AudioIsNext, LowerNext
<1>. QED
  BY <1>1, <1>2, AlwaysOrdered, PTL DEF AudioSpec, ImplementsOrderlyExchange

(***************************************************************************)
(* What an audio call knows.                                               *)
(***************************************************************************)
\* No answer is bigger than the buffer for it: the callback returns NULL.
Unenlarged ==
  /\ pah.p2h_datasize = 0 /\ reply = 0
  /\ pc["caller"] \notin {"go_on", "receive_again"}
  /\ pc["server"] \notin {"too_big", "ask", "asked"}

\* While the host uses the buffers the call thread is only told to end, also by a
\* host that has died or was freed meanwhile.
Calm ==
  pc["server"] = "header" \/ (Made /\ pipe["plugin"] # <<>>) =>
    pah.h2p_datasize \in {0, -1}

Quiet == job.at \in {"copy", "call", "copy_out"} => Calm

\* The callback of the call being made has run.
Answered ==
  /\ InCall
  /\ \/ pc["server"] \in {"answer", "reply"} \/ pc["caller"] \in {"size", "return"}
     \/ pc["caller"] = "receive" /\ pipe["host"] # <<>>

\* The frames of the chunk are in their places.
Copied(buffer) == \A i \in 0..Chunk(job.left) - 1 : buffer[i] = job.place + i

\* The frames of the chunks before it are processed, those behind it have room.
Filled ==
  /\ DOMAIN outputs = 0..job.place + job.left - 1
  /\ \A f \in 0..job.place - 1 : outputs[f] = f

Placed ==
  /\ job.at \in {"copy", "call", "calling", "copy_out"} => Filled
  /\ job.at \in {"call", "calling", "copy_out"} => Copied(area.inputs)
  /\ job.at = "copy_out" \/ (job.at = "calling" /\ Answered) => Copied(area.outputs)
  /\ EveryFrameProcessed

\* What the steps of everybody but the caller and the call thread leave alone.
LEMMA OthersLeave ==
  ASSUME TypeOK,
         \/ HostStep \/ PluginStep \/ ControlStep
         \/ \E p \in Processes : DeleteBegin(p) \/ DeleteStep(p) \/ Crash(p)
  PROVE  /\ UNCHANGED data /\ pah'.p2h_datasize = pah.p2h_datasize
         /\ pc'["caller"] \in {pc["caller"], "dead"}
         /\ \/ pc'["server"] \in {pc["server"], "dead"}
            \/ PluginCreateThread /\ pc'["server"] = "receive"
         /\ \/ pipe'["host"] \in {pipe["host"], Left("host", 1)}
            \/ pc["plugin"] \in PluginPCs
<1>1. pc \in PCs /\ pah \in Structs /\ pipe \in Pipes
  BY DEF TypeOK
<1>2. CASE HostStep
  BY <1>1, <1>2 DEF HostStep, HostCreateThread, HostCannotCreateThread, HostTell,
     HostConfirmation, HostAllow, HostDeleteHeader, HostDeleteSend, Write, ReadInt, Store,
     Goto, PCs, Structs, Pipes
<1>3. CASE PluginStep
  BY <1>1, <1>3 DEF PluginStep, PluginInit, PluginStatus, PluginCreateThread,
     PluginCannotCreateThread, PluginTell, PluginDeleteSend, Write, ReadInt, Goto, PCs,
     Structs, Pipes, PluginPCs
<1>4. CASE ControlStep
  BY <1>1, <1>4 DEF ControlStep, ControlReceive, ControlHeader, ControlSend, Store, Write,
     ReadInt, Goto, PCs, Structs, Pipes
<1>5. ASSUME NEW p \in Processes, DeleteBegin(p) \/ DeleteStep(p)
      PROVE  /\ UNCHANGED data /\ pah'.p2h_datasize = pah.p2h_datasize
             /\ pc'["caller"] = pc["caller"] /\ pc'["server"] = pc["server"]
             /\ pipe'["host"] = pipe["host"]
  <2>1. /\ pc'["caller"] = pc["caller"] /\ pc'["server"] = pc["server"]
        /\ pipe'["host"] = pipe["host"]
    BY <1>5, DeleteFrame DEF Threads, Processes
  <2>2. UNCHANGED data /\ pah'.p2h_datasize = pah.p2h_datasize
    BY <1>1, <1>5 DEF DeleteBegin, DeleteStep, DeleteForbid, DeleteLookReordered,
       DeleteForbidLate, DeleteWait, DeleteGiveUp, DeleteLock, DeleteLockFails,
       DeleteStatus, DeleteMark, DeleteUnlock, DeleteJoin, DeleteClose, Closing, LockAs,
       Move, Store, Structs
  <2>. QED
    BY <2>1, <2>2
<1>6. ASSUME NEW p \in Processes, Crash(p)
      PROVE  /\ UNCHANGED <<data, pah, pipe>>
             /\ pc'["caller"] \in {pc["caller"], "dead"}
             /\ pc'["server"] \in {pc["server"], "dead"}
  BY <1>6 DEF Crash, Closing, Threads
<1>. QED
  BY <1>2, <1>3, <1>4, <1>5, <1>6

\* An answer never asks for a bigger buffer.
LEMMA UnenlargedStep == Orderly /\ Unenlarged /\ [Next]_vars => Unenlarged'
<1>. SUFFICES ASSUME Orderly, Unenlarged, [Next]_vars PROVE Unenlarged'
  OBVIOUS
<1>1. TypeOK /\ pc \in PCs /\ pah \in Structs /\ buf \in Buffers
  BY DEF Orderly, TypeOK
<1>2. CASE CallStart \/ CallStep
  <2>1. reply' = reply /\ pah'.p2h_datasize = pah.p2h_datasize
        /\ pc'["server"] = pc["server"]
    BY <1>2, CallLeaves DEF Threads
  <2>2. ~CallEnlarge /\ ~CallGoOn
    BY DEF Unenlarged, CallEnlarge, CallGoOn, Write, Goto
  <2>3. pc'["caller"] \notin {"go_on", "receive_again"}
    BY <1>1, <1>2, <2>2 DEF CallStart, CallEnter, CallEnterReordered, CallStep,
       CallAnnounce, CallCheck, CallRefuse, CallGrow, CallGrowSend, CallGrowAnswer,
       CallHeader, CallSend, CallReceive, CallReceiveAgain, CallAccept, CallReturn,
       CallRead, Move, Store, Write, ReadInt, Goto, PCs
  <2>. QED
    BY <2>1, <2>3 DEF Unenlarged
<1>3. CASE ServerStep
  <2>1. pc'["caller"] = pc["caller"]
    BY <1>1, <1>3, ServerFrame DEF Threads
  <2>2. CASE ServerCallback
    <3>1. reply' = 0 /\ pah' = pah
      BY <2>2, AudioAssumption DEF ServerCallback, AudioAssumption
    <3>2. ~(0 > buf.returndatasize_max)
      BY <1>1 DEF Buffers
    <3>3. pc'["server"] = "answer"
      BY <1>1, <2>2, <3>1, <3>2 DEF ServerCallback, Goto, PCs
    <3>. QED
      BY <2>1, <3>1, <3>3 DEF Unenlarged
  <2>3. CASE ServerAnswer
    BY <1>1, <2>1, <2>3 DEF ServerAnswer, Store, Goto, Unenlarged, PCs, Structs, data
  <2>4. ~ServerTooBig /\ ~ServerAsk /\ ~ServerAsked
    BY DEF ServerTooBig, ServerAsk, ServerAsked, Store, Write, ReadInt, Goto, Unenlarged
  <2>5. CASE \/ ServerReceive \/ ServerEnd \/ ServerStop \/ ServerEnlarge
             \/ ServerEnlarged \/ ServerMismatch \/ ServerReply
    BY <1>1, <2>1, <2>5 DEF ServerReceive, ServerEnd, ServerStop, ServerEnlarge,
       ServerEnlarged, ServerMismatch, ServerReply, Move, Write, Goto, Unenlarged, PCs,
       data
  <2>. QED
    BY <1>3, <2>2, <2>3, <2>4, <2>5 DEF ServerStep
<1>4. CASE \/ HostStep \/ PluginStep \/ ControlStep
           \/ \E p \in Processes : DeleteBegin(p) \/ DeleteStep(p) \/ Crash(p)
  <2>1. /\ reply' = reply /\ pah'.p2h_datasize = pah.p2h_datasize
        /\ pc'["caller"] \in {pc["caller"], "dead"}
        /\ pc'["server"] \in {pc["server"], "dead", "receive"}
    BY <1>1, <1>4, OthersLeave DEF data
  <2>. QED
    BY <2>1 DEF Unenlarged
<1>5. CASE UNCHANGED vars
  BY <1>5 DEF vars, data, Unenlarged
<1>. QED
  BY <1>2, <1>3, <1>4, <1>5 DEF Next

\* A call is made by a host that is up, or that has begun its delete and waits.
LEMMA InCallUp ==
  ASSUME Flowing, InCall
  PROVE  /\ pc["host"] \in {"up"} \cup DeletePCs /\ usable
         /\ pc["plugin"] \notin PluginPCs
         /\ Made => Running
<1>1. pc["caller"] \notin {"idle", "dead"} /\ Standing /\ Orderly
  BY DEF Flowing, InCall, CallPCs
<1>2. pc["host"] # "freed"
  BY <1>1 DEF Orderly, Safe, CallExclusion, PastWait, Processes
<1>3. usable /\ pc["host"] \in {"up"} \cup DeletePCs
  BY <1>1, <1>2 DEF Standing, Starting
<1>4. pc["plugin"] \notin PluginPCs
  BY <1>1 DEF Orderly, InOrder
<1>. QED
  BY <1>3, <1>4 DEF Running

\* Once the host is gone nothing new is on its way to the call thread.
LEMMA GoneHost ==
  ASSUME Flowing, [Next]_vars, ~CallStart, ~CallStep,
         pc'["host"] \in {"freed", "dead"},
         pc'["server"] = "header" \/ (Made' /\ pipe'["plugin"] # <<>>)
  PROVE  /\ pc["server"] = "header" \/ (Made /\ pipe["plugin"] # <<>>)
         /\ pah'.h2p_datasize = pah.h2p_datasize
<1>1. /\ TypeOK /\ pc \in PCs /\ pah \in Structs /\ pipe \in Pipes /\ buf \in Buffers
      /\ Standing /\ Orderly
  BY DEF Flowing, Orderly, TypeOK
<1>2. CASE ServerStep
  <2>1. pah'.h2p_datasize = pah.h2p_datasize /\ Made
    BY <1>1, <1>2, ServerLeaves DEF Made, ServerPCs
  <2>2. pipe["plugin"] = <<>> => pipe'["plugin"] = <<>>
    <3>1. ASSUME pipe["plugin"] = <<>>, NEW n \in Nat
          PROVE  Left("plugin", n) = <<>>
      BY <1>1, <3>1, ReadAll
    <3>2. buf.plugin_receivedatasize \in Nat
      BY <1>1 DEF Buffers
    <3>3. pipe'["plugin"] = pipe["plugin"] \/ \E n \in Nat : pipe'["plugin"] = Left("plugin", n)
      <4>1. CASE ServerReceive
        BY <1>1, <3>2, <4>1 DEF ServerReceive, Pipes
      <4>2. CASE ServerAsked
        BY <1>1, <4>2 DEF ServerAsked, ReadInt, Pipes
      <4>. QED
        BY <1>1, <1>2, <4>1, <4>2 DEF ServerStep, ServerEnd, ServerStop, ServerEnlarge,
           ServerEnlarged, ServerMismatch, ServerCallback, ServerTooBig, ServerAsk,
           ServerAnswer, ServerReply, Move, Store, Write, Pipes
    <3>. QED
      BY <3>1, <3>3
  <2>3. pc'["server"] = "header" => pc["server"] = "receive" /\ pipe["plugin"] # <<>>
    BY <1>1, <1>2 DEF ServerStep, ServerReceive, ServerEnd, ServerStop, ServerEnlarge,
       ServerEnlarged, ServerMismatch, ServerCallback, ServerTooBig, ServerAsk,
       ServerAsked, ServerAnswer, ServerReply, Move, Store, Write, ReadInt, Goto, PCs
  <2>. QED
    BY <2>1, <2>2, <2>3
<1>3. CASE HostStep
  BY <1>1, <1>3 DEF HostStep, HostCreateThread, HostCannotCreateThread, HostTell,
     HostConfirmation, HostAllow, HostDeleteHeader, HostDeleteSend, Write, ReadInt, Store,
     Goto, PCs
<1>4. CASE ControlStep
  <2>1. pc["control"] \notin {"none", "ended", "dead"} /\ pc'["host"] = pc["host"]
    BY <1>1, <1>4, ControlFrame DEF Threads
  <2>. QED
    BY <1>1, <2>1 DEF Standing, Joined, Starting
<1>5. CASE PluginStep
  <2>1. CASE PluginStatus \/ PluginCreateThread
    <3>1. pc["server"] = "none" /\ (PluginCreateThread => pipe["plugin"] = <<>>)
      BY <1>1, <2>1 DEF PluginStatus, PluginCreateThread, ReadInt, Goto, Standing,
         Starting
    <3>2. PluginStatus => pc'["server"] = "none"
      BY <1>1, <3>1 DEF PluginStatus, ReadInt, Goto, PCs
    <3>3. PluginCreateThread => pc'["server"] = "receive" /\ pipe' = pipe
      BY <1>1 DEF PluginCreateThread, PCs
    <3>. QED
      BY <2>1, <3>1, <3>2, <3>3 DEF Made
  <2>2. CASE \/ PluginInit \/ PluginCannotCreateThread \/ PluginTell \/ PluginDeleteSend
    <3>1. /\ pc'["server"] = pc["server"] /\ pipe'["plugin"] = pipe["plugin"]
          /\ pah'.h2p_datasize = pah.h2p_datasize
      BY <1>1, <2>2 DEF PluginInit, PluginCannotCreateThread, PluginTell,
         PluginDeleteSend, Write, Goto, PCs, Pipes, Structs
    <3>. QED
      BY <3>1 DEF Made
  <2>. QED
    BY <1>5, <2>1, <2>2 DEF PluginStep
<1>6. ASSUME NEW p \in Processes, DeleteBegin(p) \/ DeleteStep(p)
      PROVE  /\ pc'["server"] = pc["server"] /\ pipe' = pipe
             /\ pah'.h2p_datasize = pah.h2p_datasize
  <2>1. pc'["server"] = pc["server"] /\ pipe' = pipe
    BY <1>1, <1>6, DeleteFrame DEF Threads, Processes
  <2>2. pah'.h2p_datasize = pah.h2p_datasize
    BY <1>1, <1>6 DEF DeleteBegin, DeleteStep, DeleteForbid, DeleteLookReordered,
       DeleteForbidLate, DeleteWait, DeleteGiveUp, DeleteLock, DeleteLockFails,
       DeleteStatus, DeleteMark, DeleteUnlock, DeleteJoin, DeleteClose, Closing, LockAs,
       Move, Store, Structs
  <2>. QED
    BY <2>1, <2>2
<1>7. ASSUME NEW p \in Processes, Crash(p)
      PROVE  pc'["server"] \in {pc["server"], "dead"} /\ UNCHANGED <<pipe, pah>>
  BY <1>7 DEF Crash, Closing, Threads
<1>8. CASE UNCHANGED vars
  BY <1>8 DEF vars, Made
<1>. QED
  BY <1>2, <1>3, <1>4, <1>5, <1>6, <1>7, <1>8 DEF Next, Made

\* While the host uses the buffers nobody sends the call thread anything to work on.
LEMMA QuietStep ==
  ASSUME Ordered, Ordered', Flowing, Flowing', Quiet, [AudioNext]_audioVars
  PROVE  Quiet'
<1>. SUFFICES ASSUME job'.at \in {"copy", "call", "copy_out"},
                     pc'["server"] = "header" \/ (Made' /\ pipe'["plugin"] # <<>>)
              PROVE  pah'.h2p_datasize \in {0, -1}
  BY DEF Quiet, Calm
<1>1. /\ TypeOK /\ pc \in PCs /\ job \in Jobs /\ PortsInOrder /\ PortsInOrder'
      /\ [Next]_vars /\ Orderly /\ Standing /\ Flows'
  BY AudioIsNext DEF Ordered, AudioTypes, Flowing, Orderly, TypeOK
<1>2. pc' \in PCs
  BY DEF Ordered, TypeOK
<1>3. ~InCall' /\ Made'
  BY <1>1 DEF PortsInOrder, InCall, CallPCs, Made
<1>4. CASE Running'
  BY <1>1, <1>3, <1>4 DEF Flows, Ends
<1>5. CASE ~Running'
  <2>1. pc'["host"] \in {"freed", "dead"}
    <3>1. pc'["host"] \notin {"create", "tell", "confirmation", "allow"}
      BY <1>1 DEF PortsInOrder, HostReturned
    <3>. QED
      BY <1>2, <1>3, <1>5, <3>1 DEF Running, PCs, HostPCs
  <2>2. ASSUME ~CallStart, ~CallStep, job.at \in {"copy", "call", "copy_out"}
        PROVE  pah'.h2p_datasize \in {0, -1}
    BY <1>1, <2>1, <2>2, GoneHost DEF Quiet, Calm
  <2>3. ASSUME CallStart \/ CallStep
        PROVE  FALSE
    <3>1. pc'["host"] = pc["host"] /\ pc["host"] # "dead"
      BY <1>1, <2>3, CallFrame, CallerUp DEF Threads, Standing
    <3>2. ~InCall /\ pc["caller"] # "dead"
      BY <1>1, <2>1, <2>3, <3>1, CallerUp DEF Standing, DeletePCs
    <3>3. pc'["caller"] \in {"idle", "dead"}
      BY <1>1 DEF PortsInOrder
    <3>4. CallRefuse
      BY <1>1, <2>3, <3>2, <3>3 DEF InCall, CallPCs, CallStart, CallEnter,
         CallEnterReordered, CallStep, CallAnnounce, CallCheck, CallRefuse, CallGrow,
         CallGrowSend, CallGrowAnswer, CallHeader, CallSend, CallReceive, CallEnlarge,
         CallGoOn, CallReceiveAgain, CallAccept, CallReturn, CallRead, Move, Store, Write,
         ReadInt, Goto, PCs
    <3>5. /\ pc["caller"] = "refuse" /\ pc'["caller"] = "idle" /\ job.at = "calling"
          /\ pc' # pc
      BY <1>1, <3>4 DEF CallRefuse, Store, Goto, PCs, PortsInOrder
    <3>6. CASE JobCalling
      BY <1>1, <3>5, <3>6 DEF JobCalling, Jobs
    <3>7. CASE ~JobCalling
      BY <3>5, <3>7 DEF AudioNext, AudioPortStep, HostListen, HostCannotListen,
         HostAccept, HostAcceptFails, HostReceivePorts, HostReceiveFails, PluginConnect,
         PluginTimesOut, PluginSendPorts, PortStep, JobBegin, JobStep, JobCopyIn, JobCall,
         JobCopyOut, AudioServerStep, LowerStep, AudioDeleteBegin, audio, audioVars
    <3>. QED
      BY <3>6, <3>7
  <2>4. job.at \in {"copy", "call", "copy_out"}
    <3>1. ~JobBegin
      <4>1. JobBegin => usable /\ pc' = pc
        BY DEF JobBegin, vars
      <4>2. usable => pc["host"] \in {"up"} \cup DeletePCs
        BY <1>1 DEF Standing, Starting
      <4>. QED
        BY <2>1, <4>1, <4>2 DEF DeletePCs
    <3>2. ~JobCall /\ ~JobCalling
      BY <2>3 DEF JobCall, JobCalling, CallStart
    <3>. QED
      BY <1>1, <3>1, <3>2 DEF AudioNext, AudioPortStep, HostListen, HostCannotListen,
         HostAccept, HostAcceptFails, HostReceivePorts, HostReceiveFails, PluginConnect,
         PluginTimesOut, PluginSendPorts, PortStep, JobStep, JobCopyIn, JobCopyOut,
         AudioServerStep, LowerStep, AudioDeleteBegin, audio, audioVars
  <2>. QED
    BY <2>2, <2>3, <2>4
<1>. QED
  BY <1>4, <1>5

\* A callback is only run by the call thread, for the data of the call being made.
LEMMA AnsweredBefore ==
  ASSUME ~Reorders, Flowing, Flowing', Unenlarged, [Next]_vars, Answered'
  PROVE  InCall /\ (Answered \/ ServerCallback)
<1>1. /\ TypeOK /\ pc \in PCs /\ pipe \in Pipes /\ buf \in Buffers /\ pah \in Structs
      /\ Standing /\ Orderly /\ Flows /\ Flows' /\ Orderly'
  BY DEF Flowing, Orderly, TypeOK
<1>2. CASE CallStart \/ CallStep
  <2>1. pc'["server"] = pc["server"] /\ pc'["host"] = pc["host"]
    BY <1>1, <1>2, CallFrame DEF Threads
  <2>2. InCall'
    BY DEF Answered
  <2>3. pc'["server"] \in {"answer", "reply"} => pc'["caller"] \notin {"fit"}
    <3>1. pc'["server"] \in {"answer", "reply"} => Running'
      BY <1>1, <1>2, <2>1, <2>2, CallRuns DEF Made, Running
    <3>. QED
      BY <1>1, <3>1 DEF Flows, Calls, Rests
  <2>4. CASE pc["caller"] = "check"
    <3>1. pc'["caller"] = "fit"
      BY <1>1, <1>2, <2>2, <2>4, CallAction DEF CallCheck, Move, Goto, PCs, InCall, CallPCs
    <3>. QED
      BY <2>3, <3>1 DEF Answered
  <2>5. pc["caller"] \notin {"idle", "refuse"}
    BY <1>1, <1>2, <2>2, CallAction DEF CallEnter, CallRefuse, Store, Goto, PCs, InCall,
       CallPCs
  <2>6. CASE InCall
    <3>1. CASE pc["server"] \in {"answer", "reply"} \/ pc["caller"] \in {"size", "return"}
      BY <2>6, <3>1 DEF Answered
    <3>2. CASE pc["caller"] = "receive"
      <4>1. pipe["host"] # <<>>
        BY <1>1, <1>2, <2>2, <3>2, CallAction DEF CallReceive, CallRead, Goto, PCs, InCall,
           CallPCs
      <4>. QED
        BY <2>6, <3>2, <4>1 DEF Answered
    <3>3. CASE pc["caller"] = "send"
      <4>1. pc'["caller"] = "receive" /\ pipe'["host"] = pipe["host"]
        BY <1>1, <1>2, <3>3, CallAction DEF CallSend, Write, Goto, PCs, Pipes
      <4>2. pipe["host"] = <<>>
        BY <1>1, <1>2, <2>6, <3>3, InCallUp, CallFits DEF Flows
      <4>. QED
        BY <2>1, <2>6, <4>1, <4>2 DEF Answered
    <3>4. CASE pc["caller"] \in {"fit", "grow_send", "grow_answer"}
      <4>1. pc'["caller"] \in {"fit", "grow_send", "grow_answer", "send"}
        BY <1>1, <1>2, <3>4, CallAction DEF CallGrow, CallHeader, CallGrowSend,
           CallGrowAnswer, Store, Write, ReadInt, Goto, PCs
      <4>. QED
        BY <2>1, <2>6, <4>1 DEF Answered
    <3>. QED
      BY <2>6, <3>1, <3>2, <3>3, <3>4 DEF Unenlarged, InCall, CallPCs
  <2>. QED
    BY <1>1, <1>2, <2>4, <2>5, <2>6, CallAction DEF InCall
<1>3. CASE ServerStep
  <2>1. pc'["caller"] = pc["caller"] /\ InCall
    BY <1>1, <1>3, ServerFrame DEF Answered, InCall, Threads
  <2>2. Made
    BY <1>1, <1>3, ServerLeaves DEF Made, ServerPCs
  <2>3. CASE pc["server"] \in {"answer", "reply"} \/ pc["caller"] \in {"size", "return"}
    BY <2>1, <2>3 DEF Answered
  <2>4. CASE pc["server"] = "receive" /\ pc["caller"] \notin {"size", "return"}
    <3>1. /\ pc'["server"] \in {"header", "ended"} /\ pipe'["host"] = pipe["host"]
      BY <1>1, <1>3, <2>4, ServerAction DEF ServerReceive, Goto, PCs, Pipes
    <3>. QED
      BY <2>1, <2>4, <3>1 DEF Answered
  <2>5. CASE pc["server"] = "header" /\ pc["caller"] \notin {"size", "return"}
    <3>1. CASE ServerMismatch
      <4>1. pah.h2p_datasize > 0 /\ Len(input) # pah.h2p_datasize
        BY <3>1 DEF ServerMismatch
      <4>2. pah.h2p_datasize \in Nat /\ input = Message("data", calls, pah.h2p_datasize)
        BY <1>1, <2>2, <2>5, <4>1 DEF Flows, Serves, Matches, Structs
      <4>. QED
        BY <4>1, <4>2, MessageFacts
    <3>2. CASE ServerEnd \/ ServerEnlarge
      <4>1. pc'["server"] \in {"stop", "enlarged"} /\ pipe' = pipe
        BY <1>1, <3>2 DEF ServerEnd, ServerEnlarge, Move, Goto, PCs
      <4>. QED
        BY <2>1, <2>5, <4>1 DEF Answered
    <3>. QED
      BY <1>3, <2>1, <2>5, <3>1, <3>2, ServerAction
  <2>6. CASE pc["server"] \in {"stop", "enlarged"} /\ pc["caller"] \notin {"size", "return"}
    <3>1. pc'["server"] \in {"receive", "ended"}
      BY <1>1, <1>3, <2>6, ServerAction DEF ServerStop, ServerEnlarged, Move, Write, Goto,
         PCs
    <3>2. pc["caller"] = "receive"
      BY <2>1, <2>6, <3>1 DEF Answered
    <3>3. Asks
      BY <1>1, <2>1, <2>2, <3>2, InCallUp DEF Flows, Calls
    <3>. QED
      BY <2>6, <3>3 DEF Asks, Arrived, Rests
  <2>. QED
    BY <1>1, <1>3, <2>3, <2>4, <2>5, <2>6, ServerLeaves DEF ServerPCs, Unenlarged
<1>4. CASE \/ HostStep \/ PluginStep \/ ControlStep
           \/ \E p \in Processes : DeleteBegin(p) \/ DeleteStep(p) \/ Crash(p)
  <2>1. InCall'
    BY DEF Answered
  <2>2. pc'["caller"] = pc["caller"]
    BY <1>1, <1>4, <2>1, OthersLeave DEF InCall, CallPCs
  <2>3. InCall
    BY <2>1, <2>2 DEF InCall
  <2>4. pc["plugin"] \notin PluginPCs
    BY <2>3, InCallUp
  <2>5. pc'["server"] \in {pc["server"], "dead"}
    <3>1. ~PluginCreateThread
      BY <2>4 DEF PluginCreateThread, PluginPCs
    <3>. QED
      BY <1>1, <1>4, <3>1, OthersLeave
  <2>6. pipe["host"] = <<>> => pipe'["host"] = <<>>
    BY <1>1, <1>4, <2>4, OthersLeave, ReadNothing
  <2>. QED
    BY <2>2, <2>3, <2>5, <2>6 DEF Answered
<1>5. CASE UNCHANGED vars
  BY <1>5 DEF vars, Answered, InCall
<1>. QED
  BY <1>2, <1>3, <1>4, <1>5 DEF Next

\* A step that leaves the audio layer alone, or only lets the callback compute.
LEMMA PlacedBelow ==
  ASSUME ~Reorders, Flowing, Flowing', Unenlarged, Placed, [Next]_vars,
         UNCHANGED <<job, area, outputs>>, ~(ServerCallback /\ pc'["server"] = "answer")
  PROVE  Placed'
<1>1. /\ Copied(area.inputs)' <=> Copied(area.inputs)
      /\ Copied(area.outputs)' <=> Copied(area.outputs)
      /\ Filled' <=> Filled
      /\ EveryFrameProcessed' <=> EveryFrameProcessed
  BY DEF Copied, Filled, EveryFrameProcessed
<1>2. TypeOK /\ pc \in PCs /\ buf \in Buffers
  BY DEF Flowing, Orderly, TypeOK
<1>3. ~ServerCallback
  <2>. SUFFICES ASSUME ServerCallback PROVE FALSE
    OBVIOUS
  <2>1. reply' = 0 /\ buf.returndatasize_max \in Nat
    BY <1>2, AudioAssumption DEF ServerCallback, AudioAssumption, Buffers
  <2>2. pc'["server"] = "answer"
    BY <1>2, <2>1 DEF ServerCallback, Goto, PCs
  <2>. QED
    BY <2>2
<1>4. Answered' => Answered
  BY <1>3, AnsweredBefore
<1>. QED
  BY <1>1, <1>4 DEF Placed

\* Copying out a chunk puts its frames behind those of the chunks before it.
LEMMA PlacedCopyOut ==
  ASSUME Ordered, Placed, JobCopyOut
  PROVE  Placed'
<1>1. /\ job.left \in Nat /\ job.place \in Nat /\ job.at = "copy_out"
      /\ job' = [left  |-> job.left - Chunk(job.left),
                 place |-> job.place + Chunk(job.left),
                 at    |-> IF job.left > Chunk(job.left) THEN "copy" ELSE "true"]
      /\ outputs' = [f \in DOMAIN outputs |->
                       IF f - job.place \in 0..Chunk(job.left) - 1
                       THEN area.outputs[f - job.place] ELSE outputs[f]]
      /\ pc' = pc /\ area' = area
  BY DEF Ordered, AudioTypes, Jobs, JobCopyOut, vars
<1>. DEFINE n == Chunk(job.left)
<1>2. n \in Nat /\ n <= job.left /\ (job.left <= n => n = job.left)
  BY <1>1, ChunkFits
<1>3. Filled /\ Copied(area.outputs)
  BY <1>1 DEF Placed
<1>4. DOMAIN outputs = 0..job.place + job.left - 1 /\ DOMAIN outputs' = DOMAIN outputs
  BY <1>1, <1>3 DEF Filled
<1>. HIDE DEF n
<1>5. \A f \in 0..job.place + n - 1 : outputs'[f] = f
  <2>. SUFFICES ASSUME NEW f \in 0..job.place + n - 1 PROVE outputs'[f] = f
    OBVIOUS
  <2>1. f \in DOMAIN outputs
    BY <1>1, <1>2, <1>4
  <2>2. CASE f < job.place
    <3>1. f \in 0..job.place - 1 /\ ~(f - job.place \in 0..n - 1)
      BY <1>1, <1>2, <2>2
    <3>2. outputs'[f] = outputs[f]
      BY <1>1, <2>1, <3>1 DEF n
    <3>. QED
      BY <1>3, <3>1, <3>2 DEF Filled
  <2>3. CASE job.place <= f
    <3>1. f - job.place \in 0..n - 1
      BY <1>1, <1>2, <2>3
    <3>2. outputs'[f] = area.outputs[f - job.place]
      BY <1>1, <2>1, <3>1 DEF n
    <3>3. area.outputs[f - job.place] = job.place + (f - job.place)
      BY <1>3, <3>1 DEF Copied, n
    <3>. QED
      BY <1>1, <3>2, <3>3
  <2>. QED
    BY <1>1, <1>2, <2>2, <2>3
<1>6. /\ job'.left = job.left - n /\ job'.place = job.place + n
      /\ job'.at = IF job.left > n THEN "copy" ELSE "true"
  BY <1>1 DEF n
<1>7. Filled'
  <2>1. job'.place + job'.left - 1 = job.place + job.left - 1
    BY <1>1, <1>2, <1>6
  <2>2. DOMAIN outputs' = 0..job'.place + job'.left - 1
    BY <1>4, <2>1
  <2>3. \A f \in 0..job'.place - 1 : outputs'[f] = f
    BY <1>1, <1>2, <1>5, <1>6
  <2>. QED
    BY <2>2, <2>3 DEF Filled
<1>8. EveryFrameProcessed'
  <2>. SUFFICES ASSUME job'.at = "true", NEW f \in DOMAIN outputs' PROVE outputs'[f] = f
    BY DEF EveryFrameProcessed
  <2>1. n = job.left
    BY <1>1, <1>2, <1>6
  <2>. QED
    BY <1>4, <1>5, <2>1
<1>9. job'.at \in {"copy", "true"}
  BY <1>6
<1>. QED
  BY <1>7, <1>8, <1>9 DEF Placed

\* Every step keeps the frames in their places.
LEMMA PlacedStep ==
  ASSUME ~Reorders, Ordered, Ordered', Flowing, Flowing', Unenlarged, Quiet, Placed,
         [AudioNext]_audioVars
  PROVE  Placed'
<1>1. /\ TypeOK /\ pc \in PCs /\ job \in Jobs /\ area \in Areas /\ PortsInOrder
      /\ [Next]_vars /\ Orderly
  BY AudioIsNext DEF Ordered, AudioTypes, Flowing, TypeOK
<1>2. job.left \in Nat /\ job.place \in Nat
  BY <1>1 DEF Jobs
<1>3. CASE UNCHANGED vars /\ UNCHANGED <<job, area, outputs>>
  <2>1. ~(ServerCallback /\ pc'["server"] = "answer")
    BY <1>3 DEF ServerCallback, Goto, vars
  <2>. QED
    BY <1>1, <1>3, <2>1, PlacedBelow
<1>4. CASE JobBegin
  <2>1. PICK n \in Frames : /\ job' = [at |-> "copy", left |-> n, place |-> 0]
                            /\ outputs' = [f \in 0..n - 1 |-> Silence]
    BY <1>4 DEF JobBegin
  <2>2. n \in Nat /\ job'.at = "copy" /\ job'.left = n /\ job'.place = 0
    BY <2>1, AudioAssumption DEF AudioAssumption
  <2>3. DOMAIN outputs' = 0..0 + n - 1
    BY <2>1, <2>2
  <2>4. Filled'
    BY <2>2, <2>3 DEF Filled
  <2>. QED
    BY <2>2, <2>4 DEF Placed, EveryFrameProcessed
<1>5. CASE JobCopyIn
  <2>1. /\ job' = [job EXCEPT !.at = "call"] /\ job.at = "copy"
        /\ area' = [area EXCEPT !.inputs =
                      [i \in DOMAIN area.inputs |->
                         IF i < Chunk(job.left) THEN job.place + i ELSE area.inputs[i]]]
        /\ outputs' = outputs
    BY <1>5 DEF JobCopyIn
  <2>2. job'.at = "call" /\ job'.left = job.left /\ job'.place = job.place
    BY <1>1, <2>1 DEF Jobs
  <2>3. Filled'
    BY <2>1, <2>2 DEF Placed, Filled
  <2>4. Copied(area.inputs)'
    <3>1. DOMAIN area.inputs = 0..BUFFERSIZE - 1 /\ BUFFERSIZE \in Nat
      BY <1>1, AudioAssumption DEF AudioAssumption, Areas, Buffer
    <3>2. Chunk(job.left) \in Nat /\ Chunk(job.left) <= BUFFERSIZE
      BY <1>2, ChunkFits
    <3>3. area'.inputs = [i \in DOMAIN area.inputs |->
                            IF i < Chunk(job.left) THEN job.place + i ELSE area.inputs[i]]
      BY <1>1, <2>1 DEF Areas
    <3>4. \A i \in 0..Chunk(job.left) - 1 : area'.inputs[i] = job.place + i
      BY <3>1, <3>2, <3>3
    <3>. QED
      BY <2>2, <3>4 DEF Copied
  <2>. QED
    BY <2>2, <2>3, <2>4 DEF Placed, EveryFrameProcessed
<1>6. CASE JobCall
  <2>1. /\ job' = [job EXCEPT !.at = "calling"] /\ job.at = "call"
        /\ area' = area /\ outputs' = outputs
    BY <1>6 DEF JobCall
  <2>2. job'.at = "calling" /\ job'.left = job.left /\ job'.place = job.place
    BY <1>1, <2>1 DEF Jobs
  <2>3. pc'["caller"] = "check"
    BY <1>1, <1>6 DEF JobCall, CallEnter, CallEnterReordered, Goto, PCs
  <2>4. ~Answered'
    BY <2>3 DEF Answered, InCall, CallPCs
  <2>5. Filled' /\ Copied(area.inputs)'
    BY <2>1, <2>2 DEF Placed, Filled, Copied
  <2>. QED
    BY <2>2, <2>4, <2>5 DEF Placed, EveryFrameProcessed
<1>7. CASE JobCopyOut
  BY <1>7, PlacedCopyOut
<1>8. CASE JobCalling
  <2>1. /\ CallStep /\ area' = area /\ outputs' = outputs
        /\ pc["caller"] \notin {"idle", "dead"}
    BY <1>1, <1>8 DEF JobCalling, CallStep, CallAnnounce, CallCheck, CallRefuse, CallGrow,
       CallGrowSend, CallGrowAnswer, CallHeader, CallSend, CallReceive, CallEnlarge,
       CallGoOn, CallReceiveAgain, CallAccept, CallReturn, CallRead, Move, Store, Write,
       ReadInt, Goto
  <2>2. job.at = "calling"
    BY <1>1, <2>1 DEF PortsInOrder
  <2>3. CASE job' = job
    <3>1. ~(ServerCallback /\ pc'["server"] = "answer")
      <4>1. pc'["server"] = pc["server"]
        BY <1>1, <2>1, CallFrame DEF Threads
      <4>. QED
        BY <4>1 DEF ServerCallback, Goto
    <3>. QED
      BY <1>1, <2>1, <2>3, <3>1, PlacedBelow
  <2>4. CASE pc["caller"] = "return" /\ job' = [job EXCEPT !.at = "copy_out"]
    <3>1. job'.at = "copy_out" /\ job'.left = job.left /\ job'.place = job.place
      BY <1>1, <2>4 DEF Jobs
    <3>2. Answered
      BY <2>4 DEF Answered, InCall, CallPCs
    <3>3. Filled' /\ Copied(area.inputs)' /\ Copied(area.outputs)'
      BY <2>1, <2>2, <3>1, <3>2 DEF Placed, Filled, Copied
    <3>. QED
      BY <3>1, <3>3 DEF Placed, EveryFrameProcessed
  <2>5. CASE job' = [job EXCEPT !.at = "false"]
    <3>1. job'.at = "false"
      BY <1>1, <2>5 DEF Jobs
    <3>. QED
      BY <3>1 DEF Placed, EveryFrameProcessed
  <2>. QED
    BY <1>8, <2>3, <2>4, <2>5 DEF JobCalling
<1>9. CASE AudioServerStep
  <2>1. ServerStep /\ UNCHANGED <<job, outputs>>
    BY <1>9 DEF AudioServerStep
  <2>2. CASE ~(ServerCallback /\ pc'["server"] = "answer")
    <3>1. area' = area
      <4>1. ~(pc["server"] = "header" /\ pc'["server"] = "answer")
        <5>. SUFFICES ASSUME pc["server"] = "header", pc'["server"] = "answer"
                      PROVE  ServerCallback
          BY <2>2
        <5>. QED
          BY <1>1, <2>1, ServerAction DEF ServerEnd, ServerEnlarge, ServerMismatch, Move,
             Write, Goto, PCs
      <4>. QED
        BY <1>9, <4>1 DEF AudioServerStep
    <3>. QED
      BY <1>1, <2>1, <2>2, <3>1, PlacedBelow
  <2>3. CASE ServerCallback /\ pc'["server"] = "answer"
    <3>1. pc["server"] = "header" /\ pah.h2p_datasize > 0
      BY <2>3 DEF ServerCallback, Goto
    <3>2. job.at \notin {"copy", "call", "copy_out"}
      BY <3>1 DEF Quiet, Calm
    <3>3. area' = [area EXCEPT !.outputs =
                     [i \in DOMAIN area.outputs |->
                        IF i < Chunk(job.left) THEN area.inputs[i] ELSE area.outputs[i]]]
      BY <1>9, <2>3, <3>1 DEF AudioServerStep
    <3>4. /\ area'.inputs = area.inputs
          /\ area'.outputs = [i \in DOMAIN area.outputs |->
                               IF i < Chunk(job.left) THEN area.inputs[i]
                               ELSE area.outputs[i]]
      BY <1>1, <3>3 DEF Areas
    <3>5. Filled' <=> Filled
      BY <2>1 DEF Filled
    <3>6. Copied(area.inputs)' <=> Copied(area.inputs)
      BY <2>1, <3>4 DEF Copied
    <3>7. Copied(area.inputs) => Copied(area.outputs)'
      <4>1. DOMAIN area.outputs = 0..BUFFERSIZE - 1 /\ BUFFERSIZE \in Nat
        BY <1>1, AudioAssumption DEF AudioAssumption, Areas, Buffer
      <4>2. Chunk(job.left) \in Nat /\ Chunk(job.left) <= BUFFERSIZE
        BY <1>2, ChunkFits
      <4>3. \A i \in 0..Chunk(job.left) - 1 : area'.outputs[i] = area.inputs[i]
        BY <3>4, <4>1, <4>2
      <4>. QED
        BY <2>1, <4>3 DEF Copied
    <3>. QED
      BY <2>1, <3>2, <3>5, <3>6, <3>7 DEF Placed, EveryFrameProcessed
  <2>. QED
    BY <2>2, <2>3
<1>10. CASE LowerStep \/ \E p \in Processes : AudioDeleteBegin(p)
  <2>1. UNCHANGED <<job, area, outputs>>
    BY <1>10 DEF LowerStep, AudioDeleteBegin, audio
  <2>2. \/ HostStep \/ PluginStep \/ ControlStep
        \/ \E p \in Processes : DeleteBegin(p) \/ DeleteStep(p) \/ Crash(p)
    BY <1>10 DEF LowerStep, AudioDeleteBegin
  <2>3. pc'["server"] = "answer" => pc["server"] # "header"
    BY <1>1, <2>2, OthersLeave
  <2>. QED
    BY <1>1, <2>1, <2>3, PlacedBelow DEF ServerCallback, Goto
<1>11. CASE AudioPortStep \/ UNCHANGED audioVars
  BY <1>3, <1>11 DEF AudioPortStep, HostListen, HostCannotListen, HostAccept,
     HostAcceptFails, HostReceivePorts, HostReceiveFails, PluginConnect, PluginTimesOut,
     PluginSendPorts, PortStep, audioVars, audio
<1>. QED
  BY <1>4, <1>5, <1>6, <1>7, <1>8, <1>9, <1>10, <1>11 DEF AudioNext, JobStep

(***************************************************************************)
(* The invariant of the audio layer: the order of the ports always, and    *)
(* unless the plugin gave up telling them, when no audio call ever begins, *)
(* the invariant of the calls below and what an audio call knows.          *)
(***************************************************************************)
Sound == Flowing /\ Unenlarged /\ Quiet /\ Placed

AudioInv == Ordered /\ (ports["plugin"] = "gave_up" \/ Sound)

\* It holds at first.
LEMMA InitSound == AudioInit => Sound
<1>. SUFFICES ASSUME AudioInit PROVE Sound
  OBVIOUS
<1>1. Flowing
  BY InitFlowing DEF AudioInit
<1>2. job.at = "idle" /\ Unenlarged
  BY DEF AudioInit, Init, Unenlarged
<1>3. Quiet /\ Placed
  BY <1>2 DEF Quiet, Placed, EveryFrameProcessed
<1>. QED
  BY <1>1, <1>2, <1>3 DEF Sound

\* Every step keeps it.
LEMMA SoundStep ==
  ASSUME ~GivesUp, ~Reorders
  PROVE  Ordered /\ Ordered' /\ (ports["plugin"] = "gave_up" \/ Sound)
           /\ [AudioNext]_audioVars /\ DeletesLocked'
           => (ports["plugin"] = "gave_up" \/ Sound)'
<1>. SUFFICES ASSUME Ordered, Ordered', ports["plugin"] = "gave_up" \/ Sound,
                     [AudioNext]_audioVars, DeletesLocked',
                     ports'["plugin"] # "gave_up"
              PROVE  Sound'
  OBVIOUS
<1>1. ports["plugin"] # "gave_up"
  <2>1. ports \in Ports
    BY DEF Ordered, AudioTypes
  <2>2. ASSUME ports["plugin"] = "gave_up" PROVE ports'["plugin"] = "gave_up"
    BY <2>1, <2>2 DEF AudioNext, AudioPortStep, HostListen, HostCannotListen, HostAccept,
       HostAcceptFails, HostReceivePorts, HostReceiveFails, PluginConnect, PluginTimesOut,
       PluginSendPorts, PortStep, JobBegin, JobStep, JobCopyIn, JobCall, JobCopyOut,
       JobCalling, AudioServerStep, LowerStep, AudioDeleteBegin, audio, audioVars, Ports
  <2>. QED
    BY <2>2
<1>2. Flowing /\ Unenlarged /\ Quiet /\ Placed /\ [Next]_vars /\ InTime /\ Orderly
  BY <1>1, AudioInTime, AudioIsNext DEF Sound, Flowing
<1>3. Flowing'
  BY <1>2, FlowingStep
<1>4. Unenlarged'
  BY <1>2, UnenlargedStep
<1>5. Quiet'
  BY <1>2, <1>3, QuietStep
<1>6. Placed'
  BY <1>2, <1>3, PlacedStep
<1>. QED
  BY <1>3, <1>4, <1>5, <1>6 DEF Sound

\* So it holds for ever, as long as every delete gets the lock file.
LEMMA AlwaysAudioInv ==
  ASSUME ~GivesUp, ~Reorders
  PROVE  AudioSpec /\ []DeletesLocked => []AudioInv
<1>. DEFINE S == ports["plugin"] = "gave_up" \/ Sound
<1>1. AudioInit => S
  BY InitSound
<1>2. Ordered /\ Ordered' /\ S /\ [AudioNext]_audioVars /\ DeletesLocked' => S'
  BY SoundStep
<1>3. Ordered /\ S => AudioInv
  BY DEF AudioInv
<1>. HIDE DEF S
<1>. QED
  BY <1>1, <1>2, <1>3, AlwaysOrdered, PTL DEF AudioSpec

\* An audio call for which true is returned has processed every frame, each from the
\* input frame of the same number, for every number of frames and every size of the
\* shared buffers.  It needs a callback that ends within the 50000 us a delete waits,
\* stores that are seen in order and deletes that get the lock file; who begins a
\* delete, who dies and who fails to tell the ports does not matter.
THEOREM AlwaysEveryFrameProcessed ==
  ASSUME ~GivesUp, ~Reorders
  PROVE  AudioSpec /\ []DeletesLocked => []EveryFrameProcessed
<1>1. AudioInv => EveryFrameProcessed
  <2>1. Ordered /\ ports["plugin"] = "gave_up" => EveryFrameProcessed
    BY DEF Ordered, PortsInOrder, EveryFrameProcessed
  <2>. QED
    BY <2>1 DEF AudioInv, Sound, Placed
<1>. QED
  BY <1>1, AlwaysAudioInv, PTL

\* Under the same conditions the host copies to and from the shared buffers only
\* while no callback uses them.
THEOREM AlwaysBuffersNotShared ==
  ASSUME ~GivesUp, ~Reorders
  PROVE  AudioSpec /\ []DeletesLocked => []BuffersNotShared
<1>1. AudioInv => BuffersNotShared
  <2>. SUFFICES ASSUME AudioInv, job.at \in {"copy", "copy_out"}, pc["server"] = "header",
                       input[1].kind = "data"
                PROVE  FALSE
    BY DEF BuffersNotShared
  <2>1. Sound
    BY DEF AudioInv, Ordered, PortsInOrder
  <2>2. pah.h2p_datasize \in {0, -1} /\ Matches(input)
    BY <2>1 DEF Sound, Quiet, Calm, Flowing, Flows, Made, Serves
  <2>3. input = Word("stop")
    BY <2>2 DEF Matches
  <2>. QED
    BY <2>3, WordFacts
<1>. QED
  BY <1>1, AlwaysAudioInv, PTL
=============================================================================
