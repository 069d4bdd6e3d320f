--------------------------- MODULE AudioExchange ---------------------------
(***************************************************************************)
(* The audio layer over an exchange: aipc/src/audioplugin.c in the plugin, *)
(* aipc/src/audioplugincaller.c in the host and the one-shot socket of     *)
(* aipc/src/simpleio.c by which the plugin tells the host how many ports   *)
(* it has.  A user only gets an audioplugin or an audioplugincaller after  *)
(* that, so this layer decides when calls and deletes can begin; an audio  *)
(* call cuts its frames into chunks of BUFFERSIZE and makes one call of    *)
(* the exchange for each.  Messages are one int and the callback always    *)
(* answers NULL: Sizes is {1} and ReplySizes is {0}.                       *)
(*                                                                         *)
(* The frames of an audio call are numbered, and every port is treated     *)
(* alike, so one input and one output stand for all of them.               *)
(***************************************************************************)
EXTENDS Exchange

CONSTANTS
  BUFFERSIZE,   \* frames the shared memory holds for each port
  Frames,       \* values num_frames may have
  PortsFail     \* TRUE: the host cannot bind the socket, accept on it or get all
                \* of the ports, or the plugin's wait for it ends (a timeout
                \* other than -1)

ASSUME AudioAssumption ==
  /\ BUFFERSIZE \in Nat \ {0} /\ Frames \subseteq Nat
  /\ PortsFail \in BOOLEAN
  /\ Sizes = {1} /\ ReplySizes = {0}

VARIABLES
  ports,        \* how far each side is with the socket for the ports
  job,          \* the audio call being made
  area,         \* the shared inputs and outputs: frame numbers
  outputs       \* the buffer the audio call's user gets back

audio == <<ports, job, area, outputs>>

Silence == -1    \* what a buffer holds before anything was written to it

AudioInit ==
  /\ Init
  /\ ports = [host |-> "new", plugin |-> "new"]
  /\ job = [at |-> "idle", left |-> 0, place |-> 0]
  /\ area = [inputs  |-> [i \in 0..BUFFERSIZE - 1 |-> Silence],
             outputs |-> [i \in 0..BUFFERSIZE - 1 |-> Silence]]
  /\ outputs = <<>>

-----------------------------------------------------------------------------
(***************************************************************************)
(* Telling the ports.  The host listens and accepts without a timeout; the *)
(* plugin tries to connect until its timeout ends, and returns its         *)
(* audioplugin to the user whether it could send or not.                   *)
(***************************************************************************)
PortStep(p, from, to) ==
  /\ ports[p] = from /\ ports' = [ports EXCEPT ![p] = to]
  /\ UNCHANGED <<vars, job, area, outputs>>

HostListen == pc["host"] = "up" /\ PortStep("host", "new", "accept")

HostCannotListen == PortsFail /\ pc["host"] = "up" /\ PortStep("host", "new", "failed")

\* Mutant: the plugin does not wait for the host's socket to exist.
PluginConnectUnheard ==
  pc["plugin"] = "up" /\ PortStep("plugin", "new", "connected")

\* A host that could not accept leaves its socket open, and is still connected to.
PluginConnect ==
  /\ pc["plugin"] = "up" /\ ports["host"] \in {"accept", "refused"} /\ pc["host"] # "dead"
  /\ PortStep("plugin", "new", "connected")

PluginTimesOut ==
  PortsFail /\ pc["plugin"] = "up" /\ PortStep("plugin", "new", "gave_up")

\* Mutant: a connection is lost when the plugin has already sent and closed it.
HostAcceptWhileOpen ==
  /\ pc["host"] = "up" /\ ports["plugin"] = "connected"
  /\ PortStep("host", "accept", "receive")

HostAccept ==
  /\ pc["host"] = "up" /\ ports["plugin"] \in {"connected", "up"}
  /\ PortStep("host", "accept", "receive")

HostAcceptFails ==
  PortsFail /\ pc["host"] = "up" /\ PortStep("host", "accept", "refused")

PluginSendPorts == pc["plugin"] = "up" /\ PortStep("plugin", "connected", "up")

HostReceivePorts ==
  pc["host"] = "up" /\ ports["plugin"] = "up" /\ PortStep("host", "receive", "up")

\* Less than the ports arrives: the receive fails, the plugin's send has failed,
\* which the plugin does not look at, or the plugin died before it.
HostReceiveFails ==
  /\ PortsFail \/ (ports["plugin"] = "connected" /\ pc["plugin"] = "dead")
  /\ pc["host"] = "up" /\ PortStep("host", "receive", "failed")

-----------------------------------------------------------------------------
(***************************************************************************)
(* aipc_audioplugincaller_call_audioplugin.  A call of zero frames still   *)
(* makes one call of the exchange (do ... while).                          *)
(***************************************************************************)
Chunk(frames) == Least(BUFFERSIZE, frames)

\* Only started when MaxCalls leaves room for all of its chunks.
JobBegin ==
  /\ ports["host"] = "up" /\ usable
  /\ job.at \in {"idle", "true", "false"}
  /\ \E n \in Frames :
       /\ n <= (MaxCalls - calls) * BUFFERSIZE /\ calls < MaxCalls
       /\ job' = [at |-> "copy", left |-> n, place |-> 0]
       /\ outputs' = [f \in 0..n - 1 |-> Silence]
  /\ UNCHANGED <<vars, ports, area>>

JobCopyIn ==
  /\ job.at = "copy"
  /\ job' = [job EXCEPT !.at = "call"]
  /\ area' = [area EXCEPT !.inputs =
       [i \in DOMAIN @ |-> IF i < Chunk(job.left) THEN job.place + i ELSE @[i]]]
  /\ UNCHANGED <<vars, ports, outputs>>

JobCall ==
  /\ job.at = "call"
  /\ CallEnter \/ CallEnterReordered
  /\ job' = [job EXCEPT !.at = "calling"]
  /\ UNCHANGED <<ports, area, outputs>>

\* Mutant: the outputs are taken as soon as the chunk was sent.
JobCallingUnanswered ==
  /\ CallStep
  /\ job' = IF pc'["caller"] = "receive" THEN [job EXCEPT !.at = "copy_out"] ELSE job
  /\ UNCHANGED <<ports, area, outputs>>

\* The rest of aipc_plugincaller_call_plugin; NULL makes the audio call false.
JobCalling ==
  /\ CallStep
  /\ job' = IF pc'["caller"] # "idle" THEN job
            ELSE [job EXCEPT !.at = IF pc["caller"] = "return" THEN "copy_out" ELSE "false"]
  /\ UNCHANGED <<ports, area, outputs>>

\* Mutant: process_place is not advanced.
JobCopyOutInPlace ==
  /\ job.at = "copy_out"
  /\ outputs' = [f \in DOMAIN outputs |->
       IF f - job.place \in 0..Chunk(job.left) - 1
       THEN area.outputs[f - job.place] ELSE outputs[f]]
  /\ job' = [left  |-> job.left - Chunk(job.left),
             place |-> job.place,
             at    |-> IF job.left > Chunk(job.left) THEN "copy" ELSE "true"]
  /\ UNCHANGED <<vars, ports, area>>

\* Mutant: the loop also goes on when no frame is left.
JobCopyOutOnceMore ==
  /\ job.at = "copy_out"
  /\ UNCHANGED outputs
  /\ job' = [left  |-> job.left - Chunk(job.left),
             place |-> job.place + Chunk(job.left),
             at    |-> "copy"]
  /\ UNCHANGED <<vars, ports, area>>

JobCopyOut ==
  /\ job.at = "copy_out"
  /\ outputs' = [f \in DOMAIN outputs |->
       IF f - job.place \in 0..Chunk(job.left) - 1
       THEN area.outputs[f - job.place] ELSE outputs[f]]
  /\ job' = [left  |-> job.left - Chunk(job.left),
             place |-> job.place + Chunk(job.left),
             at    |-> IF job.left > Chunk(job.left) THEN "copy" ELSE "true"]
  /\ UNCHANGED <<vars, ports, area>>

\* callFromHost: the message is the number of frames; the user's process
\* function turns them into as many output frames, here with the same numbers.
AudioServerStep ==
  /\ ServerStep
  /\ area' = IF pc["server"] = "header" /\ pc'["server"] = "answer"
             THEN [area EXCEPT !.outputs =
                     [i \in DOMAIN @ |->
                        IF i < Chunk(job.left) THEN area.inputs[i] ELSE @[i]]]
             ELSE area
  /\ UNCHANGED <<ports, job, outputs>>

-----------------------------------------------------------------------------
\* aipc_audioplugin_delete and aipc_audioplugincaller_delete need what the two
\* new functions return; a host that did not get the ports deletes itself.
AudioDeleteBegin(p) ==
  /\ ports[p] \in {"up", "gave_up", "failed", "refused"}
  /\ DeleteBegin(p)
  /\ UNCHANGED audio

AudioPortStep ==
  \/ HostListen \/ HostCannotListen \/ HostAccept \/ HostAcceptFails
  \/ HostReceivePorts \/ HostReceiveFails
  \/ PluginConnect \/ PluginTimesOut \/ PluginSendPorts

JobStep == JobCopyIn \/ JobCall \/ JobCopyOut \/ JobCalling

\* The steps of the exchange that the audio layer leaves alone.
LowerStep ==
  /\ \/ HostStep \/ PluginStep \/ ControlStep
     \/ \E p \in Processes : DeleteStep(p) \/ Crash(p)
  /\ UNCHANGED audio

AudioNext ==
  \/ AudioPortStep \/ JobBegin \/ JobStep \/ AudioServerStep \/ LowerStep
  \/ \E p \in Processes : AudioDeleteBegin(p)

audioVars == <<vars, audio>>

AudioSpec == AudioInit /\ [][AudioNext]_audioVars

(***************************************************************************)
(* Every thread that can run does.  Both new functions run to their end; a *)
(* host that did not get the ports deletes itself.  No wait has to time    *)
(* out.                                                                    *)
(***************************************************************************)
AudioFairness ==
  /\ WF_audioVars(HostStep /\ UNCHANGED audio)
  /\ WF_audioVars(PluginStep /\ UNCHANGED audio)
  /\ WF_audioVars(ControlStep /\ UNCHANGED audio)
  /\ \A p \in Processes : WF_audioVars(DeleteStep(p) /\ UNCHANGED audio)
  /\ WF_audioVars(HostListen \/ HostCannotListen \/ HostAccept \/ HostReceivePorts)
  /\ WF_audioVars(PluginConnect) /\ WF_audioVars(PluginSendPorts)
  /\ WF_audioVars(ports["host"] \in {"failed", "refused"} /\ AudioDeleteBegin("host"))
  /\ WF_audioVars(JobStep) /\ WF_audioVars(AudioServerStep)

AudioFairSpec == AudioSpec /\ AudioFairness

-----------------------------------------------------------------------------
(***************************************************************************)
(* Properties.                                                             *)
(***************************************************************************)

\* An audio call that returns true gives its user every frame, each computed
\* from the input frame of the same number, however the frames were cut into
\* chunks and whoever began a delete meanwhile (audioplugincaller.c:59-86).
EveryFrameProcessed ==
  job.at = "true" => \A f \in DOMAIN outputs : outputs[f] = f

\* The host never copies to or from the shared buffers while the plugin's
\* callback may be using them.
BuffersNotShared ==
  job.at \in {"copy", "copy_out"} =>
    ~(pc["server"] = "header" /\ input[1].kind = "data")

\* The exchange below is one whose plugin is never deleted before the host's
\* aipc_plugincaller_new has returned: the socket for the ports keeps them in
\* step, which the exchange on its own does not.  Only a plugin that gave up
\* telling its ports may be deleted that early (audioplugin.c:124-131).
Lower == INSTANCE Exchange WITH EarlyDelete <- FALSE
ImplementsOrderlyExchange ==
  Lower!Init /\ [][Lower!Next \/ ports["plugin"] = "gave_up"]_vars

\* aipc_audioplugincaller_new ends, with the ports or with a failure, unless the
\* plugin gave up telling them: the accept it waits in has no timeout
\* (audioplugincaller.c:122-135, simpleio.c:48).
HostNewEnds ==
  <>(ports["host"] \in {"up", "failed", "refused"} \/ ports["plugin"] = "gave_up")

\* An audio call ends, true or false, as long as the audioplugincaller it runs
\* on exists.
JobEnds == job.at = "copy" ~> job.at \in {"true", "false"} \/ pc["host"] = "freed"
=============================================================================
