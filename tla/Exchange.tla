------------------------------ MODULE Exchange ------------------------------
(***************************************************************************)
(* The exchange between one plugin process and one host process, which is  *)
(* what libaipc builds everything else on: aipc/src/plugin.c (the plugin), *)
(* aipc/src/plugincaller.c (the host) and the struct PluginAndHost of      *)
(* aipc/src/plugin.h that the two share.                                   *)
(*                                                                         *)
(* The module starts where both sides have opened the two pipes and the    *)
(* shared memory (aipc_pipe_new and aipc_sharedmem_new have returned) and  *)
(* covers the status handshake, the call protocol with its two buffer      *)
(* enlargements, and the shutdown, which either side may begin and both    *)
(* may begin at once.  Five threads run:                                   *)
(*                                                                         *)
(*   host      aipc_plugincaller_new, later aipc_plugincaller_delete       *)
(*   caller    aipc_plugincaller_call_plugin (Pd's audio thread)           *)
(*   control   EXCHANGE_control_thread, in the host process                *)
(*   plugin    aipc_plugin_new, later aipc_plugin_delete                   *)
(*   server    EXCHANGE_call_thread, in the plugin process                 *)
(*                                                                         *)
(* Sizes count units of sizeof(int), so an int on a pipe is one unit.      *)
(***************************************************************************)
EXTENDS Integers, Sequences

CONSTANTS
  Sizes,        \* sizes of the data a call may send, in units
  ReplySizes,   \* sizes a callback may return; 0 stands for returning NULL
  MaxCalls,     \* bound: calls made in one behaviour
  ThreadFails,  \* TRUE: pthread_create may fail
  Lockless,     \* which of the two processes may be unable to make the lock file
  GivesUp,      \* TRUE: a callback may outlast the 50000 us a delete waits
  Reorders,     \* TRUE: a store may pass a later load (x86 store buffers)
  EarlyDelete,  \* TRUE: the plugin may be deleted while the host still starts
  Crashes       \* which of the two processes may die at any point

ASSUME ExchangeAssumption ==
  /\ Sizes \subseteq Nat \ {0}
  /\ ReplySizes \subseteq Nat
  /\ MaxCalls \in Nat
  /\ {ThreadFails, GivesUp, Reorders, EarlyDelete} \subseteq BOOLEAN
  /\ Crashes \subseteq {"host", "plugin"} /\ Lockless \subseteq {"host", "plugin"}

VARIABLES
  pc,           \* where each thread is
  pah,          \* the shared struct PluginAndHost
  lock,         \* who holds the lock file shutdown.lock, or "free"
  pipe,         \* what is on its way to each of the three readers
  open,         \* the processes whose ends of the pipes are still open
  usable,       \* TRUE while the host's user holds the aipc_plugincaller
  buf,          \* the buffer sizes both sides keep in their struct Private
  request,      \* sizeof_data_to_send of the call being made
  calls,        \* how many calls were made
  input,        \* what the server thread's last receive returned
  reply,        \* returndatasize of the callback's last answer
  output        \* what the caller's last receive returned

data == <<request, calls, input, reply, output>>
vars == <<pc, pah, lock, pipe, open, usable, buf, data>>

Processes == {"host", "plugin"}
Threads   == {"host", "caller", "control", "plugin", "server"}
ProcessOf(t) == IF t \in {"plugin", "server"} THEN "plugin" ELSE "host"

(***************************************************************************)
(* The pipes are streams.  A message of n units is written at once and its *)
(* units keep the kind of the message and the number of its call; an int   *)
(* is one unit.  A write to a side that has closed fails.  A read takes    *)
(* what is there, up to the size of its buffer, blocks while there is      *)
(* nothing, and returns no bytes once the writer has closed.               *)
(***************************************************************************)
Message(kind, n, size) == [i \in 1..size |-> [kind |-> kind, call |-> n]]
Word(kind) == Message(kind, 0, 1)

Least(m, n) == IF m < n THEN m ELSE n
Got(to, n)  == SubSeq(pipe[to], 1, Least(n, Len(pipe[to])))
Left(to, n) == SubSeq(pipe[to], Least(n, Len(pipe[to])) + 1, Len(pipe[to]))

Readable(to) ==
  pipe[to] # <<>> \/ (IF to = "plugin" THEN "host" ELSE "plugin") \notin open

\* An int that no byte arrived for is an uninitialised variable.
IntKinds(to) == IF pipe[to] = <<>> THEN {"thread", "no_thread"} ELSE {pipe[to][1].kind}

(***************************************************************************)
(* The steps threads are made of: move on, store to the shared struct,     *)
(* write to a pipe, read an int.                                           *)
(***************************************************************************)
Goto(t, from, to) == pc[t] = from /\ pc' = [pc EXCEPT ![t] = to]

Move(t, from, to) ==
  Goto(t, from, to) /\ UNCHANGED <<pah, lock, pipe, open, usable, buf, data>>

Store(t, from, to, field, value) ==
  /\ Goto(t, from, to)
  /\ pah' = [pah EXCEPT ![field] = value]
  /\ UNCHANGED <<lock, pipe, open, usable, buf, data>>

Write(t, from, to, reader, message) ==
  /\ Goto(t, from, to)
  /\ pipe' = IF (IF reader = "plugin" THEN "plugin" ELSE "host") \in open
             THEN [pipe EXCEPT ![reader] = @ \o message] ELSE pipe
  /\ UNCHANGED <<pah, lock, open, usable, buf, data>>

ReadInt(t, from, to, reader) ==
  /\ Readable(reader)
  /\ Goto(t, from, to)
  /\ pipe' = [pipe EXCEPT ![reader] = Left(reader, 1)]
  /\ UNCHANGED <<pah, lock, open, usable, data>>

-----------------------------------------------------------------------------
(***************************************************************************)
(* Both sides have just got the pipes and the zero-filled shared memory.   *)
(***************************************************************************)
Init ==
  /\ pc = [host |-> "create", plugin |-> "init", caller |-> "idle",
           control |-> "none", server |-> "none"]
  /\ pah = [status |-> 0, is_calling |-> 0, okey_to_call |-> 0,
            h2p_datasize |-> 0, p2h_datasize |-> 0]
  /\ lock = "free" /\ open = Processes /\ usable = FALSE
  /\ pipe = [plugin |-> <<>>, host |-> <<>>, control |-> <<>>]
  /\ buf = [senddatasize_max |-> 1, receivedatasize |-> 1,       \* host
            plugin_receivedatasize |-> 1, returndatasize_max |-> 1]
  /\ request = 0 /\ calls = 0 /\ reply = 0
  /\ input = <<>> /\ output = <<>>

(***************************************************************************)
(* aipc_plugincaller_new: make the control thread, tell the plugin, wait   *)
(* for its confirmation, allow calls.                                      *)
(***************************************************************************)
HostCreateThread ==
  /\ pc["host"] = "create"
  /\ pc' = [pc EXCEPT !["host"] = "tell", !["control"] = "receive"]
  /\ UNCHANGED <<pah, lock, pipe, open, usable, buf, data>>

HostCannotCreateThread ==
  ThreadFails /\ Write("host", "create", "del_forbid", "plugin", Word("no_thread"))

\* Mutant: the word to the plugin is forgotten.
HostTellSilently == Move("host", "tell", "confirmation")

HostTell == Write("host", "tell", "confirmation", "plugin", Word("thread"))

\* Mutant: what the plugin answered is not looked at.
HostConfirmationUnread ==
  ReadInt("host", "confirmation", "allow", "host") /\ UNCHANGED buf

HostConfirmation ==
  /\ \E result \in IntKinds("host") :
       ReadInt("host", "confirmation",
               IF result = "no_thread" THEN "del_forbid" ELSE "allow", "host")
  /\ UNCHANGED buf

HostAllow ==
  /\ Goto("host", "allow", "up")
  /\ pah' = [pah EXCEPT !.okey_to_call = 1]
  /\ usable' = TRUE
  /\ UNCHANGED <<lock, pipe, open, buf, data>>

(***************************************************************************)
(* aipc_plugin_new: initialise the shared struct, wait for the host's      *)
(* word, make the call thread, confirm.                                    *)
(***************************************************************************)
PluginInit ==
  /\ Goto("plugin", "init", "status")
  /\ pah' = [pah EXCEPT !.status = 0, !.is_calling = 0, !.okey_to_call = 0]
  /\ UNCHANGED <<lock, pipe, open, usable, buf, data>>

PluginStatus ==
  /\ \E result \in IntKinds("plugin") :
       ReadInt("plugin", "status",
               IF result = "no_thread" THEN "del_forbid" ELSE "create", "plugin")
  /\ UNCHANGED buf

PluginCreateThread ==
  /\ pc["plugin"] = "create"
  /\ pc' = [pc EXCEPT !["plugin"] = "tell", !["server"] = "receive"]
  /\ UNCHANGED <<pah, lock, pipe, open, usable, buf, data>>

PluginCannotCreateThread ==
  ThreadFails /\ Write("plugin", "create", "del_forbid", "host", Word("no_thread"))

PluginTell == Write("plugin", "tell", "up", "host", Word("thread"))

-----------------------------------------------------------------------------
(***************************************************************************)
(* aipc_plugincaller_call_plugin.  A call may begin once the host's        *)
(* aipc_plugincaller_new has returned and until its delete has freed the   *)
(* caller.  It announces itself in is_calling before it looks at           *)
(* okey_to_call; with store buffers the look can come first.               *)
(***************************************************************************)
CallWith(size) ==
  /\ usable /\ calls < MaxCalls
  /\ request' = size /\ calls' = calls + 1
  /\ UNCHANGED <<lock, pipe, open, usable, buf, input, reply, output>>

CallEnter ==
  /\ Goto("caller", "idle", "check")
  /\ pah' = [pah EXCEPT !.is_calling = 1]
  /\ \E size \in Sizes : CallWith(size)

CallEnterReordered ==
  /\ Reorders /\ pah.okey_to_call # 0
  /\ Goto("caller", "idle", "announce")
  /\ UNCHANGED pah
  /\ \E size \in Sizes : CallWith(size)

CallAnnounce == Store("caller", "announce", "fit", "is_calling", 1)

CallCheck ==
  Move("caller", "check", IF pah.okey_to_call = 0 THEN "refuse" ELSE "fit")

CallRefuse == Store("caller", "refuse", "idle", "is_calling", 0)

\* The plugin's buffer must grow first: the shared size is made negative.
CallGrow ==
  /\ request > buf.senddatasize_max
  /\ Store("caller", "fit", "grow_send", "h2p_datasize", -request)

CallGrowSend == Write("caller", "grow_send", "grow_answer", "plugin", Word("grow"))

\* Mutant: the plugin's answer is left on the pipe.
CallGrowAnswerUnread ==
  /\ Readable("host")
  /\ Goto("caller", "grow_answer", "fit")
  /\ buf' = [buf EXCEPT !.senddatasize_max = request]
  /\ UNCHANGED <<pah, lock, pipe, open, usable, data>>

CallGrowAnswer ==
  /\ ReadInt("caller", "grow_answer", "fit", "host")
  /\ buf' = [buf EXCEPT !.senddatasize_max = request]

CallHeader ==
  /\ request <= buf.senddatasize_max
  /\ Store("caller", "fit", "send", "h2p_datasize", request)

CallSend ==
  Write("caller", "send", "receive", "plugin", Message("data", calls, request))

CallRead(from, to) ==
  /\ Readable("host")
  /\ Goto("caller", from, to)
  /\ output' = Got("host", buf.receivedatasize)
  /\ pipe' = [pipe EXCEPT !["host"] = Left("host", buf.receivedatasize)]
  /\ UNCHANGED <<pah, lock, open, usable, buf, request, calls, input, reply>>

\* Mutant: no bytes are not understood as the plugin's death.
CallReceiveForever == pipe["host"] # <<>> /\ CallRead("receive", "size")

\* When the plugin has died the call returns NULL at once.
CallReceive == CallRead("receive", IF pipe["host"] = <<>> THEN "idle" ELSE "size")

\* The answer did not fit: enlarge the buffer, say so, receive it again.
CallEnlarge ==
  /\ pah.p2h_datasize < 0
  /\ Goto("caller", "size", "go_on")
  /\ buf' = [buf EXCEPT !.receivedatasize = -pah.p2h_datasize]
  /\ UNCHANGED <<pah, lock, pipe, open, usable, data>>

\* Mutant: the plugin is not told that the buffer was enlarged.
CallGoOnSilently == Move("caller", "go_on", "receive_again")

CallGoOn == Write("caller", "go_on", "receive_again", "plugin", Word("go_on"))

CallReceiveAgain == CallRead("receive_again", "return")

CallAccept == pah.p2h_datasize >= 0 /\ Move("caller", "size", "return")

\* The caller gets receivedata, and p2h_datasize as its size.
CallReturn == Store("caller", "return", "idle", "is_calling", 0)

-----------------------------------------------------------------------------
(***************************************************************************)
(* EXCHANGE_call_thread.  A message on the pipe only wakes the thread up:  *)
(* what it means is in h2p_datasize, read after the message.  0 and -1 ask *)
(* the thread to end, any other negative number to enlarge its buffer.     *)
(***************************************************************************)
\* Mutant: no bytes are not understood as the host's death.
ServerReceiveForever ==
  /\ pipe["plugin"] # <<>>
  /\ Goto("server", "receive", "header")
  /\ input' = Got("plugin", buf.plugin_receivedatasize)
  /\ pipe' = [pipe EXCEPT !["plugin"] = Left("plugin", buf.plugin_receivedatasize)]
  /\ UNCHANGED <<pah, lock, open, usable, buf, request, calls, reply, output>>

ServerReceive ==
  /\ Readable("plugin")
  /\ Goto("server", "receive", IF pipe["plugin"] = <<>> THEN "ended" ELSE "header")
  /\ input' = Got("plugin", buf.plugin_receivedatasize)
  /\ pipe' = [pipe EXCEPT !["plugin"] = Left("plugin", buf.plugin_receivedatasize)]
  /\ UNCHANGED <<pah, lock, open, usable, buf, request, calls, reply, output>>

ServerEnd == pah.h2p_datasize \in {0, -1} /\ Move("server", "header", "stop")

\* Mutant: the host's control thread is not told.
ServerStopSilently == Move("server", "stop", "ended")

\* The size is read again: -1 came from the host's delete, which waits for
\* its control thread; 0 came from that control thread.
ServerStop ==
  IF pah.h2p_datasize = -1
  THEN Write("server", "stop", "ended", "control", Word("stopped"))
  ELSE Move("server", "stop", "ended")

ServerEnlarge ==
  /\ pah.h2p_datasize < -1
  /\ Goto("server", "header", "enlarged")
  /\ buf' = [buf EXCEPT !.plugin_receivedatasize = -pah.h2p_datasize]
  /\ UNCHANGED <<pah, lock, pipe, open, usable, data>>

ServerEnlarged == Write("server", "enlarged", "receive", "host", Word("grown"))

ServerMismatch ==
  /\ pah.h2p_datasize > 0 /\ Len(input) # pah.h2p_datasize
  /\ Write("server", "header", "receive", "host", Word("mismatch"))

\* The callback runs on receivedata and chooses the size of its answer.
ServerCallback ==
  /\ pah.h2p_datasize > 0 /\ Len(input) = pah.h2p_datasize
  /\ reply' \in ReplySizes
  /\ Goto("server", "header",
          IF reply' > buf.returndatasize_max THEN "too_big" ELSE "answer")
  /\ UNCHANGED <<pah, lock, pipe, open, usable, buf, request, calls, input, output>>

\* The answer is bigger than the host's buffer: a negative size asks it to
\* enlarge the buffer and to send a word back.
ServerTooBig == Store("server", "too_big", "ask", "p2h_datasize", -reply)

ServerAsk == Write("server", "ask", "asked", "host", Word("enlarge"))

ServerAsked ==
  /\ ReadInt("server", "asked", "answer", "plugin")
  /\ buf' = [buf EXCEPT !.returndatasize_max = reply]

\* Mutant: the size of the answer is only stored when it was too big.
ServerAnswerUnsized == Move("server", "answer", "reply")

ServerAnswer == Store("server", "answer", "reply", "p2h_datasize", reply)

\* NULL is answered with p2h_datasize 0 and one dummy int.
ServerReply ==
  Write("server", "reply", "receive", "host",
        Message("answer", input[1].call, IF reply = 0 THEN 1 ELSE reply))

-----------------------------------------------------------------------------
(***************************************************************************)
(* EXCHANGE_control_thread: ends on 0; on -1, which a deleting plugin      *)
(* sends, it makes the plugin's call thread end and then ends too.         *)
(***************************************************************************)
ControlReceive ==
  /\ ReadInt("control", "receive",
             IF Got("control", 1) = Word("deleting") THEN "header" ELSE "ended",
             "control")
  /\ UNCHANGED buf

ControlHeader == Store("control", "header", "send", "h2p_datasize", 0)

ControlSend == Write("control", "send", "ended", "plugin", Word("stop"))

-----------------------------------------------------------------------------
(***************************************************************************)
(* aipc_plugincaller_delete and aipc_plugin_delete begin and end alike.    *)
(* They forbid calls, wait for the one being made, and take the lock file; *)
(* the first to find status 0 tells the other process to end and sets      *)
(* status; then each waits for its own thread and releases everything.     *)
(***************************************************************************)
HostReturned == pc["host"] \notin {"create", "tell", "confirmation", "allow"}

DeleteBegin(p) ==
  /\ p = "plugin" => EarlyDelete \/ HostReturned
  /\ Move(p, "up", "del_forbid")

\* Mutant: the delete waits without forbidding new calls.
DeleteForbidNot(p) == Move(p, "del_forbid", "del_wait")

\* Mutant: okey_to_call is counted down.
DeleteForbidCounted(p) ==
  Store(p, "del_forbid", "del_wait", "okey_to_call", pah.okey_to_call - 1)

DeleteForbid(p) == Store(p, "del_forbid", "del_wait", "okey_to_call", 0)

\* With store buffers the look at is_calling can come before that store.
DeleteLookReordered(p) ==
  /\ Reorders /\ pah.is_calling = 0
  /\ Move(p, "del_forbid", "del_forbid_late")

DeleteForbidLate(p) == Store(p, "del_forbid_late", "del_lock", "okey_to_call", 0)

\* Mutant: the call being made is not waited for.
DeleteWaitNot(p) == Move(p, "del_wait", "del_lock")

DeleteWait(p) == pah.is_calling = 0 /\ Move(p, "del_wait", "del_lock")

\* The wait ends after 50000 us.  It surely does so when nobody will ever clear
\* is_calling, because the caller died, or left a call whose plugin had died.
DeleteGiveUp(p) ==
  /\ pah.is_calling = 1
  /\ GivesUp \/ pc["caller"] \in {"idle", "dead"}
  /\ Move(p, "del_wait", "del_lock")

LockAs(p, from, to, holder) ==
  /\ Goto(p, from, to)
  /\ lock' = holder
  /\ UNCHANGED <<pah, pipe, open, usable, buf, data>>

DeleteLock(p) == lock = "free" /\ LockAs(p, "del_lock", "del_status", p)

\* A lock file that cannot be made, but for being there, is done without.
DeleteLockFails(p) == p \in Lockless /\ Move(p, "del_lock", "del_status")

\* Mutant: the other process is told although it has begun its own delete.
DeleteStatusUnread(p) ==
  Move(p, "del_status", IF p = "host" THEN "del_header" ELSE "del_send")

DeleteStatus(p) ==
  Move(p, "del_status",
       IF pah.status # 0 THEN "del_unlock"
       ELSE IF p = "host" THEN "del_header" ELSE "del_send")

HostDeleteHeader == Store("host", "del_header", "del_send", "h2p_datasize", -1)

HostDeleteSend ==
  Write("host", "del_send", IF "plugin" \in open THEN "del_mark" ELSE "del_unlock",
        "plugin", Word("stop"))

PluginDeleteSend ==
  Write("plugin", "del_send", IF "host" \in open THEN "del_mark" ELSE "del_unlock",
        "control", Word("deleting"))

DeleteMark(p) == Store(p, "del_mark", "del_unlock", "status", 1)

\* A delete that got no lock removes none (aipc_lock_delete of NULL).
DeleteUnlock(p) ==
  LockAs(p, "del_unlock", "del_join", IF lock = p THEN "free" ELSE lock)

\* The thread may never have been made (control_thread, call_thread == 0).
DeleteJoin(p) ==
  /\ pc[IF p = "host" THEN "control" ELSE "server"] \in {"none", "ended"}
  /\ Move(p, "del_join", "del_close")

Closing(p) ==
  /\ open' = open \ {p}
  /\ usable' = (p # "host" /\ usable)
  /\ UNCHANGED <<pah, lock, pipe, buf, data>>

\* Both pipes are closed; the shared memory is released and everything freed.
DeleteClose(p) == Goto(p, "del_close", "freed") /\ Closing(p)

(***************************************************************************)
(* A process dies: its sockets close, what it wrote to shared memory and   *)
(* its lock file stay.                                                     *)
(***************************************************************************)
Crash(p) ==
  /\ p \in Crashes \cap open
  /\ pc' = [t \in Threads |-> IF ProcessOf(t) = p THEN "dead" ELSE pc[t]]
  /\ Closing(p)

-----------------------------------------------------------------------------
HostStep ==
  \/ HostCreateThread \/ HostCannotCreateThread \/ HostTell \/ HostConfirmation
  \/ HostAllow \/ HostDeleteHeader \/ HostDeleteSend

PluginStep ==
  \/ PluginInit \/ PluginStatus \/ PluginCreateThread \/ PluginCannotCreateThread
  \/ PluginTell \/ PluginDeleteSend

DeleteStep(p) ==
  \/ DeleteForbid(p) \/ DeleteLookReordered(p) \/ DeleteForbidLate(p)
  \/ DeleteWait(p) \/ DeleteGiveUp(p) \/ DeleteLock(p) \/ DeleteLockFails(p)
  \/ DeleteStatus(p) \/ DeleteMark(p) \/ DeleteUnlock(p) \/ DeleteJoin(p)
  \/ DeleteClose(p)

CallStart == CallEnter \/ CallEnterReordered

CallStep ==
  \/ CallAnnounce \/ CallCheck \/ CallRefuse \/ CallGrow \/ CallGrowSend
  \/ CallGrowAnswer \/ CallHeader \/ CallSend \/ CallReceive \/ CallEnlarge
  \/ CallGoOn \/ CallReceiveAgain \/ CallAccept \/ CallReturn

ServerStep ==
  \/ ServerReceive \/ ServerEnd \/ ServerStop \/ ServerEnlarge \/ ServerEnlarged
  \/ ServerMismatch \/ ServerCallback \/ ServerTooBig \/ ServerAsk \/ ServerAsked
  \/ ServerAnswer \/ ServerReply

ControlStep == ControlReceive \/ ControlHeader \/ ControlSend

Next ==
  \/ HostStep \/ PluginStep \/ CallStart \/ CallStep \/ ServerStep \/ ControlStep
  \/ \E p \in Processes : DeleteBegin(p) \/ DeleteStep(p) \/ Crash(p)

Spec == Init /\ [][Next]_vars

(***************************************************************************)
(* Every thread that can run does, and a callback ends.  Nothing obliges a *)
(* user to call or to delete, and no process has to die.                   *)
(***************************************************************************)
Fairness ==
  /\ WF_vars(HostStep) /\ WF_vars(PluginStep) /\ WF_vars(CallStep)
  /\ WF_vars(ServerStep) /\ WF_vars(ControlStep)
  /\ \A p \in Processes : WF_vars(DeleteStep(p))

FairSpec == Spec /\ Fairness

-----------------------------------------------------------------------------
(***************************************************************************)
(* Properties.                                                             *)
(***************************************************************************)
HostPCs == {"create", "tell", "confirmation", "allow"}
PluginPCs == {"init", "status", "create", "tell"}
DeletePCs ==
  {"del_forbid", "del_forbid_late", "del_wait", "del_lock", "del_status",
   "del_header", "del_send", "del_mark", "del_unlock", "del_join", "del_close"}
CallPCs ==
  {"fit", "grow_send", "grow_answer", "send", "receive", "size", "go_on",
   "receive_again", "return"}
ServerPCs ==
  {"receive", "header", "stop", "enlarged", "too_big", "ask", "asked", "answer",
   "reply"}
MessageKinds ==
  {"no_thread", "thread", "grow", "data", "go_on", "stop", "grown", "enlarge",
   "answer", "mismatch", "stopped", "deleting"}
Units == [kind : MessageKinds, call : Nat]
PCs == [host    : HostPCs \cup {"up", "freed", "dead"} \cup DeletePCs,
        plugin  : PluginPCs \cup {"up", "freed", "dead"} \cup DeletePCs,
        caller  : CallPCs \cup {"idle", "announce", "check", "refuse", "dead"},
        server  : ServerPCs \cup {"none", "ended", "dead"},
        control : {"none", "receive", "header", "send", "ended", "dead"}]
Structs == [status : 0..1, is_calling : 0..1, okey_to_call : 0..1,
            h2p_datasize : Int, p2h_datasize : Int]
Pipes == [plugin : Seq(Units), host : Seq(Units), control : Seq(Units)]
Buffers == [senddatasize_max : Nat, receivedatasize : Nat,
            plugin_receivedatasize : Nat, returndatasize_max : Nat]

\* Every thread is at a step of its own function, and the shared struct, the
\* pipes and the buffer sizes hold values the code can put there.
TypeOK ==
  /\ pc \in PCs /\ pah \in Structs /\ pipe \in Pipes /\ buf \in Buffers
  /\ lock \in Processes \cup {"free"} /\ open \subseteq Processes /\ usable \in BOOLEAN
  /\ request \in Sizes \cup {0} /\ calls \in 0..MaxCalls
  /\ reply \in ReplySizes \cup {0} /\ input \in Seq(Units) /\ output \in Seq(Units)

InCall == pc["caller"] \in CallPCs
PastWait(p) == pc[p] \in
  {"del_lock", "del_status", "del_header", "del_send", "del_mark", "del_unlock",
   "del_join", "del_close", "freed"}

\* A delete that has seen is_calling 0 is never overtaken by a call: from the
\* lock file to the freeing of the buffers no call is past its look at
\* okey_to_call, on neither side (plugin.c:141-149, plugincaller.c:66-70).
CallExclusion == \A p \in Processes : PastWait(p) => ~InCall

\* h2p_datasize is written before a message and read after it, and any of three
\* threads may write it: what it says is still what the message was sent for
\* when the call thread acts on it (plugin.c:63-87).  Two words to stop, of deletes
\* that went on without the lock file and told each other, may be read as one.
MessageMatchesHeader ==
  pc["server"] = "header" =>
    \/ /\ pah.h2p_datasize > 0
       /\ input = Message("data", calls, pah.h2p_datasize)
    \/ pah.h2p_datasize < -1 /\ input = Word("grow")
    \/ /\ pah.h2p_datasize \in {0, -1}
       /\ input \in {Word("stop"), Word("stop") \o Word("stop")}

\* Every byte of an answer is read by the call it belongs to: none is left on
\* the pipe for the next call or for a delete (plugincaller.c:85-110).
NothingStray == usable /\ ~InCall => pipe["host"] = <<>>

\* The exchange is not marked as ended while calls are still allowed
\* (src/plugin.h:43-45).
EndedForbidsCalls == pah.status = 1 => pah.okey_to_call = 0

\* A delete holds the lock file while it looks at status and tells the other.
DeletesLocked ==
  \A p \in Processes :
    pc[p] \in {"del_status", "del_header", "del_send", "del_mark", "del_unlock"} =>
      lock = p

\* Of two deletes only one tells the other process: the control thread never
\* finds two words on its pipe (plugin.c:154-164, plugincaller.c:169-180), unless
\* a delete went on without the lock file because it could not make it.
OneTells == []DeletesLocked => [](Len(pipe["control"]) <= 1)

\* The two sides wait for each other's word: starting up ends on both, with an
\* exchange that is up or with one that was freed.
StartupEnds == \A p \in Processes : <>(pc[p] \in {"up", "freed", "dead"})

\* A call that began returns, even if it is refused or the plugin dies.
CallEnds == pc["caller"] = "check" ~> pc["caller"] \in {"idle", "dead"}

\* A delete ends, also when both sides begin one at the same time: it gets the
\* lock, and the thread it joins has been told to end.
DeletesEnd == \A p \in Processes : pc[p] = "del_forbid" ~> pc[p] = "freed"

\* The same when processes may die and a delete may overtake a call, as long as
\* none does.
CallEndsUnlessOvertaken == []CallExclusion => CallEnds

\* When the other process dies a delete still ends, unless that process held
\* the lock file, which nobody removes (lock.c:57-79), or a call was overtaken.
SurvivorEnds ==
  []CallExclusion =>
    \A p \in Processes :
      pc[p] = "del_forbid" ~>
        pc[p] \in {"freed", "dead"} \/ (lock # "free" /\ pc[lock] = "dead")

(***************************************************************************)
(* The exchange implements the remote call.                                *)
(***************************************************************************)
AnswerReady ==
  \/ pc["server"] \in {"too_big", "ask", "asked", "answer", "reply"}
  \/ \E i \in DOMAIN pipe["host"] : pipe["host"][i].kind = "answer"
  \/ pc["caller"] = "size" /\ output[1].kind = "answer"

Phase ==
  CASE pc["caller"] = "idle"   -> "idle"
    [] pc["caller"] = "return" -> "delivered"
    [] OTHER -> IF AnswerReady THEN "answered" ELSE "asked"

\* What the user gets: p2h_datasize units of the answer to this very call.
Given ==
  IF pc["caller"] # "return" THEN "nothing"
  ELSE IF output = Message("answer", calls,
                           IF pah.p2h_datasize = 0 THEN 1 ELSE pah.p2h_datasize)
       THEN pah.p2h_datasize
       ELSE "something else"

Call == INSTANCE RemoteCall
          WITH Replies <- ReplySizes, phase <- Phase, answer <- reply, given <- Given

\* A call is refused, or its data reaches the callback once and the answer of
\* that run, whole and with its size, is what the call returns.
ImplementsRemoteCall == Call!RCSpec
=============================================================================
