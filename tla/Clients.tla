------------------------------- MODULE Clients -------------------------------
(***************************************************************************)
(* Clients and the server: jack_activate and jack_deactivate of            *)
(* library/jack.c in each client, the receiver of aipc/src/receiver.c they *)
(* send their requests to, and in the server the input thread of           *)
(* clienthandler.c, which keeps the list of clients, and Pd's thread, in   *)
(* which k_jackd_new of k_jackd~.c searches that list without a lock.      *)
(*                                                                         *)
(* Every client gets a directory of its own, whose number also stands for  *)
(* the ClientList node and the audioplugincaller made for it; 0 is NULL.   *)
(* Of the exchange in that directory only this is kept: the two "new"      *)
(* functions wait for each other, with a timeout of -1, and either may     *)
(* fail without the other, which then waits for ever or does not know; the *)
(* two deletes end.                                                        *)
(***************************************************************************)
EXTENDS Naturals, Sequences

CONSTANTS
  Users,        \* the client processes
  NameOf,       \* the client_name each of them gives
  Objects,      \* the k_jackd~ objects that are made in Pd
  NameIn,       \* the client name each of them is made with
  MaxRounds,    \* bound: how often each client is activated
  MaxDirs,      \* bound: how many directories there can be (dir.c:65)
  Faulty,       \* the clients whose files, sockets and exchanges may fail, on
                \* either side
  Crashes       \* the clients that may die at any point

ASSUME ClientsAssumption ==
  /\ MaxRounds \in [Users -> Nat] /\ MaxDirs \in Nat
  /\ Faulty \subseteq Users /\ Crashes \subseteq Users /\ "free" \notin Users

VARIABLES
  client,       \* each client: at, its request c2j (reqtype, dirname), rounds
  dirs,         \* the data directories, each with the client that made it;
                \* nobody removes them
  dirlock,      \* the lock file datadir_.lock
  sendlock,     \* the lock file of the receiver
  socket,       \* the connections to the main socket, the accepted one first, and
                \* how much of a request was sent ("short": no more will be)
  input,        \* k_jackd_inputthread: at, c2j
  root,         \* ClientListRoot
  next,         \* the next field of every node
  callers,      \* the audioplugincallers that were made and not deleted
  pd,           \* Pd's thread: at, the object it makes, the node it looks at
  mixers,       \* the callers in the mixer of each object
  steady,       \* history: the nodes in the list since the search began
  broken        \* history: the directories whose exchange or request failed on
                \* one side only

locks == <<dirlock, sendlock>>
list == <<root, next>>
server == <<input, list, callers>>
search == <<pd, mixers>>
clientVars == <<client, dirs, locks, socket, server, search, steady, broken>>

Dirs == 1..MaxDirs

Idle == [at |-> "idle", object |-> "none", node |-> 0]

Init ==
  /\ client = [c \in Users |-> [at |-> "out", reqtype |-> "new", dirname |-> 0, rounds |-> 0]]
  /\ dirs = <<>> /\ dirlock = "free" /\ sendlock = "free"
  /\ socket = <<>>
  /\ input = [at |-> "bind", reqtype |-> "new", dirname |-> 0]
  /\ root = 0 /\ next = [d \in Dirs |-> 0]
  /\ callers = {}
  /\ pd = Idle
  /\ mixers = [o \in Objects |-> {}]
  /\ steady = {} /\ broken = {}

At(c, from, to) == client[c].at = from /\ client' = [client EXCEPT ![c].at = to]

InputAt(from, to) == input.at = from /\ input' = [input EXCEPT !.at = to]

\* The connections on the main socket can be made and are not refused.
Listening == input.at \notin {"bind", "failed", "segfault"}

-----------------------------------------------------------------------------
(***************************************************************************)
(* jack_activate: a directory with the first free number, made while a     *)
(* lock file is held.  Deleting a lock file removes whatever file has its  *)
(* name.                                                                   *)
(***************************************************************************)
Activate(c) ==
  /\ client[c].rounds < MaxRounds[c]
  /\ client[c].at = "out"
  /\ client' = [client EXCEPT ![c] =
       [at |-> "dir_lock", reqtype |-> "new", dirname |-> 0, rounds |-> @.rounds + 1]]
  /\ UNCHANGED <<dirs, locks, socket, server, search, steady, broken>>

DirLock(c) ==
  /\ dirlock = "free" /\ dirlock' = c
  /\ At(c, "dir_lock", "dir_number")
  /\ UNCHANGED <<dirs, sendlock, socket, server, search, steady, broken>>

DirNumber(c) ==
  /\ client[c].at = "dir_number"
  /\ \E d \in Dirs \ DOMAIN dirs :
       /\ \A e \in Dirs \ DOMAIN dirs : d <= e
       /\ client' = [client EXCEPT ![c].at = "mkdir", ![c].dirname = d]
  /\ UNCHANGED <<dirs, locks, socket, server, search, steady, broken>>

\* Mutant of MakeDir: mkdir is not asked whether it made the directory.
MakeDirAnyway(c) ==
  /\ At(c, "mkdir", "send_lock")
  /\ dirs' = [d \in DOMAIN dirs \cup {client[c].dirname} |->
                IF d = client[c].dirname THEN c ELSE dirs[d]]
  /\ dirlock' = "free"
  /\ UNCHANGED <<sendlock, socket, server, search, steady, broken>>

\* When mkdir fails jack_activate does, too.
MakeDir(c) ==
  /\ client[c].at = "mkdir"
  /\ client' = [client EXCEPT ![c].at =
       IF client[c].dirname \in DOMAIN dirs THEN "out" ELSE "send_lock"]
  /\ dirs' = [d \in DOMAIN dirs \cup {client[c].dirname} |->
                IF d \in DOMAIN dirs THEN dirs[d] ELSE c]
  /\ dirlock' = "free"
  /\ UNCHANGED <<sendlock, socket, server, search, steady, broken>>

\* The lock file or the directory cannot be made.
DirFails(c) ==
  /\ c \in Faulty
  /\ \/ At(c, "dir_lock", "out") /\ UNCHANGED dirlock
     \/ At(c, "mkdir", "out") /\ dirlock' = "free"
  /\ UNCHANGED <<dirs, sendlock, socket, server, search, steady, broken>>

(***************************************************************************)
(* aipc_receiver_send: connect, the size of the request, the request.      *)
(* jack_deactivate goes on even if it fails.                               *)
(***************************************************************************)
SendLock(c) ==
  /\ sendlock = "free" /\ sendlock' = c
  /\ At(c, "send_lock", "connect")
  /\ UNCHANGED <<dirs, dirlock, socket, server, search, steady, broken>>

Connect(c) ==
  /\ Listening
  /\ At(c, "connect", "send_size")
  /\ socket' = Append(socket, [sender |-> c, sent |-> "nothing"])
  /\ UNCHANGED <<dirs, locks, server, search, steady, broken>>

ConnectFails(c) ==
  /\ ~Listening
  /\ At(c, "connect", IF client[c].reqtype = "new" THEN "out" ELSE "delete")
  /\ sendlock' = "free"
  /\ UNCHANGED <<dirs, dirlock, socket, server, search, steady, broken>>

Send(c, from, to, what) ==
  /\ At(c, from, to)
  /\ socket' = [socket EXCEPT ![Len(socket)].sent = what]
  /\ UNCHANGED <<dirs, locks, server, search, steady, broken>>

SendSize(c) == Send(c, "send_size", "send_data", "size")
SendData(c) == Send(c, "send_data", "close", "all")

\* Mutant of SendClose: the lock file is not deleted.
SendCloseLocked(c) ==
  /\ At(c, "close", IF client[c].reqtype = "new" THEN "plugin" ELSE "delete")
  /\ UNCHANGED <<dirs, locks, socket, server, search, steady, broken>>

SendClose(c) ==
  /\ At(c, "close", IF client[c].reqtype = "new" THEN "plugin" ELSE "delete")
  /\ sendlock' = "free"
  /\ UNCHANGED <<dirs, dirlock, socket, server, search, steady, broken>>

\* Its lock file cannot be made or it cannot connect, or a send fails: what was
\* sent is all there will be.
SendFails(c) ==
  /\ c \in Faulty /\ client[c].at \in {"send_lock", "connect", "send_size", "send_data"}
  /\ client' = [client EXCEPT ![c].at = IF client[c].reqtype = "new" THEN "out" ELSE "delete"]
  /\ sendlock' = IF client[c].at = "send_lock" THEN sendlock ELSE "free"
  /\ socket' = IF client[c].at \in {"send_size", "send_data"}
               THEN [socket EXCEPT ![Len(socket)].sent = "short"] ELSE socket
  /\ broken' = IF client[c].reqtype = "new" THEN broken ELSE broken \cup {client[c].dirname}
  /\ UNCHANGED <<dirs, dirlock, server, search, steady>>

(***************************************************************************)
(* jack_deactivate, also called by jack_client_close: send the request,    *)
(* delete the audioplugin, wait until the server has deleted the caller.   *)
(***************************************************************************)
Deactivate(c) ==
  /\ client[c].at = "active"
  /\ client' = [client EXCEPT ![c].at = "send_lock", ![c].reqtype = "delete"]
  /\ UNCHANGED <<dirs, locks, socket, server, search, steady, broken>>

DeletePlugin(c) ==
  /\ At(c, "delete", "receive")
  /\ UNCHANGED <<dirs, locks, socket, server, search, steady, broken>>

\* A client dies: its connection is closed, its lock files stay.
Crash(c) ==
  /\ c \in Crashes /\ client[c].at # "dead"
  /\ client' = [client EXCEPT ![c].at = "dead"]
  /\ UNCHANGED <<dirs, locks, socket, server, search, steady, broken>>

-----------------------------------------------------------------------------
(***************************************************************************)
(* k_jackd_tilde_setup: open the main socket, remove all files left in     *)
(* .k_jackd whose names begin with datadir_, start the input thread.       *)
(***************************************************************************)
Setup ==
  /\ InputAt("bind", "setup")
  /\ UNCHANGED <<client, dirs, locks, socket, list, callers, search, steady, broken>>

\* Without the socket nothing is set up.
SetupFails ==
  /\ InputAt("bind", "failed")
  /\ UNCHANGED <<client, dirs, locks, socket, list, callers, search, steady, broken>>

SetupRemove ==
  /\ InputAt("setup", "accept")
  /\ dirlock' = "free"
  /\ UNCHANGED <<client, dirs, sendlock, socket, list, callers, search, steady, broken>>

(***************************************************************************)
(* aipc_receiver_receive.  When the client gave up or died before it had   *)
(* sent everything, NULL is returned and size is left uninitialised: the   *)
(* input thread goes on, or follows NULL when size happens to be right.    *)
(***************************************************************************)
Accept ==
  /\ socket # <<>>
  /\ InputAt("accept", "read")
  /\ UNCHANGED <<client, dirs, locks, socket, list, callers, search, steady, broken>>

Receive ==
  /\ input.at = "read" /\ Head(socket).sent = "all"
  /\ LET c2j == client[Head(socket).sender] IN
     input' = [at |-> IF c2j.reqtype = "new" THEN "new" ELSE "unlink",
               reqtype |-> c2j.reqtype, dirname |-> c2j.dirname]
  /\ socket' = Tail(socket)
  /\ UNCHANGED <<client, dirs, locks, list, callers, search, steady, broken>>

ReceiveShort ==
  /\ input.at = "read"
  /\ \/ Head(socket).sent = "short"
     \/ Head(socket).sent # "all" /\ client[Head(socket).sender].at = "dead"
  /\ \E to \in {"accept", "segfault"} : InputAt("read", to)
  /\ socket' = Tail(socket)
  /\ UNCHANGED <<client, dirs, locks, list, callers, search, steady, broken>>

(***************************************************************************)
(* k_jackd_newClient.  aipc_audioplugincaller_new waits for the client's   *)
(* aipc_audioplugin_new, and it for that.                                  *)
(***************************************************************************)
Meet(c) ==
  /\ client[c].dirname = input.dirname
  /\ At(c, "plugin", "active")
  /\ InputAt("new", "link")
  /\ callers' = callers \cup {input.dirname}
  /\ UNCHANGED <<dirs, locks, socket, list, search, steady, broken>>

\* One or both fail.  The plugin's does not look at whether the ports were sent,
\* so that it may succeed without the host's; it, or the host's, may be left
\* waiting for what the other will never do.
MeetFails(c) ==
  /\ c \in Faulty
  /\ client[c].dirname = input.dirname
  /\ \E plugin \in {"out", "active", "waits"}, host \in {"accept", "waits"} :
       /\ plugin = "waits" => host = "accept"
       /\ At(c, "plugin", plugin)
       /\ InputAt("new", host)
       /\ broken' = IF plugin = "out" /\ host = "accept"
                    THEN broken ELSE broken \cup {input.dirname}
  /\ UNCHANGED <<dirs, locks, socket, list, callers, search, steady>>

\* The client died: what there is of the exchange may end the wait, or not.
MeetDead ==
  /\ InputAt("new", "accept")
  /\ client[dirs[input.dirname]].at = "dead"
  /\ UNCHANGED <<client, dirs, locks, socket, list, callers, search, steady, broken>>

Link ==
  /\ InputAt("link", "publish")
  /\ next' = [next EXCEPT ![input.dirname] = root]
  /\ UNCHANGED <<client, dirs, locks, socket, root, callers, search, steady, broken>>

\* Mutant of Publish: the new node is not made the root of the list.
PublishNot ==
  /\ InputAt("publish", "accept")
  /\ UNCHANGED <<client, dirs, locks, socket, list, callers, search, steady, broken>>

Publish ==
  /\ InputAt("publish", "accept")
  /\ root' = input.dirname
  /\ UNCHANGED <<client, dirs, locks, socket, next, callers, search, steady, broken>>

(***************************************************************************)
(* k_jackd_deleteClient.  The node is taken out of the list but not freed. *)
(***************************************************************************)
\* The nodes from the given one on: the least set with it that next does not lead
\* out of.
From(node) ==
  LET ListFrom(S) == node \in S \cup {0} /\ \A d \in S : next[d] \in S \cup {0}
  IN {d \in Dirs : \A S \in SUBSET Dirs : ListFrom(S) => d \in S}

Reachable == From(root)

\* Mutant of Unlink: the next field of the node is cleared.
UnlinkAndClear ==
  /\ input.dirname \in Reachable
  /\ InputAt("unlink", "free")
  /\ root' = IF root = input.dirname THEN next[root] ELSE root
  /\ next' = [d \in Dirs |-> IF d = input.dirname THEN 0
                             ELSE IF next[d] = input.dirname THEN next[input.dirname]
                             ELSE next[d]]
  /\ steady' = steady \ {input.dirname}
  /\ UNCHANGED <<client, dirs, locks, socket, callers, search, broken>>

\* A node that is not found is only reported, and its client waits for ever.
Unlink ==
  LET found == input.dirname \in Reachable IN
  /\ InputAt("unlink", IF found THEN "free" ELSE "accept")
  /\ root' = IF found /\ root = input.dirname THEN next[root] ELSE root
  /\ next' = [d \in Dirs |->
       IF found /\ d \in Reachable /\ next[d] = input.dirname
       THEN next[input.dirname] ELSE next[d]]
  /\ steady' = steady \ {input.dirname}
  /\ UNCHANGED <<client, dirs, locks, socket, callers, search, broken>>

DeleteCaller ==
  /\ InputAt("free", "send")
  /\ callers' = callers \ {input.dirname}
  /\ UNCHANGED <<client, dirs, locks, socket, list, search, steady, broken>>

\* Mutant of Acknowledge: the client is not told.
AcknowledgeNot(c) ==
  /\ client[c].dirname = input.dirname
  /\ InputAt("send", "accept")
  /\ UNCHANGED <<client, dirs, locks, socket, list, callers, search, steady, broken>>

\* aipc_simpleio_send tries until the client listens.
Acknowledge(c) ==
  /\ client[c].dirname = input.dirname
  /\ At(c, "receive", "out")
  /\ InputAt("send", "accept")
  /\ UNCHANGED <<dirs, locks, socket, list, callers, search, steady, broken>>

\* Its result is not looked at: the client may not have been told.
AcknowledgeFails ==
  /\ InputAt("send", "accept")
  /\ dirs[input.dirname] \in Faulty
  /\ broken' = broken \cup {input.dirname}
  /\ UNCHANGED <<client, dirs, locks, socket, list, callers, search, steady>>

\* The client cannot listen, and does not look at that either (it does not wait
\* for the server to get there, as it does here).
ListenFails(c) ==
  /\ c \in Faulty /\ client[c].dirname = input.dirname
  /\ At(c, "receive", "out")
  /\ InputAt("send", "waits")
  /\ broken' = broken \cup {input.dirname}
  /\ UNCHANGED <<dirs, locks, socket, list, callers, search, steady>>

-----------------------------------------------------------------------------
(***************************************************************************)
(* k_jackd_new: k_jackd_getCaller walks the list, and what it finds is     *)
(* added to the mixer of the object, which calls it from then on.          *)
(***************************************************************************)
PdAt(from, to) == pd.at = from /\ pd' = [pd EXCEPT !.at = to]

Matches(d, o) == NameOf[dirs[d]] = NameIn[o]

NewObject(o) ==
  /\ input.at \notin {"bind", "setup", "failed", "segfault"}
  /\ pd.at = "idle" /\ mixers[o] = {}
  /\ pd' = [at |-> "search", object |-> o, node |-> root]
  /\ steady' = {d \in Reachable : Matches(d, o)}
  /\ UNCHANGED <<client, dirs, locks, socket, server, mixers, broken>>

SearchNext ==
  /\ pd.at = "search" /\ pd.node # 0 /\ ~Matches(pd.node, pd.object)
  /\ pd' = [pd EXCEPT !.node = next[pd.node]]
  /\ UNCHANGED <<client, dirs, locks, socket, server, mixers, steady, broken>>

SearchEnds ==
  /\ IF pd.node = 0 THEN PdAt("search", "not_found")
     ELSE Matches(pd.node, pd.object) /\ PdAt("search", "found")
  /\ UNCHANGED <<client, dirs, locks, socket, server, mixers, steady, broken>>

AddCaller ==
  /\ pd.at = "found" /\ pd' = Idle /\ steady' = {}
  /\ mixers' = [mixers EXCEPT ![pd.object] = {pd.node}]
  /\ UNCHANGED <<client, dirs, locks, socket, server, broken>>

NoObject ==
  /\ pd.at = "not_found" /\ pd' = Idle /\ steady' = {}
  /\ UNCHANGED <<client, dirs, locks, socket, server, mixers, broken>>

-----------------------------------------------------------------------------
ClientStep(c) ==
  \/ DirLock(c) \/ DirNumber(c) \/ MakeDir(c) \/ SendLock(c) \/ Connect(c)
  \/ ConnectFails(c) \/ SendSize(c) \/ SendData(c) \/ SendClose(c) \/ DeletePlugin(c)

InputStep ==
  \/ Setup \/ SetupRemove \/ Accept \/ Receive \/ ReceiveShort \/ Link \/ Publish
  \/ Unlink \/ DeleteCaller
  \/ \E c \in Users : Meet(c) \/ Acknowledge(c)

SearchStep ==
  input.at # "segfault" /\ (SearchNext \/ SearchEnds \/ AddCaller \/ NoObject)

Next ==
  \/ InputStep \/ SearchStep \/ \E o \in Objects : NewObject(o)
  \/ SetupFails \/ MeetDead \/ AcknowledgeFails
  \/ \E c \in Users :
       \/ Activate(c) \/ Deactivate(c) \/ ClientStep(c) \/ Crash(c)
       \/ DirFails(c) \/ SendFails(c) \/ MeetFails(c) \/ ListenFails(c)

Spec == Init /\ [][Next]_clientVars

(***************************************************************************)
(* Clients, the server's input thread and Pd's thread run.  Nobody has to  *)
(* activate, deactivate, die or make an object, nothing has to fail, and   *)
(* the server need not get over a client that died while it was waited     *)
(* for.                                                                    *)
(***************************************************************************)
FairSpec ==
  /\ Spec /\ WF_clientVars(InputStep) /\ WF_clientVars(SearchStep)
  /\ \A c \in Users : WF_clientVars(ClientStep(c))

-----------------------------------------------------------------------------
(***************************************************************************)
(* Properties.                                                             *)
(***************************************************************************)
Settled(c) == client[c].at \notin {"out", "dir_lock", "dir_number", "mkdir", "dead"}

\* No two clients ever use the same directory, although the server's setup
\* removes the lock file under which one is looking for its number
\* (dir.c:51-80, k_jackd~.c:167).
DirsDistinct ==
  \A c, d \in Users :
    Settled(c) /\ Settled(d) /\ c # d => client[c].dirname # client[d].dirname

\* Between two requests the list holds exactly the clients that have been
\* activated and whose wish to be deleted was not yet heard, and one caller
\* was made for each (clienthandler.c:44-107).  Only a client whose exchange failed
\* on the server's side alone is active without being in it: nothing tells it, as
\* aipc_audioplugin_new ignores what became of the ports it sends
\* (audioplugin.c:129-131).
ListMatchesClients ==
  input.at = "accept" =>
    /\ callers = Reachable
    /\ \A c \in Users :
         /\ client[c].at = "active" => client[c].dirname \in Reachable \cup broken
         /\ client[c].at \in {"plugin", "waits"} => client[c].dirname \notin Reachable
         /\ client[c].at = "out" => \A d \in Reachable : dirs[d] # c

\* A client that is in the list during the whole of a search for its name is
\* found, although the list is changed under the search (clienthandler.c:30-41).
SearchFindsSteady == pd.at = "not_found" => steady = {}

\* What may stop a client without end: its own exchange or request failed on one
\* side only; the server waits for what never comes or was taken down; or somebody
\* died who held one of the lock files or for whom the server waits.
LeftBehind(c) ==
  \/ client[c].dirname \in broken
  \/ input.at \in {"segfault", "waits"}
  \/ \E d \in Users : client[d].at = "dead" /\
       \/ d \in {dirlock, sendlock}
       \/ input.at \in {"new", "send"} /\ dirs[input.dirname] = d

\* jack_activate, and jack_deactivate from its send on, return: the server's input
\* thread, which serves one client at a time and waits for it without a timeout,
\* gets to every request and acknowledges every delete, whoever else's exchange or
\* request fails or dies.  Only what is left behind for good may stop that
\* (jack.c:64-120).
RequestsEnd ==
  \A c \in Users :
    client[c].at \in {"dir_lock", "send_lock", "delete"} ~>
      client[c].at \in {"active", "out", "dead"} \/ []LeftBehind(c)

\* No object calls a client whose caller was deleted: README:73-77 asks for
\* every client to exit before the server does.
MixersCallLiveCallers == \A o \in Objects : mixers[o] \subseteq callers
=============================================================================
