----------------------------- MODULE ClientsProofs -----------------------------
(***************************************************************************)
(* The clients and the list the server keeps of them, for any clients,     *)
(* names, objects and numbers of activations, whatever fails and whoever   *)
(* dies.                                                                   *)
(***************************************************************************)
EXTENDS Clients, TLAPS

Sending == {"send_lock", "connect", "send_size", "send_data", "close"}

ClientPCs ==
  {"out", "dir_lock", "dir_number", "mkdir", "plugin", "waits", "active", "delete", "receive",
   "dead"}
    \cup Sending

InputPCs == {"bind", "setup", "accept", "read", "new", "link", "publish", "unlink", "free",
             "send", "waits", "failed", "segfault"}

ClientTypes ==
  [at : ClientPCs, reqtype : {"new", "delete"}, dirname : Dirs \cup {0}, rounds : Nat]
InputTypes == [at : InputPCs, reqtype : {"new", "delete"}, dirname : Dirs \cup {0}]
Connections == [sender : Users, sent : {"nothing", "size", "all", "short"}]
PdTypes == [at : {"idle", "search", "found", "not_found"}, object : Objects \cup {"none"},
            node : Dirs \cup {0}]

Types ==
  /\ client \in [Users -> ClientTypes]
  /\ \A c \in Users : client[c].at = "mkdir" => client[c].dirname # 0
  /\ DOMAIN dirs \subseteq Dirs /\ dirs \in [DOMAIN dirs -> Users]
  /\ sendlock \in Users \cup {"free"}
  /\ socket \in Seq(Connections)
  /\ input \in InputTypes
  /\ root \in Dirs \cup {0} /\ next \in [Dirs -> Dirs \cup {0}]
  /\ callers \in SUBSET Dirs
  /\ pd \in PdTypes
  /\ steady \in SUBSET Dirs

-----------------------------------------------------------------------------
(***************************************************************************)
(* Clients and their requests.                                             *)
(***************************************************************************)

\* The client's directory is one it has made itself.
HasDir(c) == client[c].dirname \in DOMAIN dirs /\ dirs[client[c].dirname] = c

\* The client wants to be let in; it is in, but wants to leave.
Coming(c) == client[c].reqtype = "new" /\ client[c].at \in Sending \cup {"plugin", "waits"}
Leaving(c) == client[c].reqtype = "delete" /\ client[c].at \in Sending \cup {"delete", "receive"}

\* Where a client is whose request was sent as far as this.
SentBy(c, sent) ==
  \/ client[c].at = "dead"
  \/ sent = "nothing" /\ client[c].at = "send_size"
  \/ sent = "size" /\ client[c].at = "send_data"
  \/ sent = "all" /\ client[c].at \in {"close", "plugin", "delete", "receive"}

OwnedBy(c) ==
  /\ Settled(c) => HasDir(c) /\ (client[c].at = "active" \/ Coming(c) \/ Leaving(c))
  /\ client[c].at \in {"connect", "send_size", "send_data", "close"} => sendlock = c
  /\ client[c].at \in {"send_size", "send_data"} =>
       /\ socket # <<>> /\ socket[Len(socket)].sender = c
       /\ socket[Len(socket)].sent # "short"

\* While a client uses a directory it is its own, and while it sends it is alone.
Owned == \A c \in Users : OwnedBy(c)

\* One request of each client at most is on its way, not counting those that end
\* in the middle.
Requested ==
  /\ \A i \in 1..Len(socket) : socket[i].sent # "short" =>
       HasDir(socket[i].sender) /\ SentBy(socket[i].sender, socket[i].sent)
  /\ \A i, j \in 1..Len(socket) :
       i # j /\ socket[i].sent # "short" /\ socket[j].sent # "short" =>
         socket[i].sender # socket[j].sender

\* Whose request the server handles, and that it is no longer on its way.
Owner == dirs[input.dirname]
Heard == \A i \in 1..Len(socket) : socket[i].sent # "short" => socket[i].sender # Owner

Served ==
  /\ input.at = "read" => socket # <<>>
  /\ input.at \in {"new", "link", "publish", "unlink", "free", "send"} =>
       input.dirname \in DOMAIN dirs /\ client[Owner].dirname = input.dirname
  /\ input.at = "new" =>
       /\ Heard
       /\ client[Owner].at = "dead" \/ (Coming(Owner) /\ client[Owner].at \in {"close", "plugin"})
  /\ input.at \in {"link", "publish"} =>
       client[Owner].at \in {"dead", "active"} \/ Leaving(Owner)
  /\ input.at \in {"unlink", "free", "send"} =>
       /\ Heard
       /\ \/ client[Owner].at = "dead"
          \/ Leaving(Owner) /\ client[Owner].at \in {"close", "delete", "receive"}

-----------------------------------------------------------------------------
(***************************************************************************)
(* The list.                                                               *)
(***************************************************************************)

\* Nothing leads to a node that was not yet made the root.
Unknown(d) == root # d /\ pd.node # d /\ \A e \in Dirs : next[e] # d

News ==
  /\ \A d \in Dirs : d \notin DOMAIN dirs => Unknown(d)
  /\ \A c \in Users : Coming(c) => Unknown(client[c].dirname)
  /\ input.at \in {"link", "publish"} => Unknown(input.dirname)

\* The list does not run in a circle, not even from a node that was taken out.
Ranks(rank) == \A d \in Dirs : next[d] # 0 => rank[next[d]] < rank[d]
Straight == \E rank \in [Dirs -> Nat] : Ranks(rank)

\* The list is that of the clients that are in, but for the one the server is
\* just letting in or out.
Listed ==
  /\ input.at = "publish" => next[input.dirname] = root
  /\ \A d \in Reachable :
       /\ d \in DOMAIN dirs
       /\ \/ client[dirs[d]].at = "dead"
          \/ client[dirs[d]].dirname = d /\ (client[dirs[d]].at = "active" \/ Leaving(dirs[d]))
  /\ \A c \in Users : client[c].at = "active" =>
       \/ client[c].dirname \in Reachable
       \/ input.at \in {"link", "publish"} /\ client[c].dirname = input.dirname
       \/ client[c].dirname \in broken
  /\ callers = Reachable \cup IF input.at \in {"link", "publish", "free"} THEN {input.dirname} ELSE {}
  /\ input.at \in {"link", "publish", "free", "send"} => input.dirname \notin Reachable

\* The nodes that stay and match are still ahead of the search.
Ahead ==
  /\ steady \subseteq DOMAIN dirs
  /\ pd.at = "search" =>
       steady \subseteq From(pd.node) /\ \A d \in steady : Matches(d, pd.object)
  /\ pd.at = "not_found" => steady = {}

Inv == Types /\ Owned /\ Requested /\ Served /\ News /\ Straight /\ Listed /\ Ahead

-----------------------------------------------------------------------------
(***************************************************************************)
(* Lists in general: Chain(nx, n) are the nodes from n on by the fields nx. *)
(***************************************************************************)
ListFrom(nx, n, S) == n \in S \cup {0} /\ \A d \in S : nx[d] \in S \cup {0}
Chain(nx, n) == {d \in Dirs : \A S \in SUBSET Dirs : ListFrom(nx, n, S) => d \in S}

Fields == [Dirs -> Dirs \cup {0}]

\* 0 is no node.
LEMMA ZeroIsNoDir == Dirs \subseteq Nat \ {0}
BY ClientsAssumption DEF Dirs

\* From is the chain of the next fields, before and after a step.
LEMMA FromIsChain ==
  ASSUME NEW n
  PROVE  From(n) = Chain(next, n) /\ From(n)' = Chain(next', n)
BY DEF From, Chain, ListFrom

\* A chain is in every set that has its first node and that no field leads out of.
LEMMA ChainLeast ==
  ASSUME NEW nx, NEW n, NEW S \in SUBSET Dirs, ListFrom(nx, n, S)
  PROVE  Chain(nx, n) \subseteq S
BY DEF Chain

\* A chain is such a set itself.
LEMMA ChainIsList ==
  ASSUME NEW nx \in Fields, NEW n \in Dirs \cup {0}
  PROVE  Chain(nx, n) \in SUBSET Dirs /\ ListFrom(nx, n, Chain(nx, n))
<1>. DEFINE C == Chain(nx, n)
<1>1. C \in SUBSET Dirs
  BY DEF Chain
<1>2. n \in C \cup {0}
  BY DEF Chain, ListFrom
<1>3. ASSUME NEW d \in C
      PROVE  nx[d] \in C \cup {0}
  <2>1. d \in Dirs /\ nx[d] \in Dirs \cup {0}
    BY <1>1 DEF Fields
  <2>2. ASSUME NEW S \in SUBSET Dirs, ListFrom(nx, n, S)
        PROVE  nx[d] \in S \cup {0}
    BY <2>2 DEF Chain, ListFrom
  <2>. QED  BY <2>1, <2>2 DEF Chain
<1>. QED  BY <1>1, <1>2, <1>3 DEF ListFrom

\* The chain from a node is the node and the chain from the next one.
LEMMA ChainNext ==
  ASSUME NEW nx \in Fields, NEW n \in Dirs
  PROVE  Chain(nx, n) = {n} \cup Chain(nx, nx[n])
<1>. DEFINE C == Chain(nx, n)
            D == Chain(nx, nx[n])
<1>1. nx[n] \in Dirs \cup {0} /\ n # 0
  BY ZeroIsNoDir DEF Fields
<1>2. C \in SUBSET Dirs /\ ListFrom(nx, n, C)
  BY ChainIsList
<1>3. D \in SUBSET Dirs /\ ListFrom(nx, nx[n], D)
  BY <1>1, ChainIsList
<1>4. C \subseteq {n} \cup D
  <2>1. {n} \cup D \in SUBSET Dirs /\ ListFrom(nx, n, {n} \cup D)
    BY <1>3 DEF ListFrom
  <2>. QED  BY <2>1, ChainLeast
<1>5. n \in C
  BY <1>1, <1>2 DEF ListFrom
<1>6. D \subseteq C
  <2>1. ListFrom(nx, nx[n], C)
    BY <1>2, <1>5 DEF ListFrom
  <2>. QED  BY <1>2, <2>1, ChainLeast
<1>. QED  BY <1>4, <1>5, <1>6

\* There is nothing after the end.
LEMMA ChainOfNone ==
  ASSUME NEW nx
  PROVE  Chain(nx, 0) = {}
<1>1. ListFrom(nx, 0, {})
  BY DEF ListFrom
<1>. QED  BY <1>1, ChainLeast

\* A field that nobody can get to may be written.
LEMMA ChainUntouched ==
  ASSUME NEW nx \in Fields, NEW ny \in Fields, NEW d \in Dirs, NEW n \in Dirs \cup {0},
         n # d, \A e \in Dirs : nx[e] # d, \A e \in Dirs \ {d} : ny[e] = nx[e]
  PROVE  Chain(ny, n) = Chain(nx, n)
<1>. DEFINE C == Chain(nx, n)
            D == Chain(ny, n)
<1>1. C \in SUBSET Dirs /\ ListFrom(nx, n, C)
  BY ChainIsList
<1>2. D \in SUBSET Dirs /\ ListFrom(ny, n, D)
  BY ChainIsList
<1>3. D \subseteq C \ {d}
  <2>1. ListFrom(ny, n, C \ {d})
    BY <1>1 DEF ListFrom
  <2>2. C \ {d} \in SUBSET Dirs
    BY <1>1
  <2>. QED  BY <2>1, <2>2, ChainLeast
<1>4. C \subseteq D \ {d}
  <2>1. ListFrom(nx, n, D \ {d})
    BY <1>2 DEF ListFrom
  <2>2. D \ {d} \in SUBSET Dirs
    BY <1>2
  <2>. QED  BY <2>1, <2>2, ChainLeast
<1>. QED  BY <1>3, <1>4

\* Leading around x loses nothing but x, wherever that is done.
LEMMA ChainAround ==
  ASSUME NEW nx \in Fields, NEW ny \in Fields, NEW x \in Dirs,
         NEW n \in Dirs \cup {0}, NEW m \in Dirs \cup {0}, m = n \/ (n = x /\ m = nx[x]),
         \A d \in Dirs : ny[d] = nx[d] \/ (nx[d] = x /\ ny[d] = nx[x])
  PROVE  Chain(nx, n) \subseteq Chain(ny, m) \cup {x}
<1>. DEFINE D == Chain(ny, m)
<1>1. D \in SUBSET Dirs /\ ListFrom(ny, m, D)
  BY ChainIsList
<1>2. CASE nx[x] \in D \cup {0}
  <2>1. ListFrom(nx, n, D \cup {x})
    BY <1>1, <1>2 DEF ListFrom
  <2>2. D \cup {x} \in SUBSET Dirs
    BY <1>1
  <2>. QED  BY <2>1, <2>2, ChainLeast
<1>3. CASE nx[x] \notin D \cup {0}
  <2>1. ListFrom(nx, n, D)
    BY <1>1, <1>3 DEF ListFrom
  <2>. QED  BY <1>1, <2>1, ChainLeast
<1>. QED  BY <1>2, <1>3

\* Leading around x everywhere takes it out, unless it leads to itself.
LEMMA ChainWithout ==
  ASSUME NEW nx \in Fields, NEW ny \in Fields, NEW x \in Dirs,
         NEW n \in Dirs \cup {0}, x \in Chain(nx, n), nx[x] # x,
         \A d \in Chain(nx, n) : ny[d] = IF nx[d] = x THEN nx[x] ELSE nx[d]
  PROVE  Chain(ny, IF n = x THEN nx[x] ELSE n) \subseteq Chain(nx, n) \ {x}
<1>. DEFINE C == Chain(nx, n)
<1>1. C \in SUBSET Dirs /\ ListFrom(nx, n, C)
  BY ChainIsList
<1>2. ListFrom(ny, IF n = x THEN nx[x] ELSE n, C \ {x})
  BY <1>1 DEF ListFrom
<1>3. C \ {x} \in SUBSET Dirs
  BY <1>1
<1>. QED  BY <1>2, <1>3, ChainLeast

-----------------------------------------------------------------------------
(***************************************************************************)
(* Types.                                                                  *)
(***************************************************************************)

\* A client that goes from one place to another keeps its request.
LEMMA ClientMoves ==
  ASSUME Types, NEW c \in Users, NEW to \in ClientPCs, client' = [client EXCEPT ![c].at = to]
  PROVE  /\ client' \in [Users -> ClientTypes]
         /\ client'[c].at = to
         /\ \A d \in Users : /\ client'[d].reqtype = client[d].reqtype
                             /\ client'[d].dirname = client[d].dirname
                             /\ d # c => client'[d] = client[d]
<1>1. \A r \in ClientTypes : [r EXCEPT !.at = to] \in ClientTypes
  BY DEF ClientTypes
<1>2. /\ client[c] \in ClientTypes
      /\ client' = [client EXCEPT ![c] = [client[c] EXCEPT !.at = to]]
  BY DEF Types
<1>. QED  BY <1>1, <1>2 DEF Types, ClientTypes

\* The same of the input thread.
LEMMA InputMoves ==
  ASSUME Types, NEW to \in InputPCs, input' = [input EXCEPT !.at = to]
  PROVE  /\ input' \in InputTypes /\ input'.at = to
         /\ input'.reqtype = input.reqtype /\ input'.dirname = input.dirname
BY DEF Types, InputTypes

\* What a client does that fails by itself; how its wait for the server ends.
Fails(c) == DirFails(c) \/ SendFails(c)
Answered(c) == Acknowledge(c) \/ ListenFails(c)

\* Where a client goes that fails.
LEMMA FailsGoes ==
  ASSUME NEW c \in Users, Fails(c)
  PROVE  /\ \E to \in ClientPCs : client' = [client EXCEPT ![c].at = to]
         /\ \/ /\ client[c].at \in {"dir_lock", "mkdir"}
               /\ client' = [client EXCEPT ![c].at = "out"] /\ UNCHANGED <<sendlock, socket>>
            \/ /\ client[c].at \in {"send_lock", "connect"} /\ UNCHANGED socket
               /\ sendlock' = IF client[c].at = "send_lock" THEN sendlock ELSE "free"
               /\ client' = [client EXCEPT ![c].at =
                               IF client[c].reqtype = "new" THEN "out" ELSE "delete"]
            \/ /\ client[c].at \in {"send_size", "send_data"} /\ sendlock' = "free"
               /\ socket' = [socket EXCEPT ![Len(socket)].sent = "short"]
               /\ client' = [client EXCEPT ![c].at =
                               IF client[c].reqtype = "new" THEN "out" ELSE "delete"]
         /\ UNCHANGED <<dirs, input, root, next, callers, pd, mixers, steady>>
<1>1. CASE DirFails(c)
  BY <1>1 DEF DirFails, At, ClientPCs, server, list, search
<1>2. CASE SendFails(c)
  <2>1. /\ client[c].at \in {"send_lock", "connect", "send_size", "send_data"}
        /\ client' = [client EXCEPT ![c].at = IF client[c].reqtype = "new" THEN "out" ELSE "delete"]
    BY <1>2 DEF SendFails
  <2>2. \E to \in ClientPCs : client' = [client EXCEPT ![c].at = to]
    BY <2>1 DEF ClientPCs
  <2>3. UNCHANGED <<dirs, input, root, next, callers, pd, mixers, steady>>
    BY <1>2 DEF SendFails, server, list, search
  <2>4. sendlock' = IF client[c].at = "send_lock" THEN sendlock ELSE "free"
    BY <1>2 DEF SendFails
  <2>5. socket' = IF client[c].at \in {"send_size", "send_data"}
                  THEN [socket EXCEPT ![Len(socket)].sent = "short"] ELSE socket
    BY <1>2 DEF SendFails
  <2>. QED  BY <2>1, <2>2, <2>3, <2>4, <2>5
<1>. QED  BY <1>1, <1>2 DEF Fails

\* Where a client goes whose wait for the server ends.
LEMMA WaitGoes ==
  ASSUME NEW c \in Users, Meet(c) \/ MeetFails(c) \/ Answered(c)
  PROVE  /\ client[c].dirname = input.dirname
         /\ \E to \in {"out", "active", "waits"} :
              /\ client' = [client EXCEPT ![c].at = to]
              /\ client[c].at = IF input.at = "new" THEN "plugin" ELSE "receive"
         /\ \E to \in {"link", "accept", "waits"} : input' = [input EXCEPT !.at = to]
         /\ input.at \in {"new", "send"} /\ (Answered(c) => input.at = "send")
         /\ MeetFails(c) \/ Answered(c) =>
              /\ \E to \in {"accept", "waits"} : input' = [input EXCEPT !.at = to]
              /\ UNCHANGED callers
         /\ UNCHANGED <<dirs, sendlock, socket, root, next, pd, mixers, steady>>
<1>1. CASE Meet(c) /\ ~MeetFails(c) /\ ~Answered(c)
  BY <1>1 DEF Meet, At, InputAt, locks, list, search
<1>2. CASE MeetFails(c)
  <2>1. PICK plugin \in {"out", "active", "waits"}, host \in {"accept", "waits"} :
          At(c, "plugin", plugin) /\ InputAt("new", host)
    BY <1>2 DEF MeetFails
  <2>2. /\ client[c].dirname = input.dirname
        /\ UNCHANGED <<dirs, sendlock, socket, root, next, pd, mixers, steady, callers>>
    BY <1>2 DEF MeetFails, locks, list, search
  <2>3. ~Answered(c)
    BY <2>1 DEF At, Answered, Acknowledge, ListenFails
  <2>. QED  BY <2>1, <2>2, <2>3 DEF At, InputAt
<1>3. CASE Answered(c)
  BY <1>3 DEF Answered, Acknowledge, ListenFails, At, InputAt, locks, list, search
<1>. QED  BY <1>1, <1>2, <1>3

\* What each step of a client does to the client.
LEMMA ClientSteps ==
  ASSUME Types, NEW c \in Users,
         \/ Activate(c) \/ Deactivate(c) \/ ClientStep(c) \/ Fails(c) \/ Crash(c)
         \/ Meet(c) \/ MeetFails(c) \/ Answered(c)
  PROVE  /\ client' \in [Users -> ClientTypes]
         /\ \A d \in Users : d # c => client'[d] = client[d]
         /\ ~Activate(c) /\ ~DirNumber(c) => client'[c].dirname = client[c].dirname
         /\ ~Activate(c) /\ ~Deactivate(c) => client'[c].reqtype = client[c].reqtype
<1>1. CASE Activate(c)
  <2>1. [at |-> "dir_lock", reqtype |-> "new", dirname |-> 0, rounds |-> client[c].rounds + 1]
          \in ClientTypes
    BY DEF Types, ClientTypes, ClientPCs
  <2>. QED  BY <1>1, <2>1 DEF Activate, Types
<1>2. CASE Deactivate(c)
  <2>1. \A r \in ClientTypes :
          [r EXCEPT !.at = "send_lock", !.reqtype = "delete"] \in ClientTypes
    BY DEF ClientTypes, ClientPCs, Sending
  <2>2. client' = [client EXCEPT ![c] =
                     [client[c] EXCEPT !.at = "send_lock", !.reqtype = "delete"]]
    BY <1>2 DEF Deactivate, Types
  <2>3. client[c] \in ClientTypes
    BY DEF Types
  <2>4. [client[c] EXCEPT !.at = "send_lock", !.reqtype = "delete"].dirname = client[c].dirname
    BY <2>3 DEF ClientTypes
  <2>5. client \in [Users -> ClientTypes]
    BY DEF Types
  <2>. DEFINE r == [client[c] EXCEPT !.at = "send_lock", !.reqtype = "delete"]
  <2>6. r \in ClientTypes /\ r.dirname = client[c].dirname
    BY <2>1, <2>3, <2>4
  <2>7. client' = [client EXCEPT ![c] = r]
    BY <2>2
  <2>. HIDE DEF r
  <2>. QED  BY <1>2, <2>5, <2>6, <2>7
<1>3. CASE DirNumber(c)
  <2>1. PICK d \in Dirs : client' = [client EXCEPT ![c].at = "mkdir", ![c].dirname = d]
    BY <1>3 DEF DirNumber
  <2>2. \A r \in ClientTypes : [r EXCEPT !.at = "mkdir", !.dirname = d] \in ClientTypes
    BY DEF ClientTypes, ClientPCs
  <2>3. client' = [client EXCEPT ![c] = [client[c] EXCEPT !.at = "mkdir", !.dirname = d]]
    BY <2>1 DEF Types
  <2>4. client[c] \in ClientTypes
    BY DEF Types
  <2>5. [client[c] EXCEPT !.at = "mkdir", !.dirname = d].reqtype = client[c].reqtype
    BY <2>4 DEF ClientTypes
  <2>. QED  BY <1>3, <2>2, <2>3, <2>4, <2>5 DEF Types, DirNumber, Activate
<1>4. ASSUME NEW to \in ClientPCs, client' = [client EXCEPT ![c].at = to]
      PROVE  /\ client' \in [Users -> ClientTypes]
             /\ \A d \in Users : d # c => client'[d] = client[d]
             /\ client'[c].dirname = client[c].dirname
             /\ client'[c].reqtype = client[c].reqtype
  BY <1>4, ClientMoves
<1>5. CASE ClientStep(c) /\ ~DirNumber(c) /\ ~MakeDir(c)
  <2>1. \E to \in ClientPCs : client' = [client EXCEPT ![c].at = to]
    BY <1>5 DEF ClientStep, DirLock, SendLock, Connect, ConnectFails, Fails, DirFails,
       SendFails, SendSize, SendData, Send,
       SendClose, DeletePlugin, At, ClientPCs, Sending
  <2>. QED  BY <1>4, <2>1
<1>6. CASE MakeDir(c)
  <2>1. \E to \in ClientPCs : client' = [client EXCEPT ![c].at = to]
    BY <1>6 DEF MakeDir, ClientPCs, Sending
  <2>. QED  BY <1>4, <2>1
<1>7. CASE Fails(c) \/ Crash(c) \/ Meet(c) \/ MeetFails(c) \/ Answered(c)
  <2>1. Crash(c) => \E to \in ClientPCs : client' = [client EXCEPT ![c].at = to]
    BY DEF Crash, ClientPCs
  <2>2. {"out", "active", "waits"} \subseteq ClientPCs
    BY DEF ClientPCs
  <2>. QED  BY <1>4, <1>7, <2>1, <2>2, FailsGoes, WaitGoes
<1>. QED  BY <1>1, <1>2, <1>3, <1>5, <1>6, <1>7

\* Connections are added with nothing sent, get more of their request, and go.
LEMMA SocketTypes ==
  ASSUME Types
  PROVE  /\ \A c \in Users :
              LET s == Append(socket, [sender |-> c, sent |-> "nothing"]) IN
              /\ s \in Seq(Connections) /\ Len(s) = Len(socket) + 1
              /\ \A i \in 1..Len(socket) : s[i] = socket[i]
              /\ s[Len(s)].sender = c /\ s[Len(s)].sent = "nothing"
         /\ socket # <<>> =>
              /\ Tail(socket) \in Seq(Connections) /\ Len(Tail(socket)) = Len(socket) - 1
              /\ \A i \in 1..Len(Tail(socket)) : Tail(socket)[i] = socket[i + 1]
              /\ Head(socket) = socket[1] /\ 1 \in 1..Len(socket)
         /\ socket # <<>> => \A what \in {"size", "all", "short"} :
              LET s == [socket EXCEPT ![Len(socket)].sent = what] IN
              /\ s \in Seq(Connections) /\ Len(s) = Len(socket)
              /\ \A i \in 1..Len(socket) : s[i].sender = socket[i].sender
              /\ \A i \in 1..Len(socket) - 1 : s[i] = socket[i]
              /\ s[Len(s)].sent = what
<1>1. ASSUME NEW c \in Users
      PROVE  [sender |-> c, sent |-> "nothing"] \in Connections
  BY DEF Connections
<1>2. ASSUME NEW c \in Users
      PROVE  LET s == Append(socket, [sender |-> c, sent |-> "nothing"]) IN
             /\ s \in Seq(Connections) /\ Len(s) = Len(socket) + 1
             /\ \A i \in 1..Len(socket) : s[i] = socket[i]
             /\ s[Len(s)].sender = c /\ s[Len(s)].sent = "nothing"
  <2>. DEFINE e == [sender |-> c, sent |-> "nothing"]
              s == Append(socket, e)
  <2>1. e \in Connections
    BY <1>1
  <2>2. socket \in Seq(Connections)
    BY DEF Types
  <2>. HIDE DEF e
  <2>3. /\ s \in Seq(Connections) /\ Len(s) = Len(socket) + 1
        /\ \A i \in 1..Len(socket) : s[i] = socket[i]
        /\ s[Len(s)] = e
    BY <2>1, <2>2
  <2>. QED  BY <2>3 DEF e
<1>3. ASSUME socket # <<>>
      PROVE  /\ Tail(socket) \in Seq(Connections) /\ Len(Tail(socket)) = Len(socket) - 1
             /\ \A i \in 1..Len(Tail(socket)) : Tail(socket)[i] = socket[i + 1]
             /\ Head(socket) = socket[1] /\ 1 \in 1..Len(socket)
  BY <1>3 DEF Types
<1>4. ASSUME socket # <<>>, NEW what \in {"size", "all", "short"}
      PROVE  LET s == [socket EXCEPT ![Len(socket)].sent = what] IN
             /\ s \in Seq(Connections) /\ Len(s) = Len(socket)
             /\ \A i \in 1..Len(socket) : s[i].sender = socket[i].sender
             /\ \A i \in 1..Len(socket) - 1 : s[i] = socket[i]
             /\ s[Len(s)].sent = what
  <2>. DEFINE n == Len(socket)
              e == [socket[n] EXCEPT !.sent = what]
              s == [socket EXCEPT ![n] = e]
  <2>1. socket \in Seq(Connections) /\ n \in Nat /\ n \in 1..n
    BY <1>4 DEF Types
  <2>2. \A r \in Connections : /\ [r EXCEPT !.sent = what] \in Connections
                               /\ [r EXCEPT !.sent = what].sender = r.sender
                               /\ [r EXCEPT !.sent = what].sent = what
    BY DEF Connections
  <2>3. socket[n] \in Connections
    BY <2>1
  <2>4. e \in Connections /\ e.sender = socket[n].sender /\ e.sent = what
    BY <2>2, <2>3
  <2>. HIDE DEF e
  <2>5. /\ s \in Seq(Connections) /\ Len(s) = n /\ s[n] = e
        /\ \A i \in 1..n : i # n => s[i] = socket[i]
    BY <2>1, <2>4
  <2>. QED  BY <2>1, <2>4, <2>5 DEF e
<1>. QED  BY <1>2, <1>3, <1>4

\* The variables keep their types: each step of a client.
LEMMA ClientTypesKept ==
  ASSUME Types, Owned, NEW c \in Users,
         Activate(c) \/ Deactivate(c) \/ ClientStep(c) \/ Fails(c) \/ Crash(c)
  PROVE  Types'
<1>1. client' \in [Users -> ClientTypes]
  BY ClientSteps
<1>2. UNCHANGED <<server, search, steady>>
  BY DEF Activate, Deactivate, Crash, ClientStep, DirLock, DirNumber, MakeDir, SendLock, Connect,
     ConnectFails, Fails, DirFails, SendFails, SendSize, SendData, Send, SendClose, DeletePlugin
<1>3. DOMAIN dirs' \subseteq Dirs /\ dirs' \in [DOMAIN dirs' -> Users]
  <2>1. CASE MakeDir(c)
    <3>. client[c].dirname \in Dirs
      BY <2>1 DEF MakeDir, Types, ClientTypes
    <3>1. CASE client[c].dirname \in DOMAIN dirs
      <4>1. dirs' = dirs
        BY <2>1, <3>1 DEF MakeDir, Types
      <4>. QED  BY <4>1 DEF Types
    <3>2. CASE client[c].dirname \notin DOMAIN dirs
      BY <2>1, <3>2 DEF MakeDir, Types
    <3>. QED  BY <3>1, <3>2
  <2>2. CASE UNCHANGED dirs
    BY <2>2 DEF Types
  <2>. QED
    BY <2>1, <2>2 DEF Activate, Deactivate, Crash, ClientStep, DirLock, DirNumber, SendLock,
       Connect, ConnectFails, Fails, DirFails, SendFails, SendSize, SendData, Send, SendClose,
       DeletePlugin
<1>4. sendlock' \in Users \cup {"free"}
  BY DEF Types, locks, Activate, Deactivate, Crash, ClientStep, DirLock, DirNumber, MakeDir,
     SendLock, Connect, ConnectFails, Fails, DirFails, SendFails, SendSize, SendData, Send,
     SendClose, DeletePlugin
<1>5. socket' \in Seq(Connections)
  <2>1. CASE UNCHANGED socket
    BY <2>1 DEF Types
  <2>2. CASE Connect(c)
    BY <2>2, SocketTypes DEF Connect
  <2>3. CASE SendSize(c) \/ SendData(c)
    <3>1. \E what \in {"size", "all"} : socket' = [socket EXCEPT ![Len(socket)].sent = what]
      BY <2>3 DEF SendSize, SendData, Send
    <3>2. socket # <<>>
      BY <2>3 DEF Owned, OwnedBy, SendSize, SendData, Send, At
    <3>. QED  BY <3>1, <3>2, SocketTypes
  <2>4. CASE Fails(c) /\ socket' # socket
    <3>1. /\ socket' = [socket EXCEPT ![Len(socket)].sent = "short"]
          /\ client[c].at \in {"send_size", "send_data"}
      BY <2>4, FailsGoes
    <3>2. socket # <<>>
      BY <3>1 DEF Owned, OwnedBy
    <3>. QED  BY <3>1, <3>2, SocketTypes
  <2>. QED
    BY <2>1, <2>2, <2>3, <2>4 DEF Activate, Deactivate, Crash, ClientStep, DirLock, DirNumber,
       MakeDir,
       SendLock, ConnectFails, SendClose, DeletePlugin
<1>6. \A d \in Users : client'[d].at = "mkdir" => client'[d].dirname # 0
  <2>1. \A d \in Users : d # c => client'[d] = client[d]
    BY ClientSteps
  <2>2. client'[c].at = "mkdir" => client'[c].dirname # 0
    <3>1. CASE DirNumber(c)
      <4>1. PICK d \in Dirs : client' = [client EXCEPT ![c].at = "mkdir", ![c].dirname = d]
        BY <3>1 DEF DirNumber
      <4>. QED  BY <4>1, ZeroIsNoDir DEF Types, ClientTypes
    <3>2. CASE ~DirNumber(c)
      <4>1. client'[c].at # "mkdir"
        BY <3>2 DEF Types, ClientTypes, Activate, Deactivate, Crash, ClientStep, DirLock, MakeDir,
           SendLock, Connect, ConnectFails, Fails, DirFails, SendFails, SendSize, SendData,
           Send, SendClose, DeletePlugin, At
      <4>. QED  BY <4>1
    <3>. QED  BY <3>1, <3>2
  <2>. QED  BY <2>1, <2>2 DEF Types
<1>. QED  BY <1>1, <1>2, <1>3, <1>4, <1>5, <1>6 DEF Types, server, list, search

\* The same of a step the client takes together with the input thread.
LEMMA MeetTypesKept ==
  ASSUME Types, Served, NEW c \in Users, Meet(c) \/ MeetFails(c) \/ Answered(c)
  PROVE  Types'
<1>1. client' \in [Users -> ClientTypes]
  BY ClientSteps
<1>2. \A d \in Users : client'[d].at = "mkdir" => client'[d].dirname # 0
  <2>1. \A d \in Users : d # c => client'[d] = client[d]
    BY ClientSteps
  <2>2. client'[c].at # "mkdir"
    BY DEF Types, ClientTypes, Meet, MeetFails, Answered, Acknowledge, ListenFails, At
  <2>. QED  BY <2>1, <2>2 DEF Types
<1>3. input' \in InputTypes
  <2>1. \E to \in InputPCs : input' = [input EXCEPT !.at = to]
    BY DEF Meet, MeetFails, Answered, Acknowledge, ListenFails, InputAt, InputPCs
  <2>. QED  BY <2>1, InputMoves
<1>4. callers' \in SUBSET Dirs
  <2>1. CASE Meet(c)
    <3>1. input.dirname \in Dirs
      BY <2>1 DEF Types, Served, Meet, InputAt
    <3>. QED  BY <2>1, <3>1 DEF Meet, Types
  <2>. QED  BY <2>1 DEF MeetFails, Answered, Acknowledge, ListenFails, Types
<1>. QED  BY <1>1, <1>2, <1>3, <1>4 DEF Types, locks, list, search, Meet, MeetFails, Answered,
   Acknowledge, ListenFails

\* What the input thread does alone.
InputAlone ==
  \/ Setup \/ SetupFails \/ AcknowledgeFails \/ SetupRemove \/ Accept \/ Receive \/ ReceiveShort \/ Link \/ Publish
  \/ Unlink \/ DeleteCaller \/ MeetDead

\* The same of the input thread's own steps.
LEMMA InputTypesKept ==
  ASSUME Types, Served, InputAlone
  PROVE  Types'
<1>. UNCHANGED <<client, dirs, sendlock, pd>>
  BY DEF InputAlone, Setup, SetupFails, AcknowledgeFails, SetupRemove, Accept, Receive,
     ReceiveShort, Link, Publish, Unlink,
     DeleteCaller, MeetDead, locks, search
<1>1. input' \in InputTypes
  <2>1. CASE Receive
    <3>1. socket # <<>>
      BY <2>1 DEF Receive, Served
    <3>2. Head(socket).sender \in Users
      <4>1. Head(socket) \in Connections
        BY <3>1 DEF Types
      <4>. QED  BY <4>1 DEF Connections
    <3>3. client[Head(socket).sender] \in ClientTypes
      BY <3>2 DEF Types
    <3>. DEFINE c2j == client[Head(socket).sender]
    <3>4. c2j.reqtype \in {"new", "delete"} /\ c2j.dirname \in Dirs \cup {0}
      BY <3>3 DEF ClientTypes
    <3>5. \E at \in {"new", "unlink"} :
            input' = [at |-> at, reqtype |-> c2j.reqtype, dirname |-> c2j.dirname]
      BY <2>1 DEF Receive
    <3>6. "new" \in InputPCs /\ "unlink" \in InputPCs
      BY DEF InputPCs
    <3>. HIDE DEF c2j
    <3>. QED  BY <3>4, <3>5, <3>6 DEF InputTypes
  <2>2. CASE ~Receive
    <3>1. \E to \in InputPCs : input' = [input EXCEPT !.at = to]
      BY <2>2 DEF InputAlone, Setup, SetupFails, AcknowledgeFails, SetupRemove, Accept,
         ReceiveShort, Link, Publish, Unlink,
         DeleteCaller, MeetDead, InputAt, InputPCs
    <3>. QED  BY <3>1, InputMoves
  <2>. QED  BY <2>1, <2>2
<1>2. socket' \in Seq(Connections)
  <2>1. CASE Receive \/ ReceiveShort
    <3>1. socket # <<>>
      BY <2>1 DEF Receive, ReceiveShort, InputAt, Served
    <3>. QED  BY <2>1, <3>1, SocketTypes DEF Receive, ReceiveShort
  <2>. QED
    BY <2>1 DEF Types, InputAlone, Setup, SetupFails, AcknowledgeFails, SetupRemove, Accept,
       Link, Publish, Unlink,
       DeleteCaller, MeetDead
<1>3. root' \in Dirs \cup {0} /\ next' \in [Dirs -> Dirs \cup {0}]
  <2>1. input.dirname \in Dirs \cup {0}
    BY DEF Types, InputTypes
  <2>2. CASE Link
    BY <2>1, <2>2 DEF Link, Types
  <2>3. CASE Publish
    BY <2>1, <2>3 DEF Publish, Types
  <2>4. CASE Unlink
    <3>1. input.dirname \in Dirs
      BY <2>4 DEF Types, Served, Unlink, InputAt
    <3>2. next[input.dirname] \in Dirs \cup {0}
      BY <3>1 DEF Types
    <3>3. next' \in [Dirs -> Dirs \cup {0}]
      BY <2>4, <3>2 DEF Unlink, Types
    <3>4. root' \in Dirs \cup {0}
      BY <2>4, <3>2 DEF Unlink, Types
    <3>. QED  BY <3>3, <3>4
  <2>. QED
    BY <2>2, <2>3, <2>4 DEF Types, InputAlone, Setup, SetupFails, AcknowledgeFails, SetupRemove,
       Accept, Receive, ReceiveShort,
       DeleteCaller, MeetDead, list
<1>4. callers' \in SUBSET Dirs /\ steady' \in SUBSET Dirs
  BY DEF Types, InputAlone, Setup, SetupFails, AcknowledgeFails, SetupRemove, Accept, Receive,
     ReceiveShort, Link, Publish,
     Unlink, DeleteCaller, MeetDead
<1>. QED  BY <1>1, <1>2, <1>3, <1>4 DEF Types

\* What Pd's thread does.
PdStep == SearchStep \/ \E o \in Objects : NewObject(o)

\* The same of Pd's thread.
LEMMA PdTypesKept ==
  ASSUME Types, PdStep
  PROVE  Types'
<1>. UNCHANGED <<client, dirs, sendlock, socket, input, root, next, callers>>
  BY DEF PdStep, SearchStep, NewObject, SearchNext, SearchEnds, AddCaller, NoObject, locks,
     server, list
<1>1. steady' \in SUBSET Dirs
  BY DEF Types, PdStep, SearchStep, NewObject, SearchNext, SearchEnds, AddCaller, NoObject,
     Reachable, From
<1>2. pd' \in PdTypes
  <2>1. CASE SearchNext
    <3>1. next[pd.node] \in Dirs \cup {0}
      BY <2>1 DEF SearchNext, Types, PdTypes
    <3>2. pd' = [pd EXCEPT !.node = next[pd.node]]
      BY <2>1 DEF SearchNext
    <3>. QED  BY <3>1, <3>2 DEF Types, PdTypes
  <2>2. CASE SearchEnds
    <3>1. \E to \in {"found", "not_found"} : pd' = [pd EXCEPT !.at = to]
      BY <2>2 DEF SearchEnds, PdAt
    <3>. QED  BY <3>1 DEF Types, PdTypes
  <2>3. CASE AddCaller \/ NoObject
    BY <2>3 DEF AddCaller, NoObject, Idle, PdTypes
  <2>4. ASSUME NEW o \in Objects, NewObject(o)
        PROVE  pd' \in PdTypes
    <3>1. pd' = [at |-> "search", object |-> o, node |-> root] /\ root \in Dirs \cup {0}
      BY <2>4 DEF NewObject, Types
    <3>. QED  BY <3>1 DEF PdTypes
  <2>. QED  BY <2>1, <2>2, <2>3, <2>4 DEF PdStep, SearchStep
<1>. QED  BY <1>1, <1>2 DEF Types

\* Every step is one of these.
LEMMA Steps ==
  ASSUME [Next]_clientVars
  PROVE  \/ UNCHANGED clientVars
         \/ \E c \in Users : Activate(c) \/ Deactivate(c) \/ ClientStep(c) \/ Fails(c) \/ Crash(c)
         \/ \E c \in Users : Meet(c) \/ MeetFails(c) \/ Answered(c)
         \/ InputAlone
         \/ PdStep
BY DEF Next, InputStep, InputAlone, PdStep, Fails, Answered

\* The variables keep their types.
LEMMA TypesKept ==
  ASSUME Types, Owned, Served, [Next]_clientVars
  PROVE  Types'
<1>1. CASE UNCHANGED clientVars
  BY <1>1 DEF Types, clientVars, locks, server, list, search
<1>. QED
  BY <1>1, Steps, ClientTypesKept, MeetTypesKept, InputTypesKept, PdTypesKept

-----------------------------------------------------------------------------
(***************************************************************************)
(* Clients and requests.                                                   *)
(***************************************************************************)

\* Nobody removes a directory, and no number is given away twice.
LEMMA DirsGrow ==
  ASSUME Types, [Next]_clientVars
  PROVE  DOMAIN dirs \subseteq DOMAIN dirs' /\ \A d \in DOMAIN dirs : dirs'[d] = dirs[d]
<1>1. CASE UNCHANGED dirs
  BY <1>1
<1>2. ASSUME NEW c \in Users, MakeDir(c)
      PROVE  DOMAIN dirs \subseteq DOMAIN dirs' /\ \A d \in DOMAIN dirs : dirs'[d] = dirs[d]
  BY <1>2 DEF MakeDir
<1>. QED
  BY <1>1, <1>2 DEF Next, InputStep, SearchStep, ClientStep, clientVars, Activate, Deactivate,
     Crash, DirLock, DirNumber, SendLock, Connect, ConnectFails, Fails, DirFails, SendFails,
     SendSize, SendData, Send,
     SendClose, DeletePlugin, Setup, SetupFails, AcknowledgeFails, SetupRemove, Accept, Receive,
     ReceiveShort, Link, Publish,
     Unlink, DeleteCaller, MeetDead, Meet, MeetFails, Answered, Acknowledge, ListenFails,
     NewObject, SearchNext,
     SearchEnds, AddCaller, NoObject

\* A client that does nothing keeps its directory and what it has of a request.
LEMMA OthersOwnedKept ==
  ASSUME Types, Owned, [Next]_clientVars, NEW c \in Users, NEW e \in Users, e # c,
         Activate(c) \/ Deactivate(c) \/ ClientStep(c) \/ Fails(c) \/ Crash(c)
  PROVE  OwnedBy(e)'
<1>1. client'[e] = client[e]
  BY ClientSteps
<1>2. HasDir(e) => HasDir(e)'
  BY <1>1, DirsGrow DEF HasDir
<1>3. ASSUME sendlock = e
      PROVE  UNCHANGED <<sendlock, socket>>
  <2>1. client[c].at \notin {"connect", "send_size", "send_data", "close"} /\ sendlock # "free"
    BY <1>3, ClientsAssumption DEF Owned, OwnedBy
  <2>. QED
    BY <2>1 DEF locks, Activate, Deactivate, Crash, ClientStep, DirLock, DirNumber, MakeDir,
       SendLock, Connect, ConnectFails, Fails, DirFails, SendFails, SendSize, SendData, Send,
       SendClose, DeletePlugin, At
<1>4. OwnedBy(e)
  BY DEF Owned
<1>. QED  BY <1>1, <1>2, <1>3, <1>4 DEF OwnedBy, Settled, Coming, Leaving

\* The client's own steps.
LEMMA OwnOwnedKept ==
  ASSUME Types, Types', Owned, [Next]_clientVars, NEW c \in Users,
         Activate(c) \/ Deactivate(c) \/ ClientStep(c) \/ Fails(c) \/ Crash(c)
  PROVE  OwnedBy(c)'
<1>. USE DEF OwnedBy, Settled, Coming, Leaving, Sending
<1>1. OwnedBy(c) /\ client[c] \in ClientTypes /\ client'[c] \in ClientTypes
  BY DEF Owned, Types
<1>2. HasDir(c) /\ client'[c].dirname = client[c].dirname => HasDir(c)'
  BY DirsGrow DEF HasDir
<1>3. CASE Activate(c) \/ DirLock(c) \/ DirNumber(c)
  <2>1. client'[c].at \in {"dir_lock", "dir_number", "mkdir"}
    BY <1>3 DEF Types, ClientTypes, Activate, DirLock, DirNumber, At
  <2>. QED  BY <2>1
<1>4. CASE MakeDir(c)
  <2>1. /\ client'[c].at \in {"out", "send_lock"} /\ client'[c].dirname = client[c].dirname
        /\ client'[c].reqtype = client[c].reqtype
    BY <1>4 DEF Types, ClientTypes, MakeDir
  <2>2. client'[c].at = "send_lock" => HasDir(c)'
    BY <1>4, <2>1 DEF MakeDir, HasDir, Types, ClientTypes
  <2>. QED  BY <2>1, <2>2, <1>1 DEF ClientTypes
<1>5. CASE Deactivate(c)
  <2>1. /\ client'[c].at = "send_lock" /\ client'[c].dirname = client[c].dirname
        /\ client'[c].reqtype = "delete"
    BY <1>5 DEF Types, ClientTypes, Deactivate
  <2>. QED  BY <1>1, <1>2, <1>5, <2>1 DEF Deactivate
<1>6. CASE SendLock(c) \/ ConnectFails(c) \/ SendClose(c) \/ DeletePlugin(c) \/ Crash(c)
  <2>1. client'[c].reqtype = client[c].reqtype /\ client'[c].dirname = client[c].dirname
    <3>1. \E to \in ClientPCs : client' = [client EXCEPT ![c].at = to]
      BY <1>6 DEF SendLock, ConnectFails, Fails, DirFails, SendFails, SendClose, DeletePlugin,
         Crash, At, ClientPCs
    <3>. QED  BY <3>1, ClientMoves
  <2>2. \/ client[c].at = "send_lock" /\ client'[c].at = "connect" /\ sendlock' = c
        \/ client'[c].at = "out"
        \/ client[c].at = "connect" /\ client[c].reqtype # "new" /\ client'[c].at = "delete"
        \/ client[c].at = "close" /\ client[c].reqtype # "new" /\ client'[c].at = "delete"
        \/ client[c].at = "close" /\ client[c].reqtype = "new" /\ client'[c].at = "plugin"
        \/ client[c].at = "delete" /\ client'[c].at = "receive"
        \/ client'[c].at = "dead"
    BY <1>6 DEF Types, ClientTypes, SendLock, ConnectFails, Fails, DirFails, SendFails,
       SendClose, DeletePlugin, Crash, At
  <2>. QED  BY <1>1, <1>2, <2>1, <2>2 DEF ClientTypes
<1>7. CASE Connect(c) \/ SendSize(c) \/ SendData(c)
  <2>1. client'[c].reqtype = client[c].reqtype /\ client'[c].dirname = client[c].dirname
    BY <1>7, ClientSteps DEF ClientStep, Activate, Deactivate, DirNumber, Connect, SendSize,
       SendData, Send, At
  <2>2. /\ client[c].at \in {"connect", "send_size", "send_data"} /\ sendlock' = sendlock
        /\ client'[c].at \in {"send_size", "send_data", "close"}
    BY <1>7 DEF Types, ClientTypes, Connect, SendSize, SendData, Send, At, locks
  <2>3. socket' # <<>> /\ socket'[Len(socket')].sender = c /\ socket'[Len(socket')].sent # "short"
    <3>1. CASE Connect(c)
      BY <3>1, SocketTypes DEF Connect
    <3>2. CASE SendSize(c) \/ SendData(c)
      <4>1. PICK what \in {"size", "all"} : socket' = [socket EXCEPT ![Len(socket)].sent = what]
        BY <3>2 DEF SendSize, SendData, Send
      <4>2. socket # <<>> /\ socket[Len(socket)].sender = c
        BY <1>1, <3>2 DEF SendSize, SendData, Send, At
      <4>3. /\ Len(socket') = Len(socket) /\ socket'[Len(socket)].sender = socket[Len(socket)].sender
            /\ socket'[Len(socket')].sent = what
        BY <4>1, <4>2, SocketTypes DEF Types
      <4>. QED  BY <4>2, <4>3 DEF Types
    <3>. QED  BY <1>7, <3>1, <3>2
  <2>. QED  BY <1>1, <1>2, <2>1, <2>2, <2>3
<1>8. CASE Fails(c)
  <2>1. client'[c].reqtype = client[c].reqtype /\ client'[c].dirname = client[c].dirname
    BY <1>8, FailsGoes, ClientMoves
  <2>2. \/ client'[c].at = "out"
        \/ /\ client[c].at \in {"send_lock", "connect", "send_size", "send_data"}
           /\ client[c].reqtype # "new" /\ client'[c].at = "delete"
    BY <1>8, FailsGoes DEF Types, ClientTypes
  <2>. QED  BY <1>1, <1>2, <2>1, <2>2 DEF ClientTypes
<1>. QED  BY <1>3, <1>4, <1>5, <1>6, <1>7, <1>8 DEF ClientStep

\* The steps of the server leave the clients what they have.
LEMMA ServerOwnedKept ==
  ASSUME Types, Types', Owned, Requested, Served, [Next]_clientVars,
         \/ \E c \in Users : Meet(c) \/ MeetFails(c) \/ Answered(c)
         \/ InputAlone \/ PdStep
  PROVE  Owned'
<1>. SUFFICES ASSUME NEW e \in Users PROVE OwnedBy(e)'
  BY DEF Owned
<1>1. OwnedBy(e) /\ UNCHANGED sendlock
  BY DEF Owned, Meet, MeetFails, Answered, Acknowledge, ListenFails, locks, InputAlone, Setup,
     SetupFails, AcknowledgeFails, SetupRemove, Accept,
     Receive, ReceiveShort, Link, Publish, Unlink, DeleteCaller, MeetDead, PdStep, SearchStep,
     NewObject, SearchNext, SearchEnds, AddCaller, NoObject
<1>2. CASE UNCHANGED client
  <2>1. HasDir(e) => HasDir(e)'
    BY <1>2, DirsGrow DEF HasDir
  <2>2. ASSUME client[e].at \in {"send_size", "send_data"}
        PROVE  /\ socket' # <<>> /\ socket'[Len(socket')].sender = e
               /\ socket'[Len(socket')].sent # "short"
    <3>1. socket # <<>> /\ socket[Len(socket)].sender = e /\ socket[Len(socket)].sent # "short"
      BY <1>1, <2>2 DEF OwnedBy
    <3>2. CASE UNCHANGED socket
      BY <3>1, <3>2
    <3>3. CASE Receive \/ ReceiveShort
      <4>1. socket' = Tail(socket)
        BY <3>3 DEF Receive, ReceiveShort
      <4>2. Head(socket).sender # e \/ Head(socket).sent = "short"
        <5>1. Head(socket).sent = "short" \/ SentBy(Head(socket).sender, Head(socket).sent)
          BY <3>1, SocketTypes DEF Requested
        <5>. QED  BY <2>2, <3>3, <5>1 DEF Receive, ReceiveShort, SentBy
      <4>3. Len(socket) # 1
        BY <3>1, <4>2, SocketTypes
      <4>4. Len(socket) \in Nat /\ Len(socket) > 1
        <5>1. Len(socket) \in Nat /\ 1 \in 1..Len(socket)
          BY <3>1, SocketTypes DEF Types
        <5>. QED  BY <4>3, <5>1
      <4>5. Len(socket') = Len(socket) - 1 /\ socket'[Len(socket')] = socket[Len(socket)]
        BY <3>1, <4>1, <4>4, SocketTypes
      <4>. QED  BY <3>1, <4>4, <4>5 DEF Types
    <3>. QED
      <4>1. InputAlone \/ PdStep => UNCHANGED socket \/ Receive \/ ReceiveShort
        BY DEF InputAlone, Setup, SetupFails, AcknowledgeFails, SetupRemove, Accept, Link, Publish,
           Unlink, DeleteCaller, MeetDead, PdStep, SearchStep, NewObject, SearchNext, SearchEnds,
           AddCaller, NoObject
      <4>. QED  BY <3>2, <3>3, <4>1, WaitGoes
  <2>. QED  BY <1>1, <1>2, <2>1, <2>2 DEF OwnedBy, Settled, Coming, Leaving
<1>3. ASSUME NEW c \in Users, Meet(c) \/ MeetFails(c) \/ Answered(c)
      PROVE  OwnedBy(e)'
  <2>1. /\ client'[c].dirname = client[c].dirname
        /\ e # c => client'[e] = client[e]
    <3>1. {"out", "active", "waits"} \subseteq ClientPCs
      BY DEF ClientPCs
    <3>. QED  BY <1>3, <3>1, WaitGoes, ClientMoves
  <2>2. /\ client[c].at \in {"plugin", "receive"}
        /\ client'[c].at \in {"active", "out"} \/ (client'[c].at = "waits" /\ client[c].at = "plugin")
    <3>1. client[c].at \in {"plugin", "receive"} /\ client'[c].at \in {"active", "out", "waits"}
      BY <1>3, WaitGoes DEF Types, ClientTypes
    <3>2. Answered(c) => client'[c].at = "out"
      BY DEF Answered, Acknowledge, ListenFails, At, Types, ClientTypes
    <3>3. Meet(c) \/ MeetFails(c) => client[c].at = "plugin"
      BY DEF Meet, MeetFails, At
    <3>. QED  BY <1>3, <3>1, <3>2, <3>3
  <2>3. UNCHANGED socket
    BY <1>3, WaitGoes
  <2>4. HasDir(e) => HasDir(e)'
    BY <2>1, DirsGrow DEF HasDir
  <2>5. client'[c].reqtype = client[c].reqtype
    BY <1>3, ClientSteps DEF Activate, Deactivate, Meet, MeetFails, Answered, Acknowledge,
       ListenFails, At
  <2>. QED  BY <1>1, <2>1, <2>2, <2>3, <2>4, <2>5 DEF OwnedBy, Settled, Coming, Leaving, Sending
<1>. QED
  BY <1>2, <1>3 DEF InputAlone, Setup, SetupFails, AcknowledgeFails, SetupRemove, Accept,
     Receive, ReceiveShort, Link, Publish,
     Unlink, DeleteCaller, MeetDead, PdStep, SearchStep, NewObject, SearchNext, SearchEnds,
     AddCaller, NoObject

\* Each client keeps its directory and, while it sends, the lock file.
LEMMA OwnedKept ==
  ASSUME Types, Types', Owned, Requested, Served, [Next]_clientVars
  PROVE  Owned'
<1>1. CASE UNCHANGED clientVars
  BY <1>1 DEF clientVars, locks, Owned, OwnedBy, HasDir, Settled, Coming, Leaving
<1>. QED
  BY <1>1, Steps, OthersOwnedKept, OwnOwnedKept, ServerOwnedKept DEF Owned

\* Connections are those of clients.
LEMMA SendersAreClients ==
  ASSUME Types, NEW i \in 1..Len(socket)
  PROVE  socket[i].sender \in Users
<1>1. socket[i] \in Connections
  BY DEF Types
<1>. QED  BY <1>1 DEF Connections

\* The server waits for the client whose directory is that of the request.
LEMMA OwnerIsClient ==
  ASSUME Types, Owned, NEW c \in Users, Meet(c) \/ MeetFails(c) \/ Answered(c)
  PROVE  HasDir(c) /\ Owner = c
<1>1. client[c].at \in {"plugin", "receive"} /\ client[c].dirname = input.dirname
  BY DEF Meet, MeetFails, Answered, Acknowledge, ListenFails, At
<1>. QED  BY <1>1 DEF Owned, OwnedBy, Settled, HasDir, Owner

\* A client that is in a connection keeps its directory, and goes on with its request.
LEMMA SenderKept ==
  ASSUME Types, Types', Owned, Requested, Served, [Next]_clientVars, UNCHANGED socket,
         NEW i \in 1..Len(socket), NEW e, NEW sent, e = socket[i].sender, sent = socket[i].sent,
         sent # "short"
  PROVE  HasDir(e)' /\ SentBy(e, sent)'
<1>. e \in Users
  BY SendersAreClients
<1>1. HasDir(e) /\ SentBy(e, sent)
  BY DEF Requested
<1>2. client'[e].dirname = client[e].dirname /\ SentBy(e, sent)'
  <2>1. CASE client'[e] = client[e]
    BY <1>1, <2>1 DEF SentBy
  <2>2. CASE Activate(e) \/ Deactivate(e)
    BY <1>1, <2>2 DEF SentBy, Activate, Deactivate
  <2>3. CASE ClientStep(e) \/ Fails(e) \/ Crash(e)
    <3>1. \/ client[e].at = "close" /\ client'[e].at \in {"plugin", "delete"}
          \/ client[e].at = "delete" /\ client'[e].at = "receive"
          \/ client'[e].at = "dead"
          \/ SendSize(e) \/ SendData(e)
          \/ Fails(e) /\ socket' = [socket EXCEPT ![Len(socket)].sent = "short"]
             /\ client[e].at \in {"send_size", "send_data"}
      <4>1. client[e].at \in {"dead", "send_size", "send_data", "close", "plugin", "delete", "receive"}
        BY <1>1 DEF SentBy
      <4>0. CASE Fails(e)
        BY <4>0, <4>1, FailsGoes
      <4>2. ~Fails(e) => SendClose(e) \/ DeletePlugin(e) \/ Crash(e) \/ SendSize(e) \/ SendData(e)
        BY <2>3, <4>1 DEF ClientStep, DirLock, DirNumber, MakeDir, SendLock, Connect,
           ConnectFails, At
      <4>. QED  BY <4>0, <4>2 DEF Types, ClientTypes, SendClose, DeletePlugin, Crash, At
    <3>0. \/ client[e].at = "close" /\ client'[e].at \in {"plugin", "delete"}
          \/ client[e].at = "delete" /\ client'[e].at = "receive"
          \/ client'[e].at = "dead"
          \/ SendSize(e) \/ SendData(e)
      <4>1. ASSUME socket' = [socket EXCEPT ![Len(socket)].sent = "short"],
                   client[e].at \in {"send_size", "send_data"}
            PROVE  FALSE
        <5>1. socket # <<>> /\ socket[Len(socket)].sent # "short"
          BY <4>1 DEF Owned, OwnedBy
        <5>2. socket'[Len(socket')].sent = "short"
          BY <4>1, <5>1, SocketTypes
        <5>. QED  BY <5>1, <5>2
      <4>. QED  BY <3>1, <4>1
    <3>2. ~SendSize(e) /\ ~SendData(e)
      <4>1. ASSUME SendSize(e) \/ SendData(e)
            PROVE  FALSE
        <5>1. PICK what \in {"size", "all"} :
                /\ socket' = [socket EXCEPT ![Len(socket)].sent = what]
                /\ \/ what = "size" /\ client[e].at = "send_size"
                   \/ what = "all" /\ client[e].at = "send_data"
          BY <4>1 DEF SendSize, SendData, Send, At
        <5>3. socket # <<>> /\ socket[Len(socket)].sender = e
          BY <5>1 DEF Owned, OwnedBy
        <5>4. Len(socket) \in 1..Len(socket) /\ socket[Len(socket)].sent = what
          <6>1. Len(socket) \in Nat /\ 1 \in 1..Len(socket)
            BY <5>3, SocketTypes DEF Types
          <6>2. what \in {"size", "all", "short"}
            OBVIOUS
          <6>3. socket'[Len(socket')].sent = what
            BY <5>1, <5>3, <6>2, SocketTypes
          <6>. QED  BY <6>1, <6>3
        <5>5. SentBy(e, what)
          BY <5>1, <5>3, <5>4 DEF Requested
        <5>. QED  BY <5>1, <5>5 DEF SentBy
      <4>. QED  BY <4>1
    <3>3. client'[e].dirname = client[e].dirname
      <4>1. ~Activate(e) /\ ~DirNumber(e)
        BY <1>1, <3>0, <3>2 DEF SentBy, Activate, DirNumber
      <4>. QED  BY <2>3, <4>1, ClientSteps
    <3>. QED  BY <1>1, <3>0, <3>2, <3>3 DEF SentBy
  <2>4. CASE Meet(e) \/ MeetFails(e) \/ Answered(e)
    <3>1. Heard /\ Owner = e
      BY <2>4, OwnerIsClient DEF Served, Meet, MeetFails, Answered, Acknowledge, ListenFails,
         InputAt
    <3>. QED  BY <3>1 DEF Heard
  <2>5. ASSUME NEW c \in Users, c # e,
               \/ Activate(c) \/ Deactivate(c) \/ ClientStep(c) \/ Fails(c) \/ Crash(c)
               \/ Meet(c) \/ MeetFails(c) \/ Answered(c)
        PROVE  client'[e] = client[e]
    BY <2>5, ClientSteps
  <2>6. CASE UNCHANGED client
    BY <2>1, <2>6
  <2>7. InputAlone \/ PdStep \/ UNCHANGED clientVars => UNCHANGED client
    BY DEF InputAlone, Setup, SetupFails, AcknowledgeFails, SetupRemove, Accept, Receive,
       ReceiveShort, Link, Publish,
       Unlink, DeleteCaller, MeetDead, PdStep, SearchStep, NewObject, SearchNext, SearchEnds,
       AddCaller, NoObject, clientVars
  <2>. QED  BY <2>1, <2>2, <2>3, <2>4, <2>5, <2>6, <2>7, Steps
<1>3. HasDir(e)'
  BY <1>1, <1>2, DirsGrow DEF HasDir
<1>. QED  BY <1>2, <1>3

\* Requested, connection by connection.
LEMMA RequestedAgain ==
  ASSUME \A i \in 1..Len(socket') : \A e, sent :
           e = socket'[i].sender /\ sent = socket'[i].sent /\ sent # "short" =>
             HasDir(e)' /\ SentBy(e, sent)',
         \A i, j \in 1..Len(socket') :
           i # j /\ socket'[i].sent # "short" /\ socket'[j].sent # "short" =>
             socket'[i].sender # socket'[j].sender
  PROVE  Requested'
BY DEF Requested, HasDir, SentBy

\* The requests on their way are those of clients that have sent them as far, and
\* not yet got an answer.
LEMMA RequestedKept ==
  ASSUME Types, Types', Owned, Requested, Served, [Next]_clientVars
  PROVE  Requested'
<1>1. CASE UNCHANGED socket
  <2>1. \A i \in 1..Len(socket) : \A e, sent :
          e = socket[i].sender /\ sent = socket[i].sent /\ sent # "short" =>
            HasDir(e)' /\ SentBy(e, sent)'
    BY <1>1, SenderKept
  <2>2. \A i, j \in 1..Len(socket) :
          i # j /\ socket[i].sent # "short" /\ socket[j].sent # "short" =>
            socket[i].sender # socket[j].sender
    BY DEF Requested
  <2>. QED  BY <1>1, <2>1, <2>2, RequestedAgain
<1>2. ASSUME NEW c \in Users, Connect(c) \/ SendSize(c) \/ SendData(c)
      PROVE  Requested'
  <2>1. /\ HasDir(c)'
        /\ \A e \in Users : e # c => client'[e] = client[e] /\ (HasDir(e) => HasDir(e)')
    <3>1. Connect(c) \/ SendSize(c) \/ SendData(c) => ClientStep(c)
      BY DEF ClientStep
    <3>2. \A e \in Users : e # c => client'[e] = client[e]
      BY <1>2, <3>1, ClientSteps
    <3>3. HasDir(c) /\ client'[c].dirname = client[c].dirname
      <4>1. \E to \in ClientPCs : client' = [client EXCEPT ![c].at = to]
        BY <1>2 DEF Connect, SendSize, SendData, Send, At, ClientPCs, Sending
      <4>. QED
        BY <1>2, <4>1, ClientMoves DEF Owned, OwnedBy, Settled, Connect, SendSize, SendData,
           Send, At
    <3>. QED  BY <3>2, <3>3, DirsGrow DEF HasDir
  <2>2. CASE Connect(c)
    <3>1. /\ Len(socket') = Len(socket) + 1 /\ Len(socket) \in Nat
          /\ \A i \in 1..Len(socket) : socket'[i] = socket[i]
          /\ socket'[Len(socket) + 1].sender = c /\ socket'[Len(socket) + 1].sent = "nothing"
      BY <2>2, SocketTypes DEF Connect, Types
    <3>2. \A i \in 1..Len(socket) : /\ socket[i].sender \in Users
                                    /\ socket[i].sent # "short" => socket[i].sender # c
      <4>1. \A i \in 1..Len(socket) : socket[i].sender \in Users
        BY SendersAreClients
      <4>. QED  BY <2>2, <4>1 DEF Requested, SentBy, Connect, At
    <3>3. client'[c].at = "send_size"
      BY <2>2 DEF Connect, At, Types, ClientTypes
    <3>4. \A i \in 1..Len(socket') : i \in 1..Len(socket) \/ i = Len(socket) + 1
      BY <3>1
    <3>5. ASSUME NEW i \in 1..Len(socket'), NEW e, NEW sent,
                 e = socket'[i].sender, sent = socket'[i].sent, sent # "short"
          PROVE  HasDir(e)' /\ SentBy(e, sent)'
      <4>1. CASE i = Len(socket) + 1
        BY <2>1, <3>1, <3>3, <3>5, <4>1 DEF SentBy
      <4>2. CASE i \in 1..Len(socket)
        <5>2. e = socket[i].sender /\ sent = socket[i].sent /\ socket[i].sent # "short"
          BY <3>1, <3>5, <4>2
        <5>1. e = socket[i].sender /\ sent = socket[i].sent /\ e \in Users /\ e # c
          BY <3>2, <4>2, <5>2
        <5>. QED  BY <2>1, <3>5, <4>2, <5>1 DEF Requested, SentBy
      <4>. QED  BY <3>4, <4>1, <4>2
    <3>6. \A i, j \in 1..Len(socket') :
            i # j /\ socket'[i].sent # "short" /\ socket'[j].sent # "short" =>
              socket'[i].sender # socket'[j].sender
      BY <3>1, <3>2, <3>4 DEF Requested
    <3>. QED  BY <3>5, <3>6, RequestedAgain
  <2>3. CASE SendSize(c) \/ SendData(c)
    <3>. DEFINE n == Len(socket)
    <3>1. socket # <<>> /\ socket[n].sender = c /\ socket[n].sent # "short"
      BY <2>3 DEF Owned, OwnedBy, SendSize, SendData, Send, At
    <3>2. n \in Nat /\ n \in 1..n
      <4>1. n \in Nat /\ 1 \in 1..n
        BY <3>1, SocketTypes DEF Types
      <4>. QED  BY <4>1
    <3>3. \/ client'[c].at = "send_data" /\ socket' = [socket EXCEPT ![n].sent = "size"]
          \/ client'[c].at = "close" /\ socket' = [socket EXCEPT ![n].sent = "all"]
      BY <2>3 DEF SendSize, SendData, Send, At, Types, ClientTypes
    <3>4. /\ Len(socket') = n
          /\ \A i \in 1..n : socket'[i].sender = socket[i].sender
          /\ \A i \in 1..n - 1 : socket'[i] = socket[i]
          /\ \A sent : sent = socket'[n].sent => SentBy(c, sent)'
      <4>1. PICK what \in {"size", "all"} :
              /\ socket' = [socket EXCEPT ![n].sent = what]
              /\ SentBy(c, what)'
        BY <3>3 DEF SentBy
      <4>3. what \in {"size", "all", "short"}
        OBVIOUS
      <4>2. /\ Len(socket') = n
            /\ \A i \in 1..n : socket'[i].sender = socket[i].sender
            /\ \A i \in 1..n - 1 : socket'[i] = socket[i]
            /\ socket'[n].sent = what
        BY <3>1, <4>1, <4>3, SocketTypes
      <4>. QED  BY <4>1, <4>2
    <3>5. \A i \in 1..n - 1 : /\ socket[i].sender \in Users
                              /\ socket[i].sent # "short" => socket[i].sender # c
      <4>1. \A i \in 1..n : socket[i].sender \in Users
        BY SendersAreClients
      <4>. QED  BY <3>1, <3>2, <4>1 DEF Requested
    <3>6. \A i \in 1..n : i \in 1..n - 1 \/ i = n
      BY <3>2
    <3>7. ASSUME NEW i \in 1..n, NEW e, NEW sent,
                 e = socket'[i].sender, sent = socket'[i].sent, sent # "short"
          PROVE  HasDir(e)' /\ SentBy(e, sent)'
      <4>1. CASE i = n
        BY <2>1, <3>1, <3>4, <3>7, <4>1
      <4>2. CASE i \in 1..n - 1
        <5>3. e = socket[i].sender /\ sent = socket[i].sent /\ socket[i].sent # "short"
          BY <3>4, <3>7, <4>2
        <5>1. e = socket[i].sender /\ sent = socket[i].sent /\ e \in Users /\ e # c
          BY <3>5, <4>2, <5>3
        <5>2. HasDir(e) /\ SentBy(e, sent)
          BY <3>7, <5>1 DEF Requested
        <5>. QED  BY <2>1, <5>1, <5>2 DEF SentBy
      <4>. QED  BY <3>6, <4>1, <4>2
    <3>8. \A i, j \in 1..n :
            i # j /\ socket'[i].sent # "short" /\ socket'[j].sent # "short" =>
              socket'[i].sender # socket'[j].sender
      <4>1. \A i \in 1..n : socket'[i].sent # "short" => socket[i].sent # "short"
        BY <3>1, <3>4, <3>6
      <4>. QED  BY <3>4, <4>1 DEF Requested
    <3>. QED  BY <3>4, <3>7, <3>8, RequestedAgain
  <2>. QED  BY <1>2, <2>2, <2>3
<1>3. CASE Receive \/ ReceiveShort
  <2>1. socket' = Tail(socket) /\ UNCHANGED <<client, dirs>> /\ socket # <<>>
    BY <1>3 DEF Receive, ReceiveShort, InputAt, Served
  <2>2. /\ Len(socket') = Len(socket) - 1 /\ Len(socket) \in Nat
        /\ \A i \in 1..Len(socket') : socket'[i] = socket[i + 1]
    BY <2>1, SocketTypes DEF Types
  <2>3. \A i \in 1..Len(socket') : i + 1 \in 1..Len(socket)
    BY <2>2
  <2>4. ASSUME NEW i \in 1..Len(socket'), NEW e, NEW sent,
               e = socket'[i].sender, sent = socket'[i].sent, sent # "short"
        PROVE  HasDir(e)' /\ SentBy(e, sent)'
    <3>1. HasDir(e) /\ SentBy(e, sent)
      BY <2>2, <2>3, <2>4 DEF Requested
    <3>. QED  BY <2>1, <3>1 DEF HasDir, SentBy
  <2>5. \A i, j \in 1..Len(socket') : i # j => i + 1 # j + 1
    OBVIOUS
  <2>6. \A i, j \in 1..Len(socket') :
          i # j /\ socket'[i].sent # "short" /\ socket'[j].sent # "short" =>
            socket'[i].sender # socket'[j].sender
    BY <2>2, <2>3, <2>5 DEF Requested
  <2>. QED  BY <2>4, <2>6, RequestedAgain
<1>4. ASSUME NEW c \in Users, Fails(c), socket' # socket
      PROVE  Requested'
  <2>. DEFINE n == Len(socket)
  <2>1. /\ client[c].at \in {"send_size", "send_data"}
        /\ socket' = [socket EXCEPT ![n].sent = "short"] /\ UNCHANGED dirs
    BY <1>4, FailsGoes
  <2>2. socket # <<>> /\ socket[n].sender = c /\ socket[n].sent # "short"
    BY <2>1 DEF Owned, OwnedBy
  <2>3. n \in Nat /\ n \in 1..n
    <3>1. n \in Nat /\ 1 \in 1..n
      BY <2>2, SocketTypes DEF Types
    <3>. QED  BY <3>1
  <2>4. /\ Len(socket') = n /\ \A i \in 1..n - 1 : socket'[i] = socket[i]
        /\ socket'[n].sent = "short"
    BY <2>1, <2>2, SocketTypes
  <2>5. \A i \in 1..n : i \in 1..n - 1 \/ i = n
    BY <2>3
  <2>6. \A i \in 1..n : socket'[i].sent # "short" =>
          socket'[i] = socket[i] /\ socket[i].sent # "short" /\ i # n
    BY <2>4, <2>5
  <2>7. \A e \in Users : e # c => client'[e] = client[e]
    BY <1>4, ClientSteps
  <2>8. ASSUME NEW i \in 1..n, NEW e, NEW sent,
               e = socket'[i].sender, sent = socket'[i].sent, sent # "short"
        PROVE  HasDir(e)' /\ SentBy(e, sent)'
    <3>1. e = socket[i].sender /\ sent = socket[i].sent /\ i # n
      BY <2>6, <2>8
    <3>2. e \in Users /\ e # c
      BY <2>2, <2>3, <2>8, <3>1, SendersAreClients DEF Requested
    <3>. QED  BY <2>1, <2>7, <2>8, <3>1, <3>2 DEF Requested, HasDir, SentBy
  <2>9. \A i, j \in 1..n :
          i # j /\ socket'[i].sent # "short" /\ socket'[j].sent # "short" =>
            socket'[i].sender # socket'[j].sender
    BY <2>6 DEF Requested
  <2>. QED  BY <2>4, <2>8, <2>9, RequestedAgain
<1>5. InputAlone \/ PdStep => UNCHANGED socket \/ Receive \/ ReceiveShort
  BY DEF InputAlone, Setup, SetupFails, AcknowledgeFails, SetupRemove, Accept, Link, Publish,
     Unlink, DeleteCaller, MeetDead, PdStep, SearchStep, NewObject, SearchNext, SearchEnds,
     AddCaller, NoObject
<1>6. ASSUME NEW c \in Users, Activate(c) \/ Deactivate(c) \/ ClientStep(c) \/ Crash(c)
      PROVE  UNCHANGED socket \/ Connect(c) \/ SendSize(c) \/ SendData(c)
  BY <1>6 DEF Activate, Deactivate, Crash, ClientStep, DirLock, DirNumber, MakeDir, SendLock,
     ConnectFails, SendClose, DeletePlugin
<1>7. UNCHANGED clientVars => UNCHANGED socket
  BY DEF clientVars
<1>. QED
  BY <1>1, <1>2, <1>3, <1>4, <1>5, <1>6, <1>7, Steps, WaitGoes

\* A client that adds a connection has no other.
LEMMA HeardKept ==
  ASSUME Types, Owned, [Next]_clientVars, NEW o, Types',
         \A i \in 1..Len(socket) : socket[i].sent # "short" => socket[i].sender # o,
         NEW c \in Users, Activate(c) \/ Deactivate(c) \/ ClientStep(c) \/ Fails(c) \/ Crash(c),
         c = o => client[c].at # "connect"
  PROVE  \A i \in 1..Len(socket') : socket'[i].sent # "short" => socket'[i].sender # o
<1>1. CASE UNCHANGED socket
  BY <1>1
<1>2. CASE Connect(c)
  <2>1. /\ Len(socket') = Len(socket) + 1 /\ Len(socket) \in Nat
        /\ \A i \in 1..Len(socket) : socket'[i] = socket[i]
        /\ socket'[Len(socket')].sender = c
    BY <1>2, SocketTypes DEF Connect, Types
  <2>2. \A i \in 1..Len(socket') : i \in 1..Len(socket) \/ i = Len(socket')
    BY <2>1
  <2>3. c # o
    BY <1>2 DEF Connect, At
  <2>. QED  BY <2>1, <2>2, <2>3
<1>3. CASE SendSize(c) \/ SendData(c) \/ (Fails(c) /\ socket' # socket)
  <2>. DEFINE n == Len(socket)
  <2>1. client[c].at \in {"send_size", "send_data"}
    BY <1>3, FailsGoes DEF SendSize, SendData, Send, At
  <2>2. socket # <<>> /\ socket[n].sent # "short"
    BY <2>1 DEF Owned, OwnedBy
  <2>3. PICK what \in {"size", "all", "short"} : socket' = [socket EXCEPT ![n].sent = what]
    BY <1>3, FailsGoes DEF SendSize, SendData, Send
  <2>4. /\ Len(socket') = n /\ \A i \in 1..n : socket'[i].sender = socket[i].sender
        /\ \A i \in 1..n - 1 : socket'[i] = socket[i]
    BY <2>2, <2>3, SocketTypes
  <2>5. \A i \in 1..n : i \in 1..n - 1 \/ i = n
    BY DEF Types
  <2>. QED  BY <2>2, <2>4, <2>5
<1>. QED
  BY <1>1, <1>2, <1>3 DEF Activate, Deactivate, Crash, ClientStep, DirLock, DirNumber, MakeDir,
     SendLock, ConnectFails, SendClose, DeletePlugin

\* Where a client can get to in one step of its own, once it has a directory.
Goes(o) ==
  /\ client'[o].dirname = client[o].dirname
  /\ client'[o].reqtype = client[o].reqtype \/ client[o].at = "active"
  /\ \/ client'[o].at = "dead"
     \/ client[o].at = "active" /\ client'[o].at = "send_lock" /\ client'[o].reqtype = "delete"
     \/ client[o].at = "close" /\ client[o].reqtype = "new" /\ client'[o].at = "plugin"
     \/ client[o].at = "close" /\ client[o].reqtype # "new" /\ client'[o].at = "delete"
     \/ client[o].at = "delete" /\ client'[o].at = "receive"
     \/ /\ client[o].at \in Sending \ {"close"}
        /\ client'[o].at = IF client[o].reqtype = "new" THEN "out" ELSE "delete"
     \/ client[o].at \in Sending \ {"close"} /\ client'[o].at \in Sending \ {"send_lock"}

\* A client that has a directory keeps it, and what it wants, until it is out.
LEMMA ClientGoes ==
  ASSUME Types, NEW o \in Users,
  Activate(o) \/ Deactivate(o) \/ ClientStep(o) \/ Fails(o) \/ Crash(o),
         client[o].at \in {"dead", "active", "delete", "receive", "plugin"} \cup Sending
  PROVE  Goes(o)
<1>. USE DEF Goes
<1>1. CASE Deactivate(o)
  <2>1. ~Activate(o) /\ ~DirNumber(o)
    BY <1>1 DEF Deactivate, Activate, DirNumber
  <2>2. client'[o].dirname = client[o].dirname
    BY <2>1, ClientSteps
  <2>. QED  BY <1>1, <2>2 DEF Types, ClientTypes, Deactivate
<1>2. CASE Crash(o)
  <2>1. client' = [client EXCEPT ![o].at = "dead"] /\ "dead" \in ClientPCs
    BY <1>2 DEF Crash, ClientPCs
  <2>. QED  BY <2>1, ClientMoves
<1>3. CASE ClientStep(o)
  <2>1. SendLock(o) \/ Connect(o) \/ ConnectFails(o) \/ SendSize(o) \/ SendData(o) \/ SendClose(o)
          \/ DeletePlugin(o)
    BY <1>3 DEF Sending, ClientStep, DirLock, DirNumber, MakeDir, At
  <2>2. PICK to \in ClientPCs : client' = [client EXCEPT ![o].at = to]
    BY <2>1 DEF SendLock, Connect, ConnectFails, SendSize, SendData, Send, SendClose,
       DeletePlugin, At,
       ClientPCs, Sending
  <2>3. /\ client'[o].at = to /\ client'[o].dirname = client[o].dirname
        /\ client'[o].reqtype = client[o].reqtype
    BY <2>2, ClientMoves
  <2>4. \/ client[o].at = "close" /\ client[o].reqtype = "new" /\ client'[o].at = "plugin"
        \/ client[o].at = "close" /\ client[o].reqtype # "new" /\ client'[o].at = "delete"
        \/ client[o].at = "delete" /\ client'[o].at = "receive"
        \/ /\ client[o].at \in Sending \ {"close"}
           /\ client'[o].at = IF client[o].reqtype = "new" THEN "out" ELSE "delete"
        \/ client[o].at \in Sending \ {"close"} /\ client'[o].at \in Sending \ {"send_lock"}
    BY <2>1 DEF SendLock, Connect, ConnectFails, SendSize, SendData, Send, SendClose,
       DeletePlugin, At,
       Types, ClientTypes, Sending
  <2>. QED  BY <2>3, <2>4
<1>4. CASE Fails(o)
  <2>1. client'[o].reqtype = client[o].reqtype /\ client'[o].dirname = client[o].dirname
    BY <1>4, FailsGoes, ClientMoves
  <2>2. /\ client[o].at \in Sending \ {"close"}
        /\ client'[o].at = IF client[o].reqtype = "new" THEN "out" ELSE "delete"
    BY <1>4, FailsGoes DEF Types, ClientTypes, Sending
  <2>. QED  BY <2>1, <2>2
<1>. QED  BY <1>1, <1>2, <1>3, <1>4 DEF Activate, Sending

\* The server's request while clients go on: its client cannot leave, only die.
LEMMA ClientServedKept ==
  ASSUME Types, Types', Owned, Requested, Served, [Next]_clientVars, NEW c \in Users,
         Activate(c) \/ Deactivate(c) \/ ClientStep(c) \/ Fails(c) \/ Crash(c)
  PROVE  Served'
<1>1. UNCHANGED input
  BY FailsGoes DEF server, Activate, Deactivate, Crash, ClientStep, DirLock, DirNumber, MakeDir,
     SendLock,
     Connect, ConnectFails, SendSize, SendData, Send, SendClose, DeletePlugin
<1>2. input.at = "read" => socket' # <<>>
  <2>. SUFFICES ASSUME socket # <<>> PROVE socket' # <<>>
    BY DEF Served
  <2>1. CASE Connect(c)
    BY <2>1, SocketTypes DEF Connect, Types
  <2>2. CASE SendSize(c) \/ SendData(c) \/ (Fails(c) /\ socket' # socket)
    <3>1. \E what \in {"size", "all", "short"} :
            socket' = [socket EXCEPT ![Len(socket)].sent = what]
      BY <2>2, FailsGoes DEF SendSize, SendData, Send
    <3>. QED  BY <3>1, SocketTypes
  <2>. QED
    BY <2>1, <2>2 DEF Activate, Deactivate, Crash, ClientStep, DirLock, DirNumber, MakeDir,
       SendLock, ConnectFails, SendClose, DeletePlugin
<1>3. ASSUME input.at \in {"new", "link", "publish", "unlink", "free", "send"}
      PROVE  Served'
  <2>. PICK o \in Users : o = Owner
    BY <1>3 DEF Served, Types, Owner
  <2>1. /\ input.dirname \in DOMAIN dirs /\ client[o].dirname = input.dirname
        /\ client[o].at \in {"dead", "active", "delete", "receive", "plugin"} \cup Sending
    BY <1>3 DEF Served, Coming, Leaving
  <2>2. input.dirname \in DOMAIN dirs' /\ Owner' = o
    BY <1>1, <2>1, DirsGrow DEF Owner
  <2>3. client'[o].dirname = client[o].dirname
    <3>1. CASE c = o
      BY <2>1, <3>1, ClientGoes DEF Goes
    <3>2. CASE c # o
      BY <2>1, <3>2, ClientSteps
    <3>. QED  BY <3>1, <3>2
  <2>4. ASSUME input.at \in {"new", "unlink", "free", "send"}
        PROVE  Heard'
    <3>1. Heard /\ client[o].at # "connect"
      BY <2>4 DEF Served
    <3>2. \A i \in 1..Len(socket') : socket'[i].sent # "short" => socket'[i].sender # o
      BY <3>1, HeardKept DEF Heard
    <3>. QED  BY <2>2, <3>2 DEF Heard
  <2>5. CASE c # o
    <3>1. client'[o] = client[o]
      BY <2>1, <2>5, ClientSteps
    <3>. QED  BY <1>1, <1>3, <2>1, <2>2, <2>4, <3>1 DEF Served, Coming, Leaving
  <2>6. CASE c = o
    <3>1. Goes(o)
      BY <2>1, <2>6, ClientGoes
    <3>2. CASE input.at = "new"
      <4>1. client'[o].at = "dead" \/ (Coming(o)' /\ client'[o].at \in {"close", "plugin"})
        BY <3>1, <3>2 DEF Served, Goes, Coming, Sending
      <4>. QED  BY <1>1, <2>1, <2>2, <2>3, <2>4, <3>2, <4>1 DEF Served, Coming
    <3>3. CASE input.at \in {"link", "publish"}
      <4>1. client'[o].at \in {"dead", "active"} \/ Leaving(o)'
        BY <3>1, <3>3 DEF Served, Goes, Leaving, Sending
      <4>. QED  BY <1>1, <2>1, <2>2, <2>3, <2>4, <3>3, <4>1 DEF Served, Leaving
    <3>4. CASE input.at \in {"unlink", "free", "send"}
      <4>1. \/ client'[o].at = "dead"
            \/ Leaving(o)' /\ client'[o].at \in {"close", "delete", "receive"}
        BY <3>1, <3>4 DEF Served, Goes, Leaving, Sending
      <4>. QED  BY <1>1, <2>1, <2>2, <2>3, <2>4, <3>4, <4>1 DEF Served, Leaving
    <3>. QED  BY <1>3, <3>2, <3>3, <3>4
  <2>. QED  BY <2>5, <2>6
<1>. QED  BY <1>1, <1>2, <1>3 DEF Served

\* The server's request as its own steps go.
LEMMA InputServedKept ==
  ASSUME Types, Types', Owned, Requested, Served, [Next]_clientVars, InputAlone
  PROVE  Served'
<1>. UNCHANGED <<client, dirs>>
  BY DEF InputAlone, Setup, SetupFails, AcknowledgeFails, SetupRemove, Accept, Receive,
     ReceiveShort, Link, Publish, Unlink,
     DeleteCaller, MeetDead
<1>1. CASE Receive
  <2>. DEFINE c == Head(socket).sender
  <2>1. /\ socket # <<>> /\ Head(socket) = socket[1] /\ 1 \in 1..Len(socket) /\ Len(socket) \in Nat
        /\ socket' = Tail(socket) /\ Len(socket') = Len(socket) - 1
        /\ \A i \in 1..Len(socket') : socket'[i] = socket[i + 1]
    BY <1>1, SocketTypes DEF Receive, Served, Types
  <2>2. c \in Users /\ HasDir(c) /\ SentBy(c, "all")
    BY <1>1, <2>1, SendersAreClients DEF Receive, Requested
  <2>3. \A i \in 1..Len(socket') : socket'[i].sent # "short" => socket'[i].sender # c
    <3>1. \A i \in 1..Len(socket') : i + 1 \in 1..Len(socket) /\ i + 1 # 1
      BY <2>1
    <3>. QED  BY <1>1, <2>1, <3>1 DEF Requested, Receive
  <2>4. /\ input'.dirname = client[c].dirname
        /\ input'.at = IF client[c].reqtype = "new" THEN "new" ELSE "unlink"
    BY <1>1 DEF Receive
  <2>5. Owner' = c
    BY <2>2, <2>4 DEF HasDir, Owner
  <2>6. \/ client[c].at = "dead"
        \/ Coming(c) /\ client[c].reqtype = "new" /\ client[c].at \in {"close", "plugin"}
        \/ Leaving(c) /\ client[c].reqtype # "new" /\ client[c].at \in {"close", "delete", "receive"}
    BY <2>2 DEF SentBy, Owned, OwnedBy, Settled, Coming, Leaving, Sending
  <2>. HIDE DEF c
  <2>7. Heard'
    BY <2>3, <2>5 DEF Heard
  <2>8. input'.dirname \in DOMAIN dirs' /\ client'[Owner'].dirname = input'.dirname
    BY <2>2, <2>4, <2>5 DEF HasDir
  <2>. QED  BY <2>2, <2>4, <2>5, <2>6, <2>7, <2>8 DEF Served, Coming, Leaving
<1>2. CASE ReceiveShort
  <2>1. input'.at \in {"accept", "segfault"}
    BY <1>2 DEF ReceiveShort, InputAt, Types, InputTypes
  <2>. QED  BY <2>1 DEF Served
<1>3. CASE ~Receive /\ ~ReceiveShort
  <2>1. UNCHANGED socket /\ input'.dirname = input.dirname
    BY <1>3 DEF InputAlone, Setup, SetupFails, AcknowledgeFails, SetupRemove, Accept, Link,
       Publish, Unlink, DeleteCaller, MeetDead,
       InputAt, Types, InputTypes
  <2>2. \/ input'.at \in {"setup", "failed", "accept"}
        \/ input'.at = "read" /\ socket # <<>>
        \/ input.at = "link" /\ input'.at = "publish"
        \/ input.at \in {"unlink", "free"} /\ input'.at \in {"free", "send"}
    BY <1>3 DEF InputAlone, Setup, SetupFails, AcknowledgeFails, SetupRemove, Accept, Link,
       Publish, Unlink, DeleteCaller, MeetDead,
       InputAt, Types, InputTypes
  <2>3. Owner' = Owner
    BY <2>1 DEF Owner
  <2>. QED  BY <2>1, <2>2, <2>3 DEF Served, Heard, Coming, Leaving
<1>. QED  BY <1>1, <1>2, <1>3

\* The server handles a request of a client that is not on its way any more, and
\* whose client waits for the answer or has died.
LEMMA ServedKept ==
  ASSUME Types, Types', Owned, Requested, Served, [Next]_clientVars
  PROVE  Served'
<1>1. ASSUME NEW c \in Users, Meet(c) \/ MeetFails(c) \/ Answered(c)
      PROVE  Served'
  <2>1. CASE Meet(c)
    <3>1. Owner = c /\ HasDir(c)
      BY <2>1, OwnerIsClient
    <3>2. /\ input'.at = "link" /\ input'.dirname = input.dirname
          /\ client'[c].at = "active" /\ client'[c].dirname = client[c].dirname
          /\ client[c].dirname = input.dirname /\ UNCHANGED dirs
      BY <2>1 DEF Meet, At, InputAt, Types, ClientTypes, InputTypes
    <3>3. Owner' = c
      BY <3>1, <3>2 DEF Owner
    <3>. QED  BY <3>1, <3>2, <3>3 DEF Served, HasDir
  <2>2. CASE MeetFails(c) \/ Answered(c)
    <3>1. input'.at \in {"accept", "waits"}
      BY <2>2, WaitGoes DEF Types, InputTypes
    <3>. QED  BY <3>1 DEF Served
  <2>. QED  BY <1>1, <2>1, <2>2
<1>2. CASE PdStep \/ UNCHANGED clientVars
  <2>1. UNCHANGED <<client, dirs, socket, input>>
    BY <1>2 DEF PdStep, SearchStep, NewObject, SearchNext, SearchEnds, AddCaller, NoObject, server,
       clientVars
  <2>. QED  BY <2>1 DEF Served, Heard, Owner, Coming, Leaving
<1>. QED  BY <1>1, <1>2, Steps, ClientServedKept, InputServedKept

-----------------------------------------------------------------------------
(***************************************************************************)
(* The list.                                                               *)
(***************************************************************************)

\* Clients, and the server together with one of them, leave the list and Pd alone.
LEMMA ListFrame ==
  ASSUME NEW c \in Users,
         \/ Activate(c) \/ Deactivate(c) \/ ClientStep(c) \/ Fails(c) \/ Crash(c)
         \/ Meet(c) \/ MeetFails(c) \/ Answered(c)
  PROVE  UNCHANGED <<root, next, pd, steady>>
BY DEF server, list, search, Activate, Deactivate, Crash, ClientStep, DirLock, DirNumber, MakeDir,
   SendLock, Connect, ConnectFails, Fails, DirFails, SendFails, SendSize, SendData, Send,
   SendClose, DeletePlugin, Meet,
   MeetFails, Answered, Acknowledge, ListenFails

\* The request the server handles is for a directory there is.
LEMMA ServesDir ==
  ASSUME Types, Served, Link \/ Publish \/ Unlink \/ DeleteCaller
  PROVE  input.dirname \in DOMAIN dirs /\ input.dirname \in Dirs
BY DEF Types, Served, Link, Publish, Unlink, DeleteCaller, InputAt

\* Only making it the root makes a node known.
LEMMA UnknownKept ==
  ASSUME Types, Served, [Next]_clientVars, NEW d \in Dirs, Unknown(d),
         Publish => d # input.dirname
  PROVE  Unknown(d)'
<1>. USE DEF Unknown
<1>1. CASE UNCHANGED <<root, next, pd>>
  BY <1>1
<1>2. CASE Link
  <2>1. next' = [next EXCEPT ![input.dirname] = root] /\ UNCHANGED <<root, pd>>
    BY <1>2 DEF Link, search
  <2>. QED  BY <2>1 DEF Types
<1>3. CASE Publish
  BY <1>3 DEF Publish, search
<1>4. CASE Unlink
  <2>1. input.dirname \in Dirs
    BY <1>4, ServesDir
  <2>2. \A e \in Dirs : next'[e] \in {next[e], next[input.dirname]}
    BY <1>4 DEF Unlink
  <2>3. root' \in {root, next[input.dirname]} /\ UNCHANGED pd
    BY <1>4 DEF Unlink, search
  <2>. QED  BY <2>1, <2>2, <2>3
<1>5. CASE PdStep
  <2>1. UNCHANGED <<root, next>>
    BY <1>5 DEF PdStep, SearchStep, NewObject, SearchNext, SearchEnds, AddCaller, NoObject,
       server, list
  <2>2. pd'.node # d
    <3>1. CASE SearchNext
      BY <3>1 DEF SearchNext, Types, PdTypes
    <3>2. CASE SearchEnds
      BY <3>2 DEF SearchEnds, PdAt, Types, PdTypes
    <3>3. CASE AddCaller \/ NoObject
      BY <3>3, ZeroIsNoDir DEF AddCaller, NoObject, Idle
    <3>4. ASSUME NEW o \in Objects, NewObject(o)
          PROVE  pd'.node # d
      BY <3>4 DEF NewObject
    <3>. QED  BY <1>5, <3>1, <3>2, <3>3, <3>4 DEF PdStep, SearchStep
  <2>. QED  BY <2>1, <2>2
<1>6. InputAlone /\ ~Link /\ ~Publish /\ ~Unlink => UNCHANGED <<root, next, pd>>
  BY DEF InputAlone, Setup, SetupFails, AcknowledgeFails, SetupRemove, Accept, Receive,
     ReceiveShort, DeleteCaller, MeetDead,
     list, search
<1>7. UNCHANGED clientVars => UNCHANGED <<root, next, pd>>
  BY DEF clientVars, server, list, search
<1>. QED  BY <1>1, <1>2, <1>3, <1>4, <1>5, <1>6, <1>7, Steps, ListFrame

\* A client that wants to be let in did so before, or has just made its directory.
LEMMA ComingFrom ==
  ASSUME Types, Types', Owned, [Next]_clientVars, NEW c \in Users, Coming(c)'
  PROVE  /\ client'[c].dirname = client[c].dirname
         /\ Coming(c) \/ (MakeDir(c) /\ client[c].dirname \notin DOMAIN dirs)
<1>. USE DEF Coming, Sending
<1>1. CASE client'[c] = client[c]
  BY <1>1
<1>2. CASE Activate(c) \/ DirLock(c) \/ DirNumber(c)
  <2>1. client'[c].at \in {"dir_lock", "dir_number", "mkdir"}
    BY <1>2 DEF Types, ClientTypes, Activate, DirLock, DirNumber, At
  <2>. QED  BY <2>1
<1>3. CASE MakeDir(c)
  BY <1>3 DEF MakeDir, Types, ClientTypes
<1>4. CASE Meet(c) \/ MeetFails(c) \/ Answered(c)
  <2>1. client[c].at \in {"plugin", "receive"} /\ client'[c].at \in {"active", "out", "waits"}
    BY <1>4, WaitGoes DEF Types, ClientTypes
  <2>2. Answered(c) => client'[c].at = "out"
    BY DEF Answered, Acknowledge, ListenFails, At, Types, ClientTypes
  <2>3. Meet(c) \/ MeetFails(c) => client[c].at = "plugin"
    BY DEF Meet, MeetFails, At
  <2>4. client'[c].dirname = client[c].dirname /\ client'[c].reqtype = client[c].reqtype
    BY <1>4, <2>1, ClientSteps DEF Activate, Deactivate, DirNumber
  <2>. QED  BY <1>4, <2>1, <2>2, <2>3, <2>4
<1>9. CASE Fails(c)
  <2>1. client'[c].at \in {"out", "delete"}
    BY <1>9, FailsGoes DEF Types, ClientTypes
  <2>. QED  BY <2>1
<1>5. CASE Deactivate(c) \/ ClientStep(c) \/ Crash(c)
  <2>. SUFFICES ASSUME ~DirLock(c), ~DirNumber(c), ~MakeDir(c), client'[c].at # "dead"
                PROVE  Goes(c) /\ Coming(c)
    BY <1>2, <1>3 DEF Goes
  <2>1. ~Crash(c)
    BY DEF Crash, Types, ClientTypes
  <2>2. client[c].at \in {"active", "delete"} \cup Sending
    BY <1>5, <2>1 DEF Deactivate, ClientStep, SendLock, Connect, ConnectFails, SendSize,
       SendData, Send,
       SendClose, DeletePlugin, At
  <2>3. Goes(c)
    BY <1>5, <2>2, ClientGoes
  <2>. QED  BY <2>2, <2>3 DEF Goes
<1>6. UNCHANGED client => client'[c] = client[c]
  OBVIOUS
<1>7. InputAlone \/ PdStep \/ UNCHANGED clientVars => UNCHANGED client
  BY DEF InputAlone, Setup, SetupFails, AcknowledgeFails, SetupRemove, Accept, Receive,
     ReceiveShort, Link, Publish,
     Unlink, DeleteCaller, MeetDead, PdStep, SearchStep, NewObject, SearchNext, SearchEnds,
     AddCaller, NoObject, clientVars
<1>8. ASSUME NEW e \in Users, e # c,
             \/ Activate(e) \/ Deactivate(e) \/ ClientStep(e) \/ Fails(e) \/ Crash(e)
             \/ Meet(e) \/ MeetFails(e) \/ Answered(e)
      PROVE  client'[c] = client[c]
  BY <1>8, ClientSteps
<1>. QED  BY <1>1, <1>2, <1>3, <1>4, <1>5, <1>6, <1>7, <1>8, <1>9, Steps

\* When the input thread gets to a node, and what it does to the request then.
LEMMA InputGoes ==
  ASSUME Types, [Next]_clientVars
  PROVE  \/ UNCHANGED input
         \/ \E c \in Users : Meet(c) /\ input'.at = "link" /\ input'.dirname = input.dirname
         \/ Link /\ input'.at = "publish" /\ input'.dirname = input.dirname
         \/ Publish /\ input'.at = "accept"
         \/ Unlink /\ input'.at \in {"free", "accept"} /\ input'.dirname = input.dirname
         \/ DeleteCaller /\ input'.at = "send" /\ input'.dirname = input.dirname
         \/ /\ input'.at \notin {"link", "publish", "free", "send"}
            /\ input.at \notin {"link", "publish", "free"}
            /\ UNCHANGED <<root, next, callers>>
            /\ \A c \in Users : ~Meet(c)
<1>1. CASE InputAlone
  <2>1. CASE Receive
    <3>1. input'.at \in {"new", "unlink"} /\ input.at = "read" /\ UNCHANGED <<root, next, callers>>
      BY <2>1 DEF Receive, list
    <3>2. \A c \in Users : ~Meet(c)
      BY <3>1 DEF Meet, InputAt
    <3>. QED  BY <3>1, <3>2
  <2>4. CASE SetupFails \/ AcknowledgeFails
    <3>1. /\ input'.at \in {"failed", "accept"} /\ input.at \in {"bind", "send"}
          /\ UNCHANGED <<root, next, callers>>
      BY <2>4 DEF SetupFails, AcknowledgeFails, InputAt, list, Types, InputTypes
    <3>2. \A c \in Users : ~Meet(c)
      BY <3>1 DEF Meet, InputAt, Types, InputTypes
    <3>. QED  BY <3>1, <3>2
  <2>2. CASE Setup \/ SetupRemove \/ Accept \/ ReceiveShort \/ MeetDead
    <3>1. /\ input'.at \in {"setup", "accept", "read", "segfault"}
          /\ input.at \in {"bind", "setup", "accept", "read", "new"}
          /\ UNCHANGED <<root, next, callers>>
      BY <2>2 DEF Setup, SetupRemove, Accept, ReceiveShort, MeetDead, InputAt, list, Types,
         InputTypes
    <3>2. \A c \in Users : ~Meet(c)
      BY <3>1 DEF Meet, InputAt, Types, InputTypes
    <3>. QED  BY <3>1, <3>2
  <2>3. CASE Link \/ Publish \/ Unlink \/ DeleteCaller
    BY <2>3 DEF Link, Publish, Unlink, DeleteCaller, InputAt, Types, InputTypes
  <2>. QED  BY <1>1, <2>1, <2>2, <2>3, <2>4 DEF InputAlone
<1>2. ASSUME NEW c \in Users, Meet(c)
      PROVE  input'.at = "link" /\ input'.dirname = input.dirname
  BY <1>2 DEF Meet, InputAt, Types, InputTypes
<1>3. ASSUME NEW c \in Users, MeetFails(c) \/ Answered(c)
      PROVE  /\ input'.at \in {"accept", "waits"} /\ input.at \notin {"link", "publish", "free"}
             /\ UNCHANGED <<root, next, callers>>
  BY <1>3, WaitGoes DEF Types, InputTypes
<1>4. ASSUME NEW c \in Users, Activate(c) \/ Deactivate(c) \/ ClientStep(c) \/ Fails(c) \/ Crash(c)
      PROVE  UNCHANGED input
  BY <1>4 DEF server, Activate, Deactivate, Crash, ClientStep, DirLock, DirNumber, MakeDir,
     SendLock,
     Connect, ConnectFails, Fails, DirFails, SendFails, SendSize, SendData, Send, SendClose,
     DeletePlugin
<1>5. PdStep \/ UNCHANGED clientVars => UNCHANGED input
  BY DEF PdStep, SearchStep, NewObject, SearchNext, SearchEnds, AddCaller, NoObject, server,
     clientVars
<1>6. \A c, e \in Users : MeetFails(c) \/ Answered(c) => ~Meet(e)
  BY <1>2, <1>3
<1>. QED  BY <1>1, <1>2, <1>3, <1>4, <1>5, <1>6, Steps

\* What was never made the root stays unknown until it is.
LEMMA NewsKept ==
  ASSUME Types, Types', Owned, Served, News, [Next]_clientVars
  PROVE  News'
<1>1. ASSUME NEW d \in Dirs, d \notin DOMAIN dirs'
      PROVE  Unknown(d)'
  <2>1. d \notin DOMAIN dirs
    BY <1>1, DirsGrow
  <2>2. Unknown(d) /\ (Publish => d # input.dirname)
    BY <2>1, ServesDir DEF News
  <2>. QED  BY <2>2, UnknownKept
<1>2. ASSUME NEW c \in Users, Coming(c)', NEW d, d = client[c].dirname
      PROVE  Unknown(d)' /\ d = client'[c].dirname
  <2>1. /\ client'[c].dirname = d
        /\ Coming(c) \/ (MakeDir(c) /\ d \notin DOMAIN dirs)
    BY <1>2, ComingFrom
  <2>2. CASE Coming(c)
    <3>1. HasDir(c)
      BY <2>2 DEF Owned, OwnedBy, Settled, Coming, Sending
    <3>2. d \in Dirs /\ Unknown(d)
      BY <1>2, <2>2, <3>1 DEF News, HasDir, Types
    <3>3. Publish => d # input.dirname
      <4>1. ASSUME Publish, d = input.dirname
            PROVE  FALSE
        <5>1. Owner = c
          BY <1>2, <3>1, <4>1 DEF Owner, HasDir
        <5>. QED
          BY <2>2, <4>1, <5>1 DEF Served, Publish, InputAt, Coming, Leaving, Sending
      <4>. QED  BY <4>1
    <3>. QED  BY <2>1, <3>2, <3>3, UnknownKept
  <2>3. CASE MakeDir(c) /\ d \notin DOMAIN dirs
    <3>1. d \in Dirs
      BY <1>2, <2>3 DEF MakeDir, Types, ClientTypes
    <3>2. Unknown(d)
      BY <2>3, <3>1 DEF News
    <3>3. ~Publish
      BY <2>3 DEF MakeDir, Publish, server, InputAt, Types, InputTypes
    <3>. QED  BY <2>1, <3>1, <3>2, <3>3, UnknownKept
  <2>. QED  BY <2>1, <2>2, <2>3
<1>3. ASSUME input'.at \in {"link", "publish"}, NEW d, d = input'.dirname
      PROVE  Unknown(d)'
  <2>1. CASE input.at \in {"link", "publish"} /\ input'.dirname = input.dirname /\ ~Publish
    <3>1. d \in Dirs /\ Unknown(d)
      BY <1>3, <2>1 DEF News, Served, Types
    <3>. QED  BY <2>1, <3>1, UnknownKept
  <2>2. ASSUME NEW c \in Users, Meet(c)
        PROVE  Unknown(d)'
    <3>1. d = client[c].dirname /\ client[c].at = "plugin"
      BY <1>3, <2>2 DEF Meet, At, InputAt, Types, InputTypes
    <3>2. Coming(c) /\ HasDir(c)
      BY <3>1 DEF Owned, OwnedBy, Settled, Leaving, Sending
    <3>3. Unknown(d) /\ d \in Dirs /\ ~Publish
      BY <2>2, <3>1, <3>2 DEF News, HasDir, Types, Meet, Publish, InputAt
    <3>. QED  BY <3>3, UnknownKept
  <2>3. Link => input.at = "link" /\ ~Publish
    BY DEF Link, Publish, InputAt
  <2>4. Publish => input.at = "publish" /\ input'.at = "accept"
    BY DEF Publish, InputAt, Types, InputTypes
  <2>. QED  BY <1>3, <2>1, <2>2, <2>3, <2>4, InputGoes
<1>. QED  BY <1>1, <1>2, <1>3 DEF News, Unknown

\* What writes the list.
LEMMA ListChanges ==
  ASSUME [Next]_clientVars
  PROVE  UNCHANGED <<root, next>> \/ Link \/ Publish \/ Unlink
<1>1. InputAlone => UNCHANGED <<root, next>> \/ Link \/ Publish \/ Unlink
  BY DEF InputAlone, Setup, SetupFails, AcknowledgeFails, SetupRemove, Accept, Receive,
     ReceiveShort, DeleteCaller, MeetDead, list
<1>2. PdStep \/ UNCHANGED clientVars => UNCHANGED <<root, next>>
  BY DEF PdStep, SearchStep, NewObject, SearchNext, SearchEnds, AddCaller, NoObject, server, list,
     clientVars
<1>. QED  BY <1>1, <1>2, Steps, ListFrame

\* The list still does not run in a circle.
LEMMA StraightKept ==
  ASSUME Types, Served, News, Straight, [Next]_clientVars
  PROVE  Straight'
<1>. DEFINE x == input.dirname
<1>. PICK rank \in [Dirs -> Nat] : Ranks(rank)
  BY DEF Straight
<1>1. CASE UNCHANGED next
  BY <1>1 DEF Straight, Ranks
<1>2. CASE Link
  <2>. DEFINE rank2 == [rank EXCEPT ![x] = IF root = 0 THEN 0 ELSE rank[root] + 1]
  <2>1. x \in Dirs /\ Unknown(x)
    BY <1>2, ServesDir DEF News, Link, InputAt
  <2>2. rank2 \in [Dirs -> Nat]
    BY <2>1 DEF Types
  <2>3. next' = [next EXCEPT ![x] = root] /\ next \in [Dirs -> Dirs \cup {0}]
    BY <1>2 DEF Link, Types
  <2>4. ASSUME NEW d \in Dirs, next'[d] # 0
        PROVE  rank2[next'[d]] < rank2[d]
    <3>1. CASE d = x
      <4>1. next'[d] = root /\ root \in Dirs /\ root # x
        BY <2>1, <2>3, <2>4, <3>1 DEF Types, Unknown
      <4>2. root # 0 /\ rank[root] \in Nat
        BY <4>1, ZeroIsNoDir
      <4>3. rank2[root] = rank[root] /\ rank2[x] = rank[root] + 1
        BY <2>1, <4>1, <4>2
      <4>. QED  BY <3>1, <4>1, <4>2, <4>3
    <3>2. CASE d # x
      <4>1. next'[d] = next[d] /\ next[d] \in Dirs /\ next[d] # x
        BY <2>1, <2>3, <2>4, <3>2 DEF Unknown
      <4>2. rank2[d] = rank[d] /\ rank2[next[d]] = rank[next[d]]
        BY <2>1, <3>2, <4>1
      <4>. QED  BY <2>4, <4>1, <4>2 DEF Ranks
    <3>. QED  BY <3>1, <3>2
  <2>. HIDE DEF rank2
  <2>. QED  BY <2>2, <2>4 DEF Straight, Ranks
<1>3. CASE Unlink
  <2>1. x \in Dirs
    BY <1>3, ServesDir
  <2>2. next \in [Dirs -> Dirs \cup {0}]
    BY DEF Types
  <2>3. \A d \in Dirs : next'[d] = next[d] \/ (next[d] = x /\ next'[d] = next[x])
    BY <1>3 DEF Unlink
  <2>. HIDE DEF x
  <2>4. ASSUME NEW d \in Dirs, next'[d] # 0
        PROVE  rank[next'[d]] < rank[d]
    <3>1. CASE next'[d] = next[d]
      BY <2>4, <3>1 DEF Ranks
    <3>2. CASE next[d] = x /\ next'[d] = next[x]
      <4>1. rank[next[x]] < rank[x] /\ rank[x] < rank[d]
        BY <2>1, <2>4, <3>2, ZeroIsNoDir DEF Ranks
      <4>2. next[x] \in Dirs
        BY <2>1, <2>2, <2>4, <3>2
      <4>. QED  BY <2>1, <3>2, <4>1, <4>2
    <3>. QED  BY <2>3, <3>1, <3>2
  <2>. QED  BY <2>4 DEF Straight, Ranks
<1>. QED  BY <1>1, <1>2, <1>3, ListChanges DEF Publish

\* The list is the chain from the root, before and after a step.
LEMMA ReachableIsChain ==
  Reachable = Chain(next, root) /\ Reachable' = Chain(next', root')
BY DEF Reachable, From, Chain, ListFrom

\* What nothing leads to is in no chain that does not start with it.
LEMMA UnknownIsNotInChains ==
  ASSUME Types, NEW d \in Dirs, Unknown(d), NEW n \in Dirs \cup {0}, n # d
  PROVE  d \notin Chain(next, n)
<1>. DEFINE S == Dirs \ {d}
<1>1. S \in SUBSET Dirs /\ ListFrom(next, n, S)
  BY DEF Types, Unknown, ListFrom
<1>. QED  BY <1>1, ChainLeast

\* Preparing a node changes no chain but its own.
LEMMA LinkChains ==
  ASSUME Types, Served, News, Link
  PROVE  /\ \A n \in Dirs \cup {0} : n # input.dirname => Chain(next', n) = Chain(next, n)
         /\ next'[input.dirname] = root' /\ root' = root
         /\ root # input.dirname /\ pd.node # input.dirname
<1>. DEFINE x == input.dirname
<1>1. x \in Dirs /\ Unknown(x)
  BY ServesDir DEF News, Link, InputAt
<1>2. next' = [next EXCEPT ![x] = root] /\ next \in Fields /\ root \in Dirs \cup {0}
  BY DEF Link, Types, Fields
<1>3. next' \in Fields /\ \A e \in Dirs \ {x} : next'[e] = next[e]
  BY <1>1, <1>2 DEF Fields
<1>4. ASSUME NEW n \in Dirs \cup {0}, n # x
      PROVE  Chain(next', n) = Chain(next, n)
  BY <1>1, <1>2, <1>3, <1>4, ChainUntouched DEF Unknown
<1>5. next'[x] = root' /\ root' = root
  BY <1>1, <1>2 DEF Link, Fields
<1>. QED  BY <1>1, <1>4, <1>5 DEF Unknown

\* Making the node the root puts it into the list.
LEMMA PublishChains ==
  ASSUME Types, Served, Publish, next[input.dirname] = root
  PROVE  next' = next /\ Reachable' = Reachable \cup {input.dirname}
<1>1. input.dirname \in Dirs /\ next' = next /\ root' = input.dirname /\ next \in Fields
  BY ServesDir DEF Publish, Types, Fields
<1>2. Chain(next, input.dirname) = {input.dirname} \cup Chain(next, root)
  BY <1>1, ChainNext
<1>. QED  BY <1>1, <1>2, ReachableIsChain

\* Taking a node out of the list takes out no other, wherever one looks from.
LEMMA UnlinkChains ==
  ASSUME Types, Types', Served, Straight, Unlink
  PROVE  /\ \A n \in Dirs \cup {0} : Chain(next, n) \subseteq Chain(next', n) \cup {input.dirname}
         /\ Reachable' = Reachable \ {input.dirname}
<1>. DEFINE x == input.dirname
<1>1. x \in Dirs /\ next \in Fields /\ next' \in Fields /\ root \in Dirs \cup {0}
  BY ServesDir DEF Types, Fields
<1>2. \A d \in Dirs : next'[d] = next[d] \/ (next[d] = x /\ next'[d] = next[x])
  BY DEF Unlink
<1>3. ASSUME NEW n \in Dirs \cup {0}
      PROVE  Chain(next, n) \subseteq Chain(next', n) \cup {x}
  BY <1>1, <1>2, ChainAround
<1>4. CASE x \in Reachable
  <2>1. next[x] # x
    <3>1. PICK rank \in [Dirs -> Nat] : Ranks(rank)
      BY DEF Straight
    <3>2. rank[x] \in Nat /\ x # 0
      BY <1>1, ZeroIsNoDir
    <3>3. next[x] # 0 => rank[next[x]] < rank[x]
      BY <1>1, <3>1 DEF Ranks
    <3>. QED  BY <3>2, <3>3
  <2>2. root' = IF root = x THEN next[x] ELSE root
    BY <1>4 DEF Unlink
  <2>3. \A d \in Chain(next, root) : next'[d] = IF next[d] = x THEN next[x] ELSE next[d]
    <3>1. Chain(next, root) \subseteq Dirs
      BY DEF Chain
    <3>2. \A d \in Dirs : next'[d] = IF d \in Reachable /\ next[d] = x THEN next[x] ELSE next[d]
      BY <1>4 DEF Unlink
    <3>. QED  BY <3>1, <3>2, ReachableIsChain
  <2>4. x \in Chain(next, root)
    BY <1>4, ReachableIsChain
  <2>. HIDE DEF x
  <2>5. Chain(next', root') \subseteq Chain(next, root) \ {x}
    BY <1>1, <2>1, <2>2, <2>3, <2>4, ChainWithout
  <2>6. root' \in Dirs \cup {0} /\ (root' = root \/ (root = x /\ root' = next[x]))
    BY <1>1, <2>2 DEF Types
  <2>7. Chain(next, root) \subseteq Chain(next', root') \cup {x}
    BY <1>1, <1>2, <2>6, ChainAround
  <2>. QED  BY <1>3, <2>5, <2>7, ReachableIsChain DEF x
<1>5. CASE x \notin Reachable
  <2>1. root' = root
    BY <1>5 DEF Unlink
  <2>2. next' = next
    <3>1. \A d \in Dirs : next'[d] = next[d]
      BY <1>5 DEF Unlink
    <3>. QED  BY <1>1, <3>1 DEF Fields
  <2>. QED  BY <1>3, <1>5, <2>1, <2>2, ReachableIsChain
<1>. QED  BY <1>4, <1>5

\* What writes the callers.
LEMMA CallersChanges ==
  ASSUME [Next]_clientVars
  PROVE  \/ UNCHANGED callers
         \/ DeleteCaller
         \/ \E c \in Users : Meet(c) /\ callers' = callers \cup {input.dirname}
<1>1. InputAlone => UNCHANGED callers \/ DeleteCaller
  BY DEF InputAlone, Setup, SetupFails, AcknowledgeFails, SetupRemove, Accept, Receive,
     ReceiveShort, Link, Publish, Unlink, MeetDead
<1>2. PdStep \/ UNCHANGED clientVars => UNCHANGED callers
  BY DEF PdStep, SearchStep, NewObject, SearchNext, SearchEnds, AddCaller, NoObject, server,
     clientVars
<1>3. ASSUME NEW c \in Users, Activate(c) \/ Deactivate(c) \/ ClientStep(c) \/ Fails(c) \/ Crash(c)
      PROVE  UNCHANGED callers
  BY <1>3 DEF server, Activate, Deactivate, Crash, ClientStep, DirLock, DirNumber, MakeDir,
     SendLock,
     Connect, ConnectFails, Fails, DirFails, SendFails, SendSize, SendData, Send, SendClose,
     DeletePlugin
<1>4. ASSUME NEW c \in Users, Meet(c) \/ MeetFails(c) \/ Answered(c)
      PROVE  UNCHANGED callers \/ (Meet(c) /\ callers' = callers \cup {input.dirname})
  BY <1>4 DEF Meet, MeetFails, Answered, Acknowledge, ListenFails
<1>. QED  BY <1>1, <1>2, <1>3, <1>4, Steps

\* A client that is in stays in until the server lets it out, or it dies.
LEMMA InKept ==
  ASSUME Types, [Next]_clientVars, NEW o \in Users, ~Answered(o),
         client[o].at \in {"dead", "active"} \/ Leaving(o)
  PROVE  \/ client'[o].at = "dead"
         \/ /\ client'[o].dirname = client[o].dirname /\ client[o].at # "dead"
            /\ client'[o].at = "active" \/ Leaving(o)'
<1>. USE DEF Leaving, Sending
<1>1. CASE Activate(o) \/ Deactivate(o) \/ ClientStep(o) \/ Fails(o) \/ Crash(o)
  <2>1. Goes(o)
    BY <1>1, ClientGoes
  <2>. QED  BY <2>1 DEF Goes
<1>2. ~Meet(o) /\ ~MeetFails(o)
  BY DEF Meet, MeetFails, At
<1>3. CASE client'[o] = client[o]
  BY <1>3
<1>4. InputAlone \/ PdStep \/ UNCHANGED clientVars => UNCHANGED client
  BY DEF InputAlone, Setup, SetupFails, AcknowledgeFails, SetupRemove, Accept, Receive,
     ReceiveShort, Link, Publish,
     Unlink, DeleteCaller, MeetDead, PdStep, SearchStep, NewObject, SearchNext, SearchEnds,
     AddCaller, NoObject, clientVars
<1>5. ASSUME NEW e \in Users, e # o,
             \/ Activate(e) \/ Deactivate(e) \/ ClientStep(e) \/ Fails(e) \/ Crash(e)
             \/ Meet(e) \/ MeetFails(e) \/ Answered(e)
      PROVE  client'[o] = client[o]
  BY <1>5, ClientSteps
<1>. QED  BY <1>1, <1>2, <1>3, <1>4, <1>5, Steps

\* Who is active was so, or is just let in.
LEMMA ActiveFrom ==
  ASSUME Types, [Next]_clientVars, NEW c \in Users, client'[c].at = "active", ~Meet(c)
  PROVE  client'[c] = client[c] \/ client'[c].dirname \in broken'
<1>1. ASSUME Activate(c) \/ Deactivate(c) \/ ClientStep(c) \/ Crash(c) \/ Answered(c)
      PROVE  FALSE
  BY <1>1 DEF Types, ClientTypes, Activate, Deactivate, Crash, ClientStep, DirLock, DirNumber,
     MakeDir, SendLock, Connect, ConnectFails, SendSize, SendData, Send, SendClose, DeletePlugin,
     Answered, Acknowledge, ListenFails, At
<1>4. ~Fails(c)
  BY FailsGoes DEF Types, ClientTypes
<1>5. CASE MeetFails(c)
  <2>1. client'[c].dirname = client[c].dirname /\ client[c].dirname = input.dirname
    <3>1. {"out", "active", "waits"} \subseteq ClientPCs
      BY DEF ClientPCs
    <3>. QED  BY <1>5, <3>1, WaitGoes, ClientMoves
  <2>2. input.dirname \in broken'
    BY <1>5 DEF MeetFails, At, Types, ClientTypes
  <2>. QED  BY <2>1, <2>2
<1>2. InputAlone \/ PdStep \/ UNCHANGED clientVars => UNCHANGED client
  BY DEF InputAlone, Setup, SetupFails, AcknowledgeFails, SetupRemove, Accept, Receive,
     ReceiveShort, Link, Publish,
     Unlink, DeleteCaller, MeetDead, PdStep, SearchStep, NewObject, SearchNext, SearchEnds,
     AddCaller, NoObject, clientVars
<1>3. ASSUME NEW e \in Users, e # c,
             \/ Activate(e) \/ Deactivate(e) \/ ClientStep(e) \/ Fails(e) \/ Crash(e)
             \/ Meet(e) \/ MeetFails(e) \/ Answered(e)
      PROVE  client'[c] = client[c]
  BY <1>3, ClientSteps
<1>. QED  BY <1>1, <1>2, <1>3, <1>4, <1>5, Steps

\* What failed on one side only stays so.
LEMMA BrokenGrows ==
  ASSUME [Next]_clientVars
  PROVE  broken \subseteq broken'
<1>1. ASSUME NEW c \in Users, Activate(c) \/ Deactivate(c) \/ ClientStep(c) \/ Crash(c)
      PROVE  UNCHANGED broken
  BY <1>1 DEF Activate, Deactivate, Crash, ClientStep, DirLock, DirNumber, MakeDir, SendLock,
     Connect, ConnectFails, SendSize, SendData, Send, SendClose, DeletePlugin
<1>2. ASSUME NEW c \in Users, Fails(c) \/ Meet(c) \/ MeetFails(c) \/ Answered(c)
      PROVE  broken \subseteq broken'
  BY <1>2 DEF Fails, DirFails, SendFails, Meet, MeetFails, Answered, Acknowledge, ListenFails
<1>3. InputAlone => broken \subseteq broken'
  BY DEF InputAlone, Setup, SetupFails, AcknowledgeFails, SetupRemove, Accept, Receive,
     ReceiveShort, Link, Publish, Unlink, DeleteCaller, MeetDead
<1>4. PdStep \/ UNCHANGED clientVars => UNCHANGED broken
  BY DEF PdStep, SearchStep, NewObject, SearchNext, SearchEnds, AddCaller, NoObject, clientVars
<1>. QED  BY <1>1, <1>2, <1>3, <1>4, Steps

\* What a step does to the nodes in the list.
LEMMA ReachableSteps ==
  ASSUME Types, Types', Served, News, Straight, Listed, [Next]_clientVars
  PROVE  /\ Publish => Reachable' = Reachable \cup {input.dirname}
         /\ Unlink => Reachable' = Reachable \ {input.dirname}
         /\ ~Publish /\ ~Unlink => Reachable' = Reachable
<1>1. Publish => next[input.dirname] = root
  BY DEF Listed, Publish, InputAt
<1>2. Link => Reachable' = Reachable
  BY LinkChains, ReachableIsChain DEF Types
<1>3. UNCHANGED <<root, next>> => Reachable' = Reachable
  BY ReachableIsChain
<1>. QED  BY <1>1, <1>2, <1>3, PublishChains, UnlinkChains, ListChanges

\* The list is that of the clients that are in.
LEMMA ListedKept ==
  ASSUME Types, Types', Owned, Served, News, Straight, Listed, [Next]_clientVars
  PROVE  Listed'
<1>. DEFINE x == input.dirname
<1>1. UNCHANGED input => ~Publish /\ ~Unlink /\ ~Link /\ ~DeleteCaller /\ \A c \in Users : ~Meet(c)
  BY DEF Publish, Unlink, Link, DeleteCaller, Meet, InputAt, Types, InputTypes
<1>2. input'.at = "publish" => next'[input'.dirname] = root'
  <2>1. CASE Link
    BY <2>1, LinkChains, InputGoes DEF Link, InputAt, Types, InputTypes
  <2>2. CASE UNCHANGED input
    BY <1>1, <2>2, ListChanges DEF Listed
  <2>3. Publish \/ Unlink \/ DeleteCaller => input'.at # "publish"
    BY DEF Publish, Unlink, DeleteCaller, InputAt, Types, InputTypes
  <2>. QED  BY <2>1, <2>2, <2>3, InputGoes
<1>3. ASSUME NEW d \in Reachable', NEW o, o = dirs'[d]
      PROVE  /\ d \in DOMAIN dirs'
             /\ \/ client'[o].at = "dead"
                \/ client'[o].dirname = d /\ (client'[o].at = "active" \/ Leaving(o)')
  <2>1. CASE d \in Reachable
    <3>1. d \in DOMAIN dirs /\ dirs[d] = o
      BY <1>3, <2>1, DirsGrow DEF Listed
    <3>2. o \in Users
      BY <3>1 DEF Types
    <3>3. \/ client[o].at = "dead"
          \/ client[o].dirname = d /\ (client[o].at = "active" \/ Leaving(o))
      BY <2>1, <3>1 DEF Listed
    <3>4. ~Answered(o)
      <4>1. ASSUME Answered(o)
            PROVE  FALSE
        <5>1. client[o].at = "receive" /\ client[o].dirname = x /\ input.at = "send"
          BY <4>1 DEF Answered, Acknowledge, ListenFails, At, InputAt
        <5>. QED  BY <2>1, <3>3, <5>1 DEF Listed
      <4>. QED  BY <4>1
    <3>5. d \in DOMAIN dirs'
      BY <3>1, DirsGrow
    <3>. QED  BY <3>2, <3>3, <3>4, <3>5, InKept
  <2>2. CASE d \notin Reachable
    <3>1. Publish /\ d = x
      BY <1>3, <2>2, ReachableSteps
    <3>2. UNCHANGED <<client, dirs>> /\ input.at = "publish"
      BY <3>1 DEF Publish, InputAt
    <3>3. o = Owner /\ x \in DOMAIN dirs
      BY <1>3, <3>1, <3>2 DEF Owner, Served
    <3>. QED  BY <3>1, <3>2, <3>3 DEF Served, Leaving
  <2>. QED  BY <2>1, <2>2
<1>4. ASSUME NEW c \in Users, client'[c].at = "active"
      PROVE  \/ client'[c].dirname \in Reachable'
             \/ input'.at \in {"link", "publish"} /\ client'[c].dirname = input'.dirname
             \/ client'[c].dirname \in broken'
  <2>1. CASE Meet(c)
    <3>1. client'[c].dirname = input'.dirname /\ input'.at = "link"
      BY <2>1 DEF Meet, At, InputAt, Types, ClientTypes, InputTypes
    <3>. QED  BY <3>1
  <2>3. CASE client'[c].dirname \in broken'
    BY <2>3
  <2>2. CASE ~Meet(c) /\ client'[c].dirname \notin broken'
    <3>1. client'[c] = client[c]
      BY <1>4, <2>2, ActiveFrom
    <3>5. client[c].dirname \notin broken
      BY <2>2, <3>1, BrokenGrows
    <3>2. HasDir(c)
      BY <1>4, <3>1 DEF Owned, OwnedBy, Settled
    <3>3. CASE client[c].dirname \in Reachable
      <4>1. ASSUME Unlink, client[c].dirname = x
            PROVE  FALSE
        <5>1. Owner = c
          BY <3>2, <4>1 DEF HasDir, Owner
        <5>. QED  BY <1>4, <3>1, <4>1, <5>1 DEF Served, Unlink, InputAt, Leaving, Sending
      <4>. QED  BY <3>1, <3>3, <4>1, ReachableSteps
    <3>4. CASE input.at \in {"link", "publish"} /\ client[c].dirname = x
      <4>1. CASE Publish
        BY <3>1, <3>4, <4>1, ReachableSteps
      <4>2. CASE UNCHANGED input
        BY <3>1, <3>4, <4>2
      <4>3. CASE Link /\ input'.at = "publish" /\ input'.dirname = x
        BY <3>1, <3>4, <4>3
      <4>4. ~Unlink /\ ~DeleteCaller /\ \A e \in Users : ~Meet(e)
        BY <3>4 DEF Unlink, DeleteCaller, Meet, InputAt
      <4>. QED  BY <3>4, <4>1, <4>2, <4>3, <4>4, InputGoes
    <3>. QED  BY <1>4, <3>1, <3>3, <3>4, <3>5 DEF Listed
  <2>. QED  BY <2>1, <2>2, <2>3
<1>. DEFINE Extra == IF input.at \in {"link", "publish", "free"} THEN {x} ELSE {}
            Extra2 == IF input'.at \in {"link", "publish", "free"} THEN {input'.dirname} ELSE {}
<1>5. callers' = Reachable' \cup Extra2
  <2>0. callers = Reachable \cup Extra
    BY DEF Listed
  <2>1. CASE UNCHANGED input
    <3>1. UNCHANGED callers /\ Reachable' = Reachable
      BY <1>1, <2>1, CallersChanges, ReachableSteps
    <3>. QED  BY <2>0, <2>1, <3>1
  <2>2. ASSUME NEW c \in Users, Meet(c), input'.at = "link", input'.dirname = x
        PROVE  callers' = Reachable' \cup Extra2
    <3>1. input.at = "new" /\ callers' = callers \cup {x} /\ ~Publish /\ ~Unlink
      BY <2>2 DEF Meet, InputAt, Publish, Unlink
    <3>. QED  BY <2>0, <2>2, <3>1, ReachableSteps
  <2>3. CASE Link /\ input'.at = "publish" /\ input'.dirname = x
    <3>1. input.at = "link" /\ callers' = callers /\ ~Publish /\ ~Unlink
      BY <2>3 DEF Link, InputAt, Publish, Unlink
    <3>. QED  BY <2>0, <2>3, <3>1, ReachableSteps
  <2>4. CASE Publish /\ input'.at = "accept"
    <3>1. input.at = "publish" /\ callers' = callers
      BY <2>4 DEF InputAt, Publish
    <3>. QED  BY <2>0, <2>4, <3>1, ReachableSteps
  <2>5. CASE Unlink
    <3>1. input.at = "unlink" /\ callers' = callers /\ input'.dirname = x
          /\ input'.at = IF x \in Reachable THEN "free" ELSE "accept"
      BY <2>5 DEF InputAt, Unlink, Types, InputTypes
    <3>. QED  BY <2>0, <2>5, <3>1, ReachableSteps
  <2>6. CASE DeleteCaller /\ input'.at = "send"
    <3>1. input.at = "free" /\ callers' = callers \ {x} /\ ~Publish /\ ~Unlink
      BY <2>6 DEF InputAt, DeleteCaller, Publish, Unlink
    <3>2. x \notin Reachable
      BY <3>1 DEF Listed
    <3>. QED  BY <2>0, <2>6, <3>1, <3>2, ReachableSteps
  <2>7. CASE /\ input'.at \notin {"link", "publish", "free", "send"}
             /\ input.at \notin {"link", "publish", "free"}
             /\ UNCHANGED <<root, next, callers>>
    BY <2>0, <2>7, ReachableIsChain
  <2>. QED  BY <2>1, <2>2, <2>3, <2>4, <2>5, <2>6, <2>7, InputGoes
<1>6. input'.at \in {"link", "publish", "free", "send"} => input'.dirname \notin Reachable'
  <2>1. CASE UNCHANGED input
    BY <1>1, <2>1, ReachableSteps DEF Listed
  <2>2. ASSUME NEW c \in Users, Meet(c), input'.at = "link", input'.dirname = x
        PROVE  x \notin Reachable'
    <3>1. x = client[c].dirname /\ client[c].at = "plugin" /\ ~Publish /\ ~Unlink
      BY <2>2 DEF Meet, At, InputAt, Publish, Unlink
    <3>2. Coming(c) /\ HasDir(c)
      BY <3>1 DEF Owned, OwnedBy, Settled, Leaving, Sending
    <3>3. Unknown(x) /\ x \in Dirs
      BY <3>1, <3>2 DEF News, HasDir, Types
    <3>4. x \notin Chain(next, root)
      BY <3>3, UnknownIsNotInChains DEF Unknown, Types
    <3>. QED  BY <3>1, <3>4, ReachableSteps, ReachableIsChain
  <2>3. CASE (Link \/ DeleteCaller) /\ input'.dirname = x
    <3>1. input.at \in {"link", "free"} /\ ~Publish /\ ~Unlink
      BY <2>3 DEF Link, DeleteCaller, InputAt, Publish, Unlink
    <3>. QED  BY <2>3, <3>1, ReachableSteps DEF Listed
  <2>4. CASE Publish /\ input'.at = "accept"
    BY <2>4
  <2>5. CASE Unlink /\ input'.dirname = x
    BY <2>5, ReachableSteps
  <2>. QED  BY <2>1, <2>2, <2>3, <2>4, <2>5, InputGoes
<1>. HIDE DEF x
<1>. QED  BY <1>2, <1>3, <1>4, <1>5, <1>6 DEF Listed, Leaving

\* The nodes ahead of the search are the chain from its node.
LEMMA AheadIsChain ==
  From(pd.node) = Chain(next, pd.node) /\ From(pd.node)' = Chain(next', pd'.node)
BY DEF From, Chain, ListFrom

\* What Pd's thread does not write.
LEMMA PdFrame ==
  ASSUME PdStep
  PROVE  UNCHANGED <<dirs, root, next>>
BY DEF PdStep, SearchStep, NewObject, SearchNext, SearchEnds, AddCaller, NoObject, server, list

\* Only Pd's thread writes what Pd looks for and where it is, and only it and the
\* taking out of a node write which nodes stay.
LEMMA SearchChanges ==
  ASSUME [Next]_clientVars, ~PdStep
  PROVE  /\ UNCHANGED pd
         /\ steady' = IF Unlink THEN steady \ {input.dirname} ELSE steady
<1>1. InputAlone => UNCHANGED pd /\ (Unlink \/ UNCHANGED steady)
  BY DEF InputAlone, Setup, SetupFails, AcknowledgeFails, SetupRemove, Accept, Receive,
     ReceiveShort, Link, Publish, Unlink,
     DeleteCaller, MeetDead, search
<1>2. UNCHANGED clientVars => UNCHANGED pd /\ UNCHANGED steady
  BY DEF clientVars, search
<1>3. Unlink => steady' = steady \ {input.dirname} /\ UNCHANGED pd
  BY DEF Unlink, search
<1>. QED  BY <1>1, <1>2, <1>3, Steps, ListFrame

\* The nodes that stay are ahead of the search, as Pd's thread goes on.
LEMMA PdAheadKept ==
  ASSUME Types, Types', Listed, Ahead, PdStep
  PROVE  Ahead'
<1>1. UNCHANGED <<dirs, root, next>>
  BY PdFrame
<1>. next \in Fields /\ root \in Dirs \cup {0} /\ pd.node \in Dirs \cup {0} /\ pd \in PdTypes
  BY DEF Types, Fields, PdTypes
<1>2. CASE SearchNext
  <2>1. /\ pd.at = "search" /\ pd.node \in Dirs /\ ~Matches(pd.node, pd.object)
        /\ steady' = steady
        /\ pd'.at = "search" /\ pd'.object = pd.object /\ pd'.node = next[pd.node]
    BY <1>2, ZeroIsNoDir DEF SearchNext, PdTypes
  <2>2. Chain(next, pd.node) = {pd.node} \cup Chain(next, next[pd.node])
    BY <2>1, ChainNext
  <2>3. steady \subseteq Chain(next, pd.node) /\ \A d \in steady : Matches(d, pd.object)
    BY <2>1, AheadIsChain DEF Ahead
  <2>4. steady' \subseteq Chain(next', pd'.node)
    BY <1>1, <2>1, <2>2, <2>3
  <2>5. \A d \in steady' : Matches(d, pd.object)'
    BY <1>1, <2>1, <2>3 DEF Matches
  <2>. QED  BY <1>1, <2>1, <2>4, <2>5, AheadIsChain DEF Ahead
<1>3. CASE SearchEnds
  <2>1. /\ pd.at = "search" /\ steady' = steady /\ pd'.at \in {"found", "not_found"}
        /\ pd'.at = "not_found" => pd.node = 0
    BY <1>3 DEF SearchEnds, PdAt, PdTypes
  <2>2. pd.node = 0 => steady = {}
    BY <2>1, AheadIsChain, ChainOfNone DEF Ahead
  <2>. QED  BY <1>1, <2>1, <2>2 DEF Ahead
<1>4. CASE AddCaller \/ NoObject
  <2>1. pd'.at = "idle" /\ steady' = {}
    BY <1>4 DEF AddCaller, NoObject, Idle
  <2>. QED  BY <2>1 DEF Ahead
<1>5. ASSUME NEW o \in Objects, NewObject(o)
      PROVE  Ahead'
  <2>1. /\ pd'.at = "search" /\ pd'.object = o /\ pd'.node = root
        /\ steady' = {d \in Reachable : Matches(d, o)}
    BY <1>5 DEF NewObject
  <2>2. steady' \subseteq DOMAIN dirs'
    BY <1>1, <2>1 DEF Listed
  <2>3. steady' \subseteq From(pd.node)'
    BY <1>1, <2>1, AheadIsChain, ReachableIsChain
  <2>4. \A d \in steady' : Matches(d, pd.object)'
    BY <1>1, <2>1 DEF Matches
  <2>. QED  BY <2>1, <2>2, <2>3, <2>4 DEF Ahead
<1>. QED  BY <1>2, <1>3, <1>4, <1>5 DEF PdStep, SearchStep

\* The nodes that stay are ahead of the search, whatever is done to the list.
LEMMA AheadKept ==
  ASSUME Types, Types', Served, News, Straight, Listed, Ahead, [Next]_clientVars
  PROVE  Ahead'
<1>1. CASE ~PdStep
  <2>. DEFINE x == input.dirname
  <2>1. UNCHANGED pd /\ steady' = IF Unlink THEN steady \ {x} ELSE steady
    BY <1>1, SearchChanges
  <2>2. steady' \subseteq DOMAIN dirs'
    BY <2>1, DirsGrow DEF Ahead
  <2>3. ASSUME pd'.at = "search"
        PROVE  steady' \subseteq Chain(next', pd'.node) /\ \A d \in steady' : Matches(d, pd.object)'
    <3>. DEFINE n == pd.node
    <3>1. /\ steady \subseteq Chain(next, n) /\ \A d \in steady : Matches(d, pd.object)
          /\ steady \subseteq DOMAIN dirs
      BY <2>1, <2>3, AheadIsChain DEF Ahead
    <3>2. \A d \in steady' : Matches(d, pd.object)'
      BY <2>1, <3>1, DirsGrow DEF Matches
    <3>3. n \in Dirs \cup {0}
      BY DEF Types, PdTypes
    <3>4. CASE Unlink
      BY <2>1, <3>1, <3>2, <3>3, <3>4, UnlinkChains
    <3>5. CASE Link
      <4>1. Chain(next', n) = Chain(next, n) /\ ~Unlink
        BY <3>3, <3>5, LinkChains DEF Link, Unlink, InputAt
      <4>. QED  BY <2>1, <3>1, <3>2, <4>1
    <3>6. CASE UNCHANGED next /\ ~Unlink
      BY <2>1, <3>1, <3>2, <3>6
    <3>. QED  BY <3>4, <3>5, <3>6, ListChanges DEF Publish
  <2>4. pd'.at = "not_found" => steady' = {}
    BY <2>1 DEF Ahead
  <2>. QED  BY <2>2, <2>3, <2>4, AheadIsChain DEF Ahead
<1>. QED  BY <1>1, PdAheadKept

-----------------------------------------------------------------------------
(***************************************************************************)
(* The invariant, and the theorems.                                        *)
(***************************************************************************)

\* The invariant holds when the server and the clients start.
LEMMA InvInit ==
  ASSUME Init
  PROVE  Inv
<1>. USE DEF Init
<1>1. Types
  BY DEF Types, ClientTypes, ClientPCs, InputTypes, InputPCs, PdTypes, Idle, locks,
     ClientsAssumption
<1>2. Owned /\ Requested /\ Served
  BY DEF Owned, OwnedBy, Settled, Requested, Served
<1>3. News
  <2>1. \A d \in Dirs : Unknown(d)
    BY ZeroIsNoDir DEF Unknown, Idle
  <2>2. \A c \in Users : ~Coming(c)
    BY DEF Coming, Sending
  <2>. QED  BY <2>1, <2>2 DEF News
<1>4. Straight
  <2>1. Ranks([d \in Dirs |-> 0]) /\ [d \in Dirs |-> 0] \in [Dirs -> Nat]
    BY DEF Ranks
  <2>. QED  BY <2>1 DEF Straight
<1>5. Listed
  <2>1. Reachable = {}
    BY ReachableIsChain, ChainOfNone
  <2>. QED  BY <2>1 DEF Listed
<1>6. Ahead
  BY DEF Ahead, Idle
<1>. QED  BY <1>1, <1>2, <1>3, <1>4, <1>5, <1>6 DEF Inv

\* Every step keeps it.
LEMMA InvKept ==
  ASSUME Inv, [Next]_clientVars
  PROVE  Inv'
<1>. USE DEF Inv
<1>1. Types'
  BY TypesKept
<1>. QED
  BY <1>1, OwnedKept, RequestedKept, ServedKept, NewsKept, StraightKept, ListedKept, AheadKept

THEOREM Invariance == Spec => []Inv
<1>1. Init => Inv
  BY InvInit
<1>2. Inv /\ [Next]_clientVars => Inv'
  BY InvKept
<1>. QED  BY <1>1, <1>2, PTL DEF Spec

\* No two clients ever use the same directory: a client uses only one that it has
\* made itself (dir.c:51-80).
THEOREM AlwaysDirsDistinct == Spec => []DirsDistinct
<1>1. Inv => DirsDistinct
  BY DEF Inv, Owned, OwnedBy, HasDir, DirsDistinct
<1>. QED  BY <1>1, Invariance, PTL

\* Between two requests the list, and the callers, are those of the clients that
\* are in: nobody is left in it, and nobody lost from it but a client whose exchange or
\* request failed on one side alone (clienthandler.c:44-107, audioplugin.c:129-131).
THEOREM AlwaysListMatchesClients == Spec => []ListMatchesClients
<1>1. ASSUME Inv, input.at = "accept", NEW c \in Users
      PROVE  /\ client[c].at = "active" => client[c].dirname \in Reachable \cup broken
             /\ client[c].at \in {"plugin", "waits"} => client[c].dirname \notin Reachable
             /\ client[c].at = "out" => \A d \in Reachable : dirs[d] # c
  <2>. Listed
    BY <1>1 DEF Inv
  <2>1. client[c].at = "active" => client[c].dirname \in Reachable \cup broken
    BY <1>1 DEF Listed
  <2>2. ASSUME client[c].at \in {"plugin", "waits"}
        PROVE  client[c].dirname \notin Reachable
    <3>. DEFINE d == client[c].dirname
    <3>1. HasDir(c) /\ Coming(c)
      BY <1>1, <2>2 DEF Inv, Owned, OwnedBy, Settled, Leaving, Sending
    <3>2. Unknown(d) /\ d \in Dirs /\ root \in Dirs \cup {0}
      BY <1>1, <3>1 DEF Inv, News, Types, HasDir
    <3>. QED  BY <1>1, <3>2, UnknownIsNotInChains, ReachableIsChain DEF Inv, Unknown
  <2>3. ASSUME client[c].at = "out", NEW d \in Reachable, dirs[d] = c
        PROVE  FALSE
    BY <2>3 DEF Listed, Leaving, Sending
  <2>. QED  BY <2>1, <2>2, <2>3
<1>2. Inv /\ input.at = "accept" => callers = Reachable
  BY DEF Inv, Listed
<1>3. Inv => ListMatchesClients
  BY <1>1, <1>2 DEF ListMatchesClients
<1>. QED  BY <1>3, Invariance, PTL

\* A search ends without a node only if no node that matched its name stayed in
\* the list all the time (clienthandler.c:30-41).
THEOREM AlwaysSearchFindsSteady == Spec => []SearchFindsSteady
<1>1. Inv => SearchFindsSteady
  BY DEF Inv, Ahead, SearchFindsSteady
<1>. QED  BY <1>1, Invariance, PTL
=============================================================================
