---------------------------- MODULE SignalProofs ----------------------------
(***************************************************************************)
(* The way of the sound, for any clients, ports, objects and vectors: what *)
(* a port is at each of the places where it is an index, and what has been *)
(* added up in the vectors when some of the callers were called.           *)
(***************************************************************************)
EXTENDS Signal, TLAPS, FiniteSetTheorems

-----------------------------------------------------------------------------
(***************************************************************************)
(* The clients and their callers.                                          *)
(***************************************************************************)
ClientType(plugin) ==
  [at : {"new", "told", "active", "dead"}, input_ports : Seq(Nat), output_ports : Seq(Nat),
   audioplugin : {plugin}]

\* The number of a port is its place.
Numbered(ports) == ports \in Seq(Nat) /\ \A i \in 1..Len(ports) : ports[i] = i - 1

\* Both sides lay out the memory from the ports the client has, which it registers
\* before anybody is told of them.
Registered(c) ==
  /\ client[c] \in ClientType(client[c].audioplugin)
  /\ Numbered(client[c].input_ports) /\ Numbered(client[c].output_ports)
  /\ client[c].audioplugin = IF client[c].at = "active" THEN Plugin(c) ELSE NULL
  /\ caller[c] = IF client[c].at = "new" THEN NULL ELSE Plugin(c)

Programs ==
  /\ client = [c \in Clients |-> client[c]]
  /\ caller = [c \in Clients |-> caller[c]]
  /\ \A c \in Clients : Registered(c)

NumIn(c) == Len(client[c].input_ports)
NumOut(c) == Len(client[c].output_ports)

-----------------------------------------------------------------------------
(***************************************************************************)
(* The object.                                                             *)
(***************************************************************************)
Performing == audio.at \in {"copy", "process", "mix", "end"}

ObjectType(x) ==
  [names : Seq(Clients), callers : Seq(Clients), num_inputs : Nat, num_outputs : Nat,
   dsp_vec_length : Nat, dsp_vec : {x.dsp_vec}, signals : {x.signals}]

\* No caller has more inputs or outputs than the object.
Formed ==
  /\ object \in ObjectType(object)
  /\ \A i \in 1..Len(object.callers) :
       LET c == object.callers[i] IN
       client[c].at # "new" /\ NumIn(c) <= object.num_inputs /\ NumOut(c) <= object.num_outputs

\* Pd made as many inlets and outlets as the parameters have room for.
Fits ==
  object.callers # <<>> /\ object.dsp_vec_length = object.num_inputs + object.num_outputs + 2

\* The vectors Pd gave are where they are looked for, and no two outlets have the same.
Connected ==
  /\ \A n \in 0..object.num_inputs - 1 :
       Inlet(n) = object.signals.inlets[n + 1] /\ Inlet(n) \in Vectors
  /\ \A n \in 0..object.num_outputs - 1 :
       Outlet(n) = object.signals.outlets[n] /\ Outlet(n) \in Vectors
  /\ \A m, n \in 0..object.num_outputs - 1 : Outlet(m) = Outlet(n) => m = n

Made ==
  /\ audio.at = "new" \/ object # NULL \/ Performing => Formed
  /\ audio.at = "new" => object.dsp_vec = NULL
  /\ (audio.at # "new" /\ object # NULL) \/ Performing => Fits
  /\ (object # NULL /\ object.dsp_vec # NULL /\ audio.at # "new") \/ Performing => Connected

Places ==
  /\ audio \in [at : {"idle", "new", "copy", "process", "mix", "end"}, lokke : Nat]
  /\ Performing => audio.lokke < Len(object.callers)
  /\ audio.at = "end" => audio.lokke + 1 = Len(object.callers)
  /\ ~Performing => audio.lokke = 0

-----------------------------------------------------------------------------
(***************************************************************************)
(* The sound.                                                              *)
(***************************************************************************)
\* Where the outlets are looked for.
Outlets == {Outlet(n) : n \in 0..object.num_outputs - 1}

Alive == \A i \in 1..Len(object.callers) : client[object.callers[i]].at # "dead"

\* The inputs and outputs of the caller at place i, how many callers were called, and
\* the places of those that give this output.
In(i) == Len(caller[object.callers[i]].inputs)
Out(i) == Len(caller[object.callers[i]].outputs)
Done == IF audio.at = "end" THEN audio.lokke + 1 ELSE audio.lokke
GivingTo(n, k) == {i \in 1..k : n < Out(i)}

\* What the client at place i hears: the inlets, unless Pd took an inlet's vector for
\* an outlet and somebody was called before.
Hears(i, hears) ==
  /\ DOMAIN hears = 1..In(i)
  /\ \A m \in 1..In(i) : hears[m] = <<Inlet(m - 1)>> \/ (i # 1 /\ Inlet(m - 1) \in Outlets)

Gave(sound, i, n) ==
  sound.client = object.callers[i] /\ sound.output = n /\ Hears(i, sound.hears)

\* Outlet n holds what the first k callers gave, in order.
SumOf(n, k) ==
  /\ \E S : vectors[Outlet(n)] \in Seq(S)
  /\ Len(vectors[Outlet(n)]) = Cardinality(GivingTo(n, k))
  /\ \A i \in GivingTo(n, k) : Gave(vectors[Outlet(n)][Cardinality(GivingTo(n, i))], i, n)

\* The vectors while the callers are called.
Summed ==
  /\ \A v \in Vectors : Done = 0 \/ v \notin Outlets => vectors[v] = <<v>>
  /\ Done # 0 => \A n \in 0..object.num_outputs - 1 : SumOf(n, Done)

\* The slots of the client that is called.
Copied ==
  LET i == audio.lokke + 1 IN
  /\ DOMAIN memory = 0..In(i) + Out(i) - 1
  /\ \A m \in 1..In(i) :
       memory[m - 1] = <<Inlet(m - 1)>> \/ (i # 1 /\ Inlet(m - 1) \in Outlets)

Processed ==
  LET i == audio.lokke + 1 IN
  \A n \in 0..Out(i) - 1 :
    \E hears : memory[In(i) + n] = Sound(Called, n, hears) /\ Hears(i, hears)

Sounds ==
  Performing /\ Alive =>
    /\ Summed
    /\ audio.at = "process" => Copied
    /\ audio.at = "mix" => Processed

\* The other vectors, also when a client has died.
Untouched ==
  /\ vectors = [v \in Vectors |-> vectors[v]]
  /\ Performing => \A v \in Vectors \ Outlets : vectors[v] = <<v>>

Inv == Programs /\ Made /\ Places /\ Sounds /\ Untouched

\* The slots of the inputs are the first ones, those of the outputs follow.
LEMMA SlotsFacts ==
  ASSUME NEW m \in Nat, NEW n \in Nat
  PROVE  /\ Slots(m, n).inputs \in Seq(Nat) /\ Slots(m, n).outputs \in Seq(Nat)
         /\ Len(Slots(m, n).inputs) = m /\ Len(Slots(m, n).outputs) = n
         /\ \A i \in 1..m : Slots(m, n).inputs[i] = i - 1
         /\ \A i \in 1..n : Slots(m, n).outputs[i] = m + i - 1
<1>1. [i \in 1..m |-> i - 1] \in Seq(Nat) /\ [i \in 1..n |-> m + i - 1] \in Seq(Nat)
  OBVIOUS
<1>2. Len([i \in 1..m |-> i - 1]) = m /\ Len([i \in 1..n |-> m + i - 1]) = n
  BY <1>1
<1> QED BY <1>1, <1>2 DEF Slots

-----------------------------------------------------------------------------
(***************************************************************************)
(* The clients' steps.                                                     *)
(***************************************************************************)
USE DEF Numbered, ClientType, NumIn, NumOut, Performing, ObjectType, Places

LEMMA InitInv == Init => Inv
BY DEF Init, Inv, Programs, Registered, Made, Sounds, Untouched, Plugin, Slots, Given

\* The clients that were told of stay as they are, but for what they are told and
\* whether they live.
Told(c) ==
  /\ client'[c].at # "new" /\ caller'[c] = caller[c]
  /\ client'[c].input_ports = client[c].input_ports
  /\ client'[c].output_ports = client[c].output_ports
  /\ client[c].at = "dead" => client'[c].at = "dead"

\* A port is given the number of those before it.
LEMMA NextIsNumbered ==
  ASSUME NEW ports, Numbered(ports)
  PROVE  Numbered(Append(ports, Len(ports)))
<1> DEFINE n == Len(ports)
<1>1. n \in Nat OBVIOUS
<1> HIDE DEF n
<1>2. Append(ports, n) \in Seq(Nat) BY <1>1
<1>3. Len(Append(ports, n)) = Len(ports) + 1 OBVIOUS
<1>4. \A i \in 1..Len(ports) + 1 : Append(ports, n)[i] = IF i <= Len(ports) THEN ports[i] ELSE n
  BY <1>1
<1>5. \A i \in 1..Len(ports) + 1 : Append(ports, n)[i] = i - 1 BY <1>1, <1>4 DEF n
<1>6. Numbered(Append(ports, n)) BY <1>2, <1>3, <1>5
<1> QED BY <1>6 DEF n

LEMMA RegisterKeeps ==
  ASSUME Inv, NEW c \in Clients, Register(c)
  PROVE  Programs' /\ \A d \in Clients : client[d].at # "new" => Told(d)
<1>1. PICK ports \in {"input_ports", "output_ports"} :
        client' = [client EXCEPT ![c][ports] = Append(@, Len(@))]
  BY DEF Register
<1>2. client[c].at = "new" /\ caller' = caller BY DEF Register
<1>3. Numbered(client[c][ports])
  <2>1. CASE ports = "input_ports" BY <2>1 DEF Inv, Programs, Registered
  <2>2. CASE ports = "output_ports" BY <2>2 DEF Inv, Programs, Registered
  <2> QED BY <2>1, <2>2
<1>4. Numbered(Append(client[c][ports], Len(client[c][ports]))) BY <1>3, NextIsNumbered
<1>5. Registered(c)'
  <2>1. CASE ports = "input_ports" BY <1>1, <1>2, <1>4, <2>1 DEF Inv, Programs, Registered
  <2>2. CASE ports = "output_ports" BY <1>1, <1>2, <1>4, <2>2 DEF Inv, Programs, Registered
  <2> QED BY <2>1, <2>2
<1>6. \A d \in Clients \ {c} : client'[d] = client[d] BY <1>1 DEF Inv, Programs
<1>7. \A d \in Clients \ {c} : Registered(d)'
  BY <1>2, <1>6 DEF Inv, Programs, Registered, Plugin
<1>8. client' = [d \in Clients |-> client'[d]] BY <1>1 DEF Inv, Programs
<1> QED BY <1>2, <1>5, <1>6, <1>7, <1>8 DEF Inv, Programs, Told

LEMMA TellKeeps ==
  ASSUME Inv, NEW c \in Clients, Tell(c) \/ Activated(c)
  PROVE  Programs' /\ \A d \in Clients : client[d].at # "new" => Told(d)
<1>1. \A d \in Clients \ {c} : client'[d] = client[d] /\ caller'[d] = caller[d]
  BY DEF Inv, Programs, Tell, Activated
<1>2. \A d \in Clients \ {c} : Registered(d)' BY <1>1 DEF Inv, Programs, Registered, Plugin
<1>3. client' = [d \in Clients |-> client'[d]] /\ caller' = [d \in Clients |-> caller'[d]]
  BY DEF Inv, Programs, Tell, Activated
<1>4. Registered(c)' /\ (client[c].at # "new" => Told(c))
  <2>1. Registered(c) BY DEF Inv, Programs
  <2>2. CASE Tell(c) BY <2>1, <2>2 DEF Inv, Programs, Registered, Plugin, Tell, Told
  <2>3. CASE Activated(c) BY <2>1, <2>3 DEF Inv, Programs, Registered, Plugin, Activated, Told
  <2> QED BY <2>2, <2>3
<1> QED BY <1>1, <1>2, <1>3, <1>4 DEF Programs, Told

\* The other steps keep the callers too, and the clients but for those that die.
LEMMA AllStayTold ==
  ASSUME Programs, UNCHANGED <<client, caller>>
  PROVE  Programs' /\ \A d \in Clients : client[d].at # "new" => Told(d)
BY DEF Programs, Registered, Plugin, Told

LEMMA DiesKeeps ==
  ASSUME Programs, NEW c \in Clients, client[c].at # "new", client[c].audioplugin = NULL,
         client' = [client EXCEPT ![c].at = "dead"], UNCHANGED caller
  PROVE  Programs' /\ \A d \in Clients : client[d].at # "new" => Told(d)
<1>1. \A d \in Clients \ {c} : client'[d] = client[d] BY DEF Programs
<1>2. \A d \in Clients \ {c} : Registered(d)' BY <1>1 DEF Programs, Registered, Plugin
<1>3. client' = [d \in Clients |-> client'[d]] BY DEF Programs
<1>4. Registered(c)' /\ Told(c) BY DEF Programs, Registered, Plugin, Told
<1> QED BY <1>1, <1>2, <1>3, <1>4 DEF Programs, Told

-----------------------------------------------------------------------------
(***************************************************************************)
(* The object's steps.                                                     *)
(***************************************************************************)
StaysTold == \A d \in Clients : client[d].at # "new" => Told(d)

LEMMA FormedStays ==
  ASSUME Formed, StaysTold, UNCHANGED object
  PROVE  Formed' /\ \A i \in 1..Len(object.callers) : Told(object.callers[i])
<1>1. \A i \in 1..Len(object.callers) : object.callers[i] \in Clients BY DEF Formed
<1>2. \A i \in 1..Len(object.callers) : Told(object.callers[i])
  BY <1>1 DEF Formed, StaysTold
<1> QED BY <1>1, <1>2 DEF Formed, Told

LEMMA NewKeeps ==
  ASSUME Inv, New
  PROVE  Made'
<1>1. PICK names \in Arguments :
        object' = [names |-> names, callers |-> <<>>, num_inputs |-> 0, num_outputs |-> 0,
                   dsp_vec_length |-> 0, dsp_vec |-> NULL, signals |-> NULL]
  BY DEF New
<1>2. names \in Seq(Clients) BY SignalAssumption
<1>3. Formed' BY <1>1, <1>2 DEF Formed
<1>4. audio'.at = "new" BY DEF New, Inv
<1> QED BY <1>1, <1>3, <1>4 DEF Made

LEMMA GreaterFacts ==
  ASSUME NEW m \in Nat, NEW n \in Nat
  PROVE  Greater(m, n) \in Nat /\ m <= Greater(m, n) /\ n <= Greater(m, n)
BY DEF Greater

LEMMA AddCallerKeeps ==
  ASSUME Inv, AddCaller
  PROVE  Made'
<1>1. Formed /\ audio.at = "new" /\ audio' = audio /\ object.dsp_vec = NULL
  BY DEF AddCaller, Inv, Made
<1> DEFINE c == Head(object.names)
<1>2. c \in Clients /\ Tail(object.names) \in Seq(Clients)
  BY <1>1 DEF AddCaller, Formed
<1>3. CASE caller[c] = NULL
  <2>1. object' = [object EXCEPT !.names = Tail(@)] BY <1>3 DEF AddCaller
  <2>2. Formed' BY <1>1, <1>2, <2>1 DEF Formed, AddCaller
  <2> QED BY <1>1, <2>1, <2>2 DEF Made, Formed
<1>4. CASE caller[c] # NULL
  <2>1. object' = [object EXCEPT !.names = Tail(@), !.callers = Append(@, c),
                                 !.num_inputs = Greater(@, Len(caller[c].inputs)),
                                 !.num_outputs = Greater(@, Len(caller[c].outputs))]
    BY <1>4 DEF AddCaller
  <2>2. client[c].at # "new" /\ Len(caller[c].inputs) = NumIn(c)
          /\ Len(caller[c].outputs) = NumOut(c) /\ NumIn(c) \in Nat /\ NumOut(c) \in Nat
    <3>1. client[c].at # "new" /\ caller[c] = Plugin(c) /\ NumIn(c) \in Nat /\ NumOut(c) \in Nat
      BY <1>2, <1>4 DEF Inv, Programs, Registered
    <3>2. caller[c] = Slots(NumIn(c), NumOut(c)) BY <3>1 DEF Plugin
    <3> HIDE DEF NumIn, NumOut
    <3> QED BY <3>1, <3>2, SlotsFacts
  <2>3. /\ object.num_inputs \in Nat /\ object.num_outputs \in Nat
        /\ object'.num_inputs = Greater(object.num_inputs, NumIn(c))
        /\ object'.num_outputs = Greater(object.num_outputs, NumOut(c))
        /\ object'.callers = Append(object.callers, c)
    BY <1>1, <2>1, <2>2 DEF Formed
  <2>4. /\ object'.num_inputs \in Nat /\ object'.num_outputs \in Nat
        /\ object.num_inputs <= object'.num_inputs /\ NumIn(c) <= object'.num_inputs
        /\ object.num_outputs <= object'.num_outputs /\ NumOut(c) <= object'.num_outputs
    BY <2>2, <2>3, GreaterFacts
  <2>5. object' \in ObjectType(object') /\ object'.dsp_vec = NULL
    <3>1. Append(object.callers, c) \in Seq(Clients) BY <1>1, <1>2 DEF Formed
    <3>2. /\ object'.names = Tail(object.names) /\ object'.dsp_vec = NULL
          /\ object'.dsp_vec_length \in Nat
          /\ object' = [f \in {"names", "callers", "num_inputs", "num_outputs",
                               "dsp_vec_length", "dsp_vec", "signals"} |-> object'[f]]
      BY <1>1, <2>1 DEF Formed
    <3> QED BY <1>2, <2>3, <2>4, <3>1, <3>2
  <2>6. \A i \in 1..Len(object'.callers) :
          LET d == object'.callers[i] IN
          client[d].at # "new" /\ NumIn(d) <= object'.num_inputs /\ NumOut(d) <= object'.num_outputs
    <3> TAKE i \in 1..Len(object'.callers)
    <3>1. CASE i \in 1..Len(object.callers)
      <4>1. object'.callers[i] = object.callers[i] /\ object.callers[i] \in Clients
        BY <1>1, <1>2, <2>3, <3>1 DEF Formed
      <4>2. /\ client[object.callers[i]].at # "new"
            /\ NumIn(object.callers[i]) <= object.num_inputs
            /\ NumOut(object.callers[i]) <= object.num_outputs
        BY <1>1, <3>1 DEF Formed
      <4>3. NumIn(object.callers[i]) \in Nat /\ NumOut(object.callers[i]) \in Nat
        BY <4>1 DEF Inv, Programs, Registered
      <4> HIDE DEF NumIn, NumOut
      <4> QED BY <2>3, <2>4, <4>1, <4>2, <4>3
    <3>2. CASE i = Len(object.callers) + 1
      <4>1. object'.callers[i] = c BY <1>1, <1>2, <2>3, <3>2 DEF Formed
      <4> QED BY <2>2, <2>4, <4>1
    <3> QED BY <1>1, <1>2, <2>3, <3>1, <3>2 DEF Formed
  <2>7. Formed' BY <2>5, <2>6 DEF Formed, AddCaller
  <2> QED BY <1>1, <2>5, <2>7 DEF Made
<1> QED BY <1>3, <1>4

LEMMA NewReturnsKeeps ==
  ASSUME Inv, NewReturns
  PROVE  Made'
<1>1. Formed /\ object.dsp_vec = NULL /\ audio.at = "new" BY DEF NewReturns, Inv, Made
<1>2. audio'.at = "idle" BY DEF NewReturns, Inv
<1>3. CASE object.callers = <<>>
  BY <1>2, <1>3 DEF NewReturns, Made
<1>4. CASE object.callers # <<>>
  <2>1. object' = [object EXCEPT !.dsp_vec_length = object.num_inputs + object.num_outputs + 2]
    BY <1>4 DEF NewReturns
  <2>2. object' \in ObjectType(object') BY <1>1, <2>1 DEF Formed
  <2>3. /\ object'.dsp_vec = NULL /\ object'.callers = object.callers
        /\ object'.num_inputs = object.num_inputs /\ object'.num_outputs = object.num_outputs
        /\ object'.dsp_vec_length = object.num_inputs + object.num_outputs + 2
    BY <1>1, <2>1 DEF Formed
  <2>4. Formed' BY <1>1, <2>2, <2>3 DEF Formed, NewReturns
  <2>5. Fits' BY <1>4, <2>3 DEF Fits
  <2> QED BY <1>2, <2>3, <2>4, <2>5 DEF Made
<1> QED BY <1>3, <1>4

\* The inlets and outlets are where they are looked for.
LEMMA DspKeeps ==
  ASSUME Inv, Dsp
  PROVE  Made'
<1>1. audio.at = "idle" /\ object # NULL /\ audio' = audio /\ UNCHANGED <<client, caller>>
  BY DEF Dsp
<1>2. Formed /\ Fits BY <1>1 DEF Inv, Made
<1> DEFINE ni == object.num_inputs
           no == object.num_outputs
<1>3. PICK s \in Signals(ni, no) :
        object' = [object EXCEPT !.signals = s, !.dsp_vec =
          [i \in 2..object.dsp_vec_length - 1 |-> Sp(s, ni, i - 1)]]
  BY DEF Dsp
<1>4. /\ object'.callers = object.callers /\ object'.num_inputs = ni
      /\ object'.num_outputs = no /\ object'.signals = s
      /\ object'.dsp_vec_length = object.dsp_vec_length
      /\ object'.dsp_vec = [i \in 2..object.dsp_vec_length - 1 |-> Sp(s, ni, i - 1)]
      /\ object' \in ObjectType(object')
  BY <1>2, <1>3 DEF Formed
<1>5. Formed' BY <1>1, <1>2, <1>4 DEF Formed
<1>6. Fits' BY <1>2, <1>4 DEF Fits
<1>7. ni \in Nat /\ no \in Nat /\ object.dsp_vec_length = ni + no + 2
  BY <1>2 DEF Formed, Fits
<1>8. /\ s.inlets \in [0..ni -> Vectors] /\ s.outlets \in [0..no - 1 -> Vectors]
      /\ \A m, n \in 0..no - 1 : m # n => s.outlets[m] # s.outlets[n]
  BY DEF Signals
<1>9. Connected'
  <2>1. \A n \in 0..ni - 1 : Inlet(n)' = s.inlets[n + 1]
    <3> TAKE n \in 0..ni - 1
    <3>1. Inlet(n)' = object'.dsp_vec[2 + n] BY DEF Inlet
    <3>2. 2 + n \in 2..object.dsp_vec_length - 1 /\ (2 + n) - 1 = n + 1 /\ n + 1 <= ni
      BY <1>7
    <3> QED BY <1>4, <3>1, <3>2 DEF Sp
  <2>2. \A n \in 0..no - 1 : Outlet(n)' = s.outlets[n]
    <3> TAKE n \in 0..no - 1
    <3>1. Outlet(n)' = object'.dsp_vec[2 + ni + n] BY <1>4 DEF Outlet
    <3> DEFINE i == 2 + ni + n
    <3>2. i \in 2..object.dsp_vec_length - 1 /\ ~(i - 1 <= ni) /\ (i - 1) - ni - 1 = n
      BY <1>7
    <3>3. Outlet(n)' = object'.dsp_vec[i] BY <3>1
    <3> HIDE DEF i, ni
    <3>4. Outlet(n)' = Sp(s, ni, i - 1) BY <1>4, <3>2, <3>3
    <3> QED BY <3>2, <3>4 DEF Sp
  <2>3. \A n \in 0..ni - 1 : n + 1 \in 0..ni BY <1>7
  <2>4. \A n \in 0..ni - 1 : Inlet(n)' \in Vectors BY <1>8, <2>1, <2>3
  <2>5. \A n \in 0..no - 1 : Outlet(n)' \in Vectors BY <1>8, <2>2
  <2>6. \A m, n \in 0..no - 1 : Outlet(m)' = Outlet(n)' => m = n BY <1>8, <2>2
  <2> QED BY <1>4, <2>1, <2>2, <2>4, <2>5, <2>6 DEF Connected
<1> QED BY <1>1, <1>5, <1>6, <1>9 DEF Made

-----------------------------------------------------------------------------
(***************************************************************************)
(* The callers of an object that performs.                                 *)
(***************************************************************************)
LEMMA CallerFacts ==
  ASSUME Programs, Formed, NEW i \in 1..Len(object.callers)
  PROVE  LET c == object.callers[i] IN
         /\ c \in Clients /\ client[c].at # "new" /\ Registered(c)
         /\ In(i) = NumIn(c) /\ Out(i) = NumOut(c) /\ In(i) \in Nat /\ Out(i) \in Nat
         /\ In(i) <= object.num_inputs /\ Out(i) <= object.num_outputs
         /\ caller[c].inputs \in Seq(Nat) /\ caller[c].outputs \in Seq(Nat)
         /\ \A m \in 1..In(i) : caller[c].inputs[m] = m - 1
         /\ \A m \in 1..Out(i) : caller[c].outputs[m] = In(i) + m - 1
<1> DEFINE c == object.callers[i]
<1>1. c \in Clients /\ client[c].at # "new" BY DEF Formed
<1>2. NumIn(c) \in Nat /\ NumOut(c) \in Nat /\ NumIn(c) <= object.num_inputs
        /\ NumOut(c) <= object.num_outputs /\ Registered(c)
  BY <1>1 DEF Formed, Programs, Registered
<1>3. caller[c] = Slots(NumIn(c), NumOut(c)) BY <1>1, <1>2 DEF Registered, Plugin
<1> HIDE DEF NumIn, NumOut
<1> DEFINE m == NumIn(c)
           n == NumOut(c)
           s == Slots(m, n)
<1>4. /\ s.inputs \in Seq(Nat) /\ s.outputs \in Seq(Nat) /\ Len(s.inputs) = m
      /\ Len(s.outputs) = n /\ \A j \in 1..m : s.inputs[j] = j - 1
      /\ \A j \in 1..n : s.outputs[j] = m + j - 1
  <2> HIDE DEF m, n
  <2>1. m \in Nat /\ n \in Nat BY <1>2 DEF m, n
  <2> QED BY <2>1, SlotsFacts
<1>5. In(i) = m /\ Out(i) = n BY <1>3, <1>4 DEF In, Out
<1> HIDE DEF s
<1>6. caller[c] = s BY <1>3 DEF s
<1> QED BY <1>1, <1>2, <1>4, <1>5, <1>6

LEMMA PerformFacts ==
  ASSUME Made, Places, Performing
  PROVE  /\ Formed /\ Fits /\ Connected
         /\ object.num_inputs \in Nat /\ object.num_outputs \in Nat
         /\ object.callers \in Seq(Clients) /\ audio.lokke \in Nat
         /\ audio.lokke + 1 \in 1..Len(object.callers)
         /\ Called = object.callers[audio.lokke + 1] /\ Called \in Clients
<1>1. Formed /\ Fits /\ Connected BY DEF Made
<1>2. object.callers \in Seq(Clients) /\ object.num_inputs \in Nat /\ object.num_outputs \in Nat
  BY <1>1 DEF Formed
<1>3. audio.lokke \in Nat /\ audio.lokke + 1 \in 1..Len(object.callers) BY <1>2
<1> QED BY <1>1, <1>2, <1>3 DEF Called

\* The place of a sound in the sum is the number of those that gave one up to it.
LEMMA RankFacts ==
  ASSUME NEW n, NEW k \in Nat
  PROVE  /\ IsFiniteSet(GivingTo(n, k)) /\ Cardinality(GivingTo(n, k)) \in Nat
         /\ k = 0 => Cardinality(GivingTo(n, k)) = 0
         /\ \A i \in GivingTo(n, k) :
              Cardinality(GivingTo(n, i)) \in 1..Cardinality(GivingTo(n, k))
         /\ GivingTo(n, k + 1) = IF n < Out(k + 1) THEN GivingTo(n, k) \cup {k + 1}
                                 ELSE GivingTo(n, k)
         /\ n < Out(k + 1) =>
              Cardinality(GivingTo(n, k + 1)) = Cardinality(GivingTo(n, k)) + 1
<1>1. \A j \in Nat : IsFiniteSet(GivingTo(n, j)) /\ Cardinality(GivingTo(n, j)) \in Nat
  <2> TAKE j \in Nat
  <2>1. IsFiniteSet(1..j) BY FS_Interval
  <2>2. GivingTo(n, j) \subseteq 1..j BY DEF GivingTo
  <2>3. IsFiniteSet(GivingTo(n, j)) BY <2>1, <2>2, FS_Subset
  <2> QED BY <2>3, FS_CardinalityType
<1>2. k = 0 => GivingTo(n, k) = {} BY DEF GivingTo
<1>3. \A i \in GivingTo(n, k) :
        Cardinality(GivingTo(n, i)) \in 1..Cardinality(GivingTo(n, k))
  <2> TAKE i \in GivingTo(n, k)
  <2>1. i \in Nat /\ i \in GivingTo(n, i) /\ GivingTo(n, i) \subseteq GivingTo(n, k)
    BY DEF GivingTo
  <2>2. Cardinality(GivingTo(n, i)) <= Cardinality(GivingTo(n, k)) BY <1>1, <2>1, FS_Subset
  <2>3. Cardinality(GivingTo(n, i)) # 0 BY <1>1, <2>1, FS_EmptySet
  <2> QED BY <1>1, <2>1, <2>2, <2>3
<1>4. GivingTo(n, k + 1) = IF n < Out(k + 1) THEN GivingTo(n, k) \cup {k + 1}
                           ELSE GivingTo(n, k)
  BY DEF GivingTo
<1>5. k + 1 \notin GivingTo(n, k) BY DEF GivingTo
<1>6. n < Out(k + 1) => Cardinality(GivingTo(n, k + 1)) = Cardinality(GivingTo(n, k)) + 1
  BY <1>1, <1>4, <1>5, FS_AddElement
<1> QED BY <1>1, <1>2, <1>3, <1>4, <1>6, FS_EmptySet

-----------------------------------------------------------------------------
(***************************************************************************)
(* The sound's steps.                                                      *)
(***************************************************************************)
LEMMA ObjectStays ==
  ASSUME Formed, Fits, Connected, UNCHANGED <<client, object>>
  PROVE  Formed' /\ Fits' /\ Connected'
BY DEF Formed, Fits, Connected, Inlet, Outlet

HIDE DEF NumIn, NumOut, Numbered, ClientType, ObjectType

LEMMA IdleKeeps ==
  ASSUME audio'.at \notin {"copy", "process", "mix", "end"}
  PROVE  Sounds'
BY DEF Sounds

\* A client's step while the object performs.
LEMMA SoundsStay ==
  ASSUME Inv, StaysTold, UNCHANGED <<object, audio, memory, vectors>>
  PROVE  Made' /\ Sounds'
<1>1. Formed => Formed' BY FormedStays
<1>2. (Fits => Fits') /\ (Connected => Connected')
  BY DEF Fits, Connected, Inlet, Outlet
<1>3. Made' BY <1>1, <1>2 DEF Inv, Made
<1>4. Sounds'
  <2> SUFFICES ASSUME Performing, Alive'
               PROVE  /\ Summed' /\ (audio.at = "process" => Copied')
                      /\ (audio.at = "mix" => Processed')
    BY DEF Sounds
  <2> DEFINE N == Len(object.callers)
  <2>1. /\ Formed /\ object.callers \in Seq(Clients) /\ N \in Nat
        /\ audio.lokke \in Nat /\ audio.lokke + 1 \in 1..N /\ Called = object.callers[audio.lokke + 1]
    BY PerformFacts DEF Inv
  <2>2. \A i \in 1..N : Told(object.callers[i]) BY <2>1, FormedStays
  <2>3. \A i \in 1..N : In(i)' = In(i) /\ Out(i)' = Out(i) BY <2>2 DEF Told, In, Out
  <2>4. Alive BY <2>2 DEF Alive, Told
  <2>5. Summed /\ (audio.at = "process" => Copied) /\ (audio.at = "mix" => Processed)
    BY <2>4 DEF Inv, Sounds
  <2>6. \A n : Inlet(n)' = Inlet(n) /\ Outlet(n)' = Outlet(n) BY DEF Inlet, Outlet
  <2>7. Outlets' = Outlets /\ Called' = Called BY <2>6 DEF Outlets, Called
  <2>8. \A i \in 1..N : \A hears : Hears(i, hears) => Hears(i, hears)'
    BY <2>3, <2>6, <2>7 DEF Hears
  <2>9. \A n : \A k \in 0..N : GivingTo(n, k)' = GivingTo(n, k) BY <2>1, <2>3 DEF GivingTo
  <2>10. Done' = Done /\ Done \in 0..N BY <2>1 DEF Done
  <2>11. Summed'
    <3>1. \A v \in Vectors : (Done = 0 \/ v \notin Outlets)' => vectors'[v] = <<v>>
      BY <2>5, <2>7, <2>10 DEF Summed
    <3>2. ASSUME Done # 0, NEW n \in 0..object.num_outputs - 1
          PROVE  SumOf(n, Done)'
      <4>1. SumOf(n, Done) BY <2>5, <3>2 DEF Summed
      <4>2. \A i \in 1..N : \A sound : Gave(sound, i, n) => Gave(sound, i, n)'
        BY <2>8 DEF Gave
      <4>3. GivingTo(n, Done)' = GivingTo(n, Done) BY <2>9, <2>10
      <4>4. \A i \in GivingTo(n, Done) : i \in 1..N /\ GivingTo(n, i)' = GivingTo(n, i)
        BY <2>1, <2>9, <2>10 DEF GivingTo
      <4>5. vectors'[Outlet(n)'] = vectors[Outlet(n)] BY <2>6
      <4> QED BY <4>1, <4>2, <4>3, <4>4, <4>5 DEF SumOf
    <3> QED BY <2>10, <3>1, <3>2 DEF Summed
  <2>12. audio.at = "process" => Copied'
    BY <2>1, <2>3, <2>5, <2>6, <2>7 DEF Copied
  <2>13. audio.at = "mix" => Processed'
    BY <2>1, <2>3, <2>5, <2>7, <2>8 DEF Processed
  <2> QED BY <2>11, <2>12, <2>13
<1> QED BY <1>3, <1>4

LEMMA SummedStays ==
  ASSUME Summed, UNCHANGED <<caller, object, vectors>>, Done' = Done
  PROVE  Summed'
<1>1. \A n : Inlet(n)' = Inlet(n) /\ Outlet(n)' = Outlet(n) BY DEF Inlet, Outlet
<1>2. Outlets' = Outlets BY <1>1 DEF Outlets
<1>3. \A n, k : GivingTo(n, k)' = GivingTo(n, k) BY DEF GivingTo, Out
<1>4. \A i, hears : Hears(i, hears)' = Hears(i, hears) BY <1>1, <1>2 DEF Hears, In
<1>5. \A sound, i, n : Gave(sound, i, n)' = Gave(sound, i, n) BY <1>4 DEF Gave
<1>6. \A n, k : SumOf(n, k) => SumOf(n, k)' BY <1>1, <1>3, <1>5 DEF SumOf
<1> QED BY <1>2, <1>6 DEF Summed

LEMMA PerformKeeps ==
  ASSUME Inv, Perform
  PROVE  Made' /\ Places' /\ Sounds'
<1>1. /\ audio.at = "idle" /\ object # NULL /\ object.dsp_vec # NULL
      /\ audio' = [at |-> "copy", lokke |-> 0] /\ vectors' = [v \in Vectors |-> <<v>>]
      /\ UNCHANGED <<client, caller, object>>
  BY DEF Perform, Given
<1>2. Formed /\ Fits /\ Connected BY <1>1 DEF Inv, Made
<1>3. Formed' /\ Fits' /\ Connected'
  BY <1>1, <1>2, ObjectStays
<1>4. Len(object.callers) \in Nat \ {0} BY <1>2 DEF Formed, Fits
<1>5. Places' BY <1>1, <1>4
<1>6. Summed' BY <1>1 DEF Summed, Done
<1> QED BY <1>1, <1>3, <1>5, <1>6 DEF Made, Sounds

LEMMA CopyInKeeps ==
  ASSUME Inv, CopyIn
  PROVE  Made' /\ Places' /\ Sounds'
<1>1. /\ audio.at = "copy" /\ audio'.at = "process" /\ audio'.lokke = audio.lokke
      /\ audio' \in [at : {"process"}, lokke : Nat]
      /\ UNCHANGED <<client, caller, object, vectors>>
  BY DEF CopyIn, Inv
<1>2. Formed /\ Fits /\ Connected BY <1>1 DEF Inv, Made
<1>3. Made' /\ Places'
  BY <1>1, <1>2, ObjectStays DEF Inv, Made
<1> DEFINE i == audio.lokke + 1
           c == object.callers[i]
<1>4. /\ object.num_inputs \in Nat /\ i \in 1..Len(object.callers) /\ i \in Nat
      /\ Called = c /\ (i = 1 <=> audio.lokke = 0)
  BY <1>1, PerformFacts DEF Inv
<1>5. /\ In(i) \in Nat /\ Out(i) \in Nat /\ In(i) <= object.num_inputs
      /\ caller[c].inputs \in Seq(Nat) /\ Len(caller[c].inputs) = In(i)
      /\ \A m \in 1..In(i) : caller[c].inputs[m] = m - 1
  BY <1>2, <1>4, CallerFacts DEF Inv, In
<1>6. ASSUME Alive
      PROVE  Copied'
  <2>1. Summed /\ Done = audio.lokke BY <1>1, <1>6 DEF Inv, Sounds, Done
  <2> DEFINE inputs == caller[c].inputs
             from(s) == CHOOSE n \in DOMAIN inputs : inputs[n] = s
  <2>2. memory' = [s \in 0..In(i) + Out(i) - 1 |->
          IF \E n \in DOMAIN inputs : inputs[n] = s
          THEN vectors[Inlet(from(s) - 1)] ELSE garbage]
    BY <1>4 DEF CopyIn, In, Out
  <2>3. DOMAIN inputs = 1..In(i) /\ \A n \in 1..In(i) : inputs[n] = n - 1 BY <1>5
  <2>4. \A m \in 1..In(i) : memory'[m - 1] = vectors[Inlet(m - 1)]
    <3> TAKE m \in 1..In(i)
    <3>1. \A n \in DOMAIN inputs : inputs[n] = m - 1 <=> n = m
      <4> HIDE DEF inputs, i
      <4> QED BY <1>5, <2>3
    <3>2. from(m - 1) = m BY <2>3, <3>1
    <3>3. m - 1 \in 0..In(i) + Out(i) - 1 BY <1>5
    <3> QED BY <2>2, <2>3, <3>1, <3>2, <3>3
  <2>5. \A m \in 1..In(i) :
          vectors[Inlet(m - 1)] = <<Inlet(m - 1)>> \/ (i # 1 /\ Inlet(m - 1) \in Outlets)
    <3> TAKE m \in 1..In(i)
    <3>1. Inlet(m - 1) \in Vectors BY <1>2, <1>4, <1>5 DEF Connected
    <3> QED BY <1>4, <2>1, <3>1 DEF Summed
  <2>6. \A m \in 1..In(i) :
          memory'[m - 1] = <<Inlet(m - 1)>> \/ (i # 1 /\ Inlet(m - 1) \in Outlets)
    BY <2>4, <2>5
  <2> QED BY <1>1, <2>2, <2>6 DEF Copied, In, Out, Inlet, Outlets, Outlet
<1>7. Alive' => Alive /\ (Summed => Summed')
  <2>1. Alive' => Alive BY <1>1 DEF Alive
  <2>2. Done' = Done BY <1>1 DEF Done
  <2> QED BY <1>1, <2>1, <2>2, SummedStays
<1> QED BY <1>1, <1>3, <1>6, <1>7 DEF Inv, Sounds

LEMMA PerformReturnKeeps ==
  ASSUME Inv, PerformReturn
  PROVE  Made' /\ Places' /\ Sounds'
<1>1. /\ audio.at = "end" /\ audio' = [at |-> "idle", lokke |-> 0]
      /\ UNCHANGED <<client, caller, object>>
  BY DEF PerformReturn
<1>2. Formed /\ Fits /\ Connected BY <1>1 DEF Inv, Made
<1>3. Made'
  BY <1>1, <1>2, ObjectStays DEF Made
<1> QED BY <1>1, <1>3 DEF Sounds

\* The buffer of a port is the slot at its place.
LEMMA BufferFacts ==
  ASSUME NEW m \in Nat, NEW n \in Nat
  PROVE  /\ \A j \in 1..m : Buffer(Slots(m, n).inputs, j - 1) = j - 1
         /\ \A j \in 1..n : Buffer(Slots(m, n).outputs, j - 1) = m + j - 1
<1> DEFINE s == Slots(m, n)
<1>1. /\ Len(s.inputs) = m /\ Len(s.outputs) = n
      /\ \A j \in 1..m : s.inputs[j] = j - 1
      /\ \A j \in 1..n : s.outputs[j] = m + j - 1
  BY SlotsFacts
<1> HIDE DEF s
<1>2. \A j \in 1..m : j - 1 < Len(s.inputs) /\ (j - 1) + 1 = j BY <1>1
<1>3. \A j \in 1..n : j - 1 < Len(s.outputs) /\ (j - 1) + 1 = j BY <1>1
<1> QED BY <1>1, <1>2, <1>3 DEF Buffer, s

\* The client hears what is in the first slots, and what it gives is behind it.
LEMMA ProcessWrites ==
  ASSUME Process, Registered(Called), NEW m \in Nat, NEW n \in Nat,
         m = NumIn(Called), n = NumOut(Called), n # 0, DOMAIN memory = 0..m + n - 1
  PROVE  \A k \in 0..n - 1 :
           memory'[m + k] = Sound(Called, k, [j \in 1..m |-> memory[j - 1]])
<1> DEFINE self == client[Called]
           plugin == self.audioplugin
           heard == [j \in DOMAIN self.input_ports |->
             LET slot == Buffer(plugin.inputs, self.input_ports[j]) IN
             IF slot = NULL THEN garbage ELSE memory[slot]]
           Written(s) == {j \in DOMAIN self.output_ports :
             Buffer(plugin.outputs, self.output_ports[j]) = s}
<1>1. /\ plugin # NULL \/ ~HasPorts(Called)
      /\ memory' = [s \in DOMAIN memory |->
           IF Written(s) = {} THEN memory[s]
           ELSE Sound(Called, (CHOOSE j \in Written(s) : TRUE) - 1, heard)]
  BY DEF Process
<1>2. HasPorts(Called)
  <2>1. m + n > 0 OBVIOUS
  <2> QED BY <2>1 DEF HasPorts, NumIn, NumOut
<1>3. plugin = Slots(m, n) BY <1>1, <1>2 DEF Registered, Plugin
<1>4. /\ self.input_ports \in Seq(Nat) /\ Len(self.input_ports) = m
      /\ \A j \in 1..m : self.input_ports[j] = j - 1
      /\ self.output_ports \in Seq(Nat) /\ Len(self.output_ports) = n
      /\ \A j \in 1..n : self.output_ports[j] = j - 1
  BY DEF Registered, Numbered, NumIn, NumOut
<1>5. /\ \A j \in 1..m : Buffer(plugin.inputs, j - 1) = j - 1
      /\ \A j \in 1..n : Buffer(plugin.outputs, j - 1) = m + j - 1
  BY <1>3, BufferFacts
<1> HIDE DEF self, plugin
<1>6. DOMAIN self.input_ports = 1..m /\ DOMAIN self.output_ports = 1..n BY <1>4
<1>7. heard = [j \in 1..m |-> memory[j - 1]]
  <2>1. \A j \in 1..m : j - 1 # NULL BY SignalAssumption
  <2> QED BY <1>4, <1>5, <1>6, <2>1
<1>8. \A k \in 0..n - 1 : Written(m + k) = {k + 1}
  <2>1. \A k \in 0..n - 1 : \A j \in 1..n : m + j - 1 = m + k <=> j = k + 1 OBVIOUS
  <2>2. \A k \in 0..n - 1 : k + 1 \in 1..n OBVIOUS
  <2>3. \A j \in 1..n : Buffer(plugin.outputs, self.output_ports[j]) = m + j - 1
    BY <1>4, <1>5
  <2> QED
    <3> TAKE k \in 0..n - 1
    <3>1. \A j \in 1..n : Buffer(plugin.outputs, self.output_ports[j]) = m + k <=> j = k + 1
      BY <2>1, <2>3
    <3> QED BY <1>6, <2>2, <3>1
<1> HIDE DEF heard
<1>9. ASSUME NEW k \in 0..n - 1
      PROVE  memory'[m + k] = Sound(Called, k, heard)
  <2>1. m + k \in 0..m + n - 1 OBVIOUS
  <2>2. (CHOOSE j \in {k + 1} : TRUE) = k + 1 OBVIOUS
  <2>3. Written(m + k) = {k + 1} /\ {k + 1} # {} BY <1>8
  <2> HIDE DEF Written
  <2>4. memory'[m + k] = Sound(Called, (k + 1) - 1, heard)
    BY <1>1, <2>1, <2>2, <2>3
  <2>5. (k + 1) - 1 = k OBVIOUS
  <2> QED BY <2>4, <2>5
<1> QED BY <1>7, <1>9

LEMMA ProcessKeeps ==
  ASSUME Inv, Process
  PROVE  Made' /\ Places' /\ Sounds'
<1>1. /\ audio.at = "process" /\ audio'.at = "mix" /\ audio'.lokke = audio.lokke
      /\ audio' \in [at : {"mix"}, lokke : Nat]
      /\ UNCHANGED <<client, caller, object, vectors>>
  BY DEF Process, Inv
<1>2. Formed /\ Fits /\ Connected BY <1>1 DEF Inv, Made
<1>3. Made' /\ Places'
  BY <1>1, <1>2, ObjectStays DEF Inv, Made
<1> DEFINE i == audio.lokke + 1
<1>4. i \in 1..Len(object.callers) /\ Called = object.callers[i]
  BY <1>1, PerformFacts DEF Inv
<1> HIDE DEF i
<1>5. /\ Registered(Called) /\ In(i) = NumIn(Called) /\ Out(i) = NumOut(Called)
      /\ In(i) \in Nat /\ Out(i) \in Nat
  BY <1>2, <1>4, CallerFacts DEF Inv
<1>6. /\ In(i)' = In(i) /\ Out(i)' = Out(i) /\ Called' = Called /\ i' = i
      /\ \A hears : Hears(i, hears)' = Hears(i, hears)
  BY <1>1 DEF In, Out, Hears, Called, Inlet, Outlets, Outlet, i
<1>7. ASSUME Alive
      PROVE  Processed'
  <2> DEFINE heard == [j \in 1..In(i) |-> memory[j - 1]]
  <2>1. Copied BY <1>1, <1>7 DEF Inv, Sounds
  <2>2. DOMAIN memory = 0..In(i) + Out(i) - 1 /\ Hears(i, heard) BY <2>1 DEF Copied, Hears, i
  <2>3. Out(i) # 0 => \A k \in 0..Out(i) - 1 : memory'[In(i) + k] = Sound(Called, k, heard)
    BY <1>5, <2>2, ProcessWrites
  <2> HIDE DEF heard
  <2>4. Out(i) = 0 => 0..Out(i) - 1 = {} OBVIOUS
  <2> QED BY <1>6, <2>2, <2>3, <2>4 DEF Processed, i
<1>8. Alive' => Alive /\ (Summed => Summed')
  <2>1. Alive' => Alive BY <1>1 DEF Alive
  <2>2. Done' = Done BY <1>1 DEF Done
  <2> QED BY <1>1, <2>1, <2>2, SummedStays
<1> QED BY <1>1, <1>3, <1>7, <1>8 DEF Inv, Sounds

\* The client dies: what the object gives then is garbage.
LEMMA ProcessNullKeeps ==
  ASSUME Inv, ProcessNull
  PROVE  Programs' /\ Made' /\ Places' /\ Sounds'
<1>1. /\ audio.at = "process" /\ audio'.at = "mix" /\ audio'.lokke = audio.lokke
      /\ audio' \in [at : {"mix"}, lokke : Nat]
      /\ UNCHANGED <<caller, object, vectors>>
      /\ client[Called].audioplugin = NULL /\ client' = [client EXCEPT ![Called].at = "dead"]
  BY DEF ProcessNull, Inv
<1> DEFINE i == audio.lokke + 1
<1>2. Formed /\ Fits /\ Connected BY <1>1 DEF Inv, Made
<1>3. i \in 1..Len(object.callers) /\ Called = object.callers[i]
  BY <1>1, PerformFacts DEF Inv
<1>4. Called \in Clients /\ client[Called].at # "new" BY <1>2, <1>3, CallerFacts DEF Inv
<1>5. Programs' /\ StaysTold BY <1>1, <1>4, DiesKeeps DEF Inv, StaysTold
<1>6. Formed' BY <1>1, <1>2, <1>5, FormedStays
<1>7. Made' /\ Places' BY <1>1, <1>2, <1>6 DEF Inv, Made, Fits, Connected, Inlet, Outlet
<1>8. client'[Called].at = "dead" BY <1>1, <1>4 DEF Inv, Programs, Registered, ClientType
<1>9. ~Alive' BY <1>1, <1>3, <1>8 DEF Alive
<1> QED BY <1>1, <1>5, <1>7, <1>9 DEF Inv, Sounds

\* What the client at the next place gives is added behind what is there.
LEMMA SumGrows ==
  ASSUME NEW n, NEW k \in Nat, NEW old, NEW new, NEW gives, NEW S, old \in Seq(S),
         Len(old) = Cardinality(GivingTo(n, k)),
         \A i \in GivingTo(n, k) : Gave(old[Cardinality(GivingTo(n, i))], i, n),
         new = old \o gives,
         IF n < Out(k + 1) THEN \E sound : gives = <<sound>> /\ Gave(sound, k + 1, n)
         ELSE gives = <<>>
  PROVE  /\ \E T : new \in Seq(T)
         /\ Len(new) = Cardinality(GivingTo(n, k + 1))
         /\ \A i \in GivingTo(n, k + 1) : Gave(new[Cardinality(GivingTo(n, i))], i, n)
<1> DEFINE rank(i) == Cardinality(GivingTo(n, i))
<1>1. /\ rank(k) \in Nat /\ \A i \in GivingTo(n, k) : rank(i) \in 1..rank(k)
      /\ GivingTo(n, k + 1) = IF n < Out(k + 1) THEN GivingTo(n, k) \cup {k + 1}
                              ELSE GivingTo(n, k)
      /\ n < Out(k + 1) => rank(k + 1) = rank(k) + 1
  BY RankFacts
<1>2. CASE n < Out(k + 1)
  <2>1. PICK sound : gives = <<sound>> /\ Gave(sound, k + 1, n) BY <1>2
  <2>2. old \in Seq(S \cup {sound}) /\ <<sound>> \in Seq(S \cup {sound}) OBVIOUS
  <2>3. new \in Seq(S \cup {sound}) /\ Len(new) = Len(old) + 1 BY <2>1, <2>2
  <2>4. (\A r \in 1..Len(old) : new[r] = old[r]) /\ new[Len(old) + 1] = sound
    BY <2>1, <2>2
  <2> HIDE DEF rank
  <2>5. Len(old) = rank(k) BY DEF rank
  <2>6. \A i \in GivingTo(n, k) : Gave(new[rank(i)], i, n)
    <3> TAKE i \in GivingTo(n, k)
    <3>1. new[rank(i)] = old[rank(i)] BY <1>1, <2>4, <2>5
    <3> QED BY <3>1 DEF rank
  <2>7. Gave(new[rank(k + 1)], k + 1, n) BY <1>1, <1>2, <2>1, <2>4, <2>5
  <2>8. \A i \in GivingTo(n, k + 1) : Gave(new[rank(i)], i, n) BY <1>1, <1>2, <2>6, <2>7
  <2>9. Len(new) = rank(k + 1) BY <1>1, <1>2, <2>3, <2>5
  <2> QED BY <2>3, <2>8, <2>9 DEF rank
<1>3. CASE ~(n < Out(k + 1))
  <2>1. new = old BY <1>3
  <2> QED BY <1>1, <1>3, <2>1
<1> QED BY <1>2, <1>3

LEMMA MixKeeps ==
  ASSUME Inv, Mix
  PROVE  Made' /\ Places' /\ Sounds'
<1>0. PICK k \in Nat : k = audio.lokke BY DEF Inv
<1> DEFINE N == Len(object.callers)
           numout == object.num_outputs
<1>1. /\ audio.at = "mix" /\ UNCHANGED <<client, caller, object, memory>>
      /\ audio' = IF k + 1 < N THEN [at |-> "copy", lokke |-> k + 1]
                  ELSE [audio EXCEPT !.at = "end"]
  BY <1>0 DEF Mix
<1>2. /\ Formed /\ Fits /\ Connected /\ numout \in Nat /\ k \in Nat /\ N \in Nat
      /\ k + 1 \in 1..N /\ Called = object.callers[k + 1]
  BY <1>0, <1>1, PerformFacts DEF Inv
<1>3. audio.at = "mix" /\ audio \in [at : {"mix"}, lokke : Nat] BY <1>1 DEF Inv
<1>4. /\ audio' \in [at : {"copy", "end"}, lokke : Nat] /\ Done = k /\ Done' = k + 1
      /\ audio'.at = "copy" => audio'.lokke < N
      /\ audio'.at = "end" => audio'.lokke + 1 = N
  BY <1>0, <1>1, <1>2, <1>3 DEF Done
<1>5. Made' /\ Places' BY <1>1, <1>2, <1>4, ObjectStays DEF Inv, Made
<1>6. ASSUME Alive
      PROVE  Summed'
  <2>1. Summed /\ Processed BY <1>1, <1>6 DEF Inv, Sounds
  <2>2. vectors' = [v \in Vectors |->
          IF \E n \in 0..numout - 1 : Outlet(n) = v
          THEN LET n == CHOOSE m \in 0..numout - 1 : Outlet(m) = v IN
               (IF k = 0 THEN silence ELSE vectors[v]) \o Gives(n)
          ELSE vectors[v]]
    BY <1>0 DEF Mix
  <2>3. /\ Outlets' = Outlets /\ \A n : Outlet(n)' = Outlet(n)
        /\ \A i, n : GivingTo(n, i)' = GivingTo(n, i)
        /\ \A sound, i, n : Gave(sound, i, n)' = Gave(sound, i, n)
    BY <1>1 DEF Outlets, Outlet, GivingTo, Gave, Hears, In, Out, Inlet
  <2>4. ASSUME NEW v \in Vectors, v \notin Outlets
        PROVE  vectors'[v] = <<v>>
    BY <2>1, <2>2, <2>4 DEF Outlets, Summed
  <2>5. ASSUME NEW n \in 0..numout - 1
        PROVE  SumOf(n, k + 1)'
    <3> DEFINE old == IF k = 0 THEN silence ELSE vectors[Outlet(n)]
               new == old \o Gives(n)
    <3>1. vectors'[Outlet(n)] = new
      <4>1. Outlet(n) \in Vectors /\ \A m \in 0..numout - 1 : Outlet(m) = Outlet(n) => m = n
        BY <1>2 DEF Connected
      <4>2. (CHOOSE m \in 0..numout - 1 : Outlet(m) = Outlet(n)) = n BY <4>1
      <4>3. \E m \in 0..numout - 1 : Outlet(m) = Outlet(n) OBVIOUS
      <4> HIDE DEF numout
      <4> QED BY <2>2, <4>1, <4>2, <4>3
    <3>2. /\ \E S : old \in Seq(S)
          /\ Len(old) = Cardinality(GivingTo(n, k))
          /\ \A i \in GivingTo(n, k) : Gave(old[Cardinality(GivingTo(n, i))], i, n)
      <4>1. CASE k = 0
        <5>1. old = <<>> BY <4>1 DEF silence
        <5>2. Cardinality(GivingTo(n, k)) = 0 /\ GivingTo(n, k) = {}
          <6>1. GivingTo(n, k) = {} BY <4>1 DEF GivingTo
          <6> QED BY <6>1, FS_EmptySet
        <5>3. \E S : old \in Seq(S)
          <6>1. <<>> \in Seq({}) OBVIOUS
          <6> QED BY <5>1, <6>1
        <5> QED BY <5>1, <5>2, <5>3
      <4>2. CASE k # 0
        BY <1>4, <2>1, <4>2 DEF Summed, SumOf
      <4> QED BY <4>1, <4>2
    <3>3. IF n < Out(k + 1) THEN \E sound : Gives(n) = <<sound>> /\ Gave(sound, k + 1, n)
          ELSE Gives(n) = <<>>
      <4> DEFINE c == object.callers[k + 1]
      <4>1. /\ Out(k + 1) = Len(caller[c].outputs) /\ In(k + 1) \in Nat /\ Out(k + 1) \in Nat
            /\ \A m \in 1..Out(k + 1) : caller[c].outputs[m] = In(k + 1) + m - 1
        BY <1>2, CallerFacts DEF Inv, Out
      <4>2. Gives(n) = IF n < Out(k + 1) THEN memory[caller[c].outputs[n + 1]] ELSE <<>>
        BY <1>2, <4>1 DEF Gives, silence
      <4> HIDE DEF c
      <4>3. ASSUME n < Out(k + 1)
            PROVE  \E sound : Gives(n) = <<sound>> /\ Gave(sound, k + 1, n)
        <5>1. caller[c].outputs[n + 1] = In(k + 1) + n
          <6>1. n + 1 \in 1..Out(k + 1) /\ In(k + 1) + (n + 1) - 1 = In(k + 1) + n
            BY <1>2, <4>1, <4>3
          <6> QED BY <4>1, <6>1
        <5>2. n \in 0..Out(k + 1) - 1 BY <1>2, <4>1, <4>3
        <5>3. PICK hears : memory[In(k + 1) + n] = Sound(Called, n, hears) /\ Hears(k + 1, hears)
          BY <1>0, <2>1, <5>2 DEF Processed
        <5> DEFINE sound == [client |-> Called, output |-> n, hears |-> hears]
        <5>4. Gives(n) = <<sound>> BY <4>2, <4>3, <5>1, <5>3 DEF Sound
        <5>5. Gave(sound, k + 1, n) BY <1>2, <5>3 DEF Gave
        <5> QED BY <5>4, <5>5
      <4> QED BY <4>2, <4>3
    <3> HIDE DEF old
    <3>4. PICK S : old \in Seq(S) BY <3>2
    <3>5. /\ \E T : new \in Seq(T)
          /\ Len(new) = Cardinality(GivingTo(n, k + 1))
          /\ \A i \in GivingTo(n, k + 1) : Gave(new[Cardinality(GivingTo(n, i))], i, n)
      BY <1>2, <3>2, <3>3, <3>4, SumGrows
    <3> QED BY <2>3, <3>1, <3>5 DEF SumOf
  <2> QED BY <1>1, <1>4, <2>3, <2>4, <2>5 DEF Summed
<1>7. Alive' => Alive BY <1>1 DEF Alive
<1> QED BY <1>4, <1>5, <1>6, <1>7 DEF Sounds

-----------------------------------------------------------------------------
(***************************************************************************)
(* The theorems.                                                           *)
(***************************************************************************)
\* Only Mix writes to vectors while the object performs, and only to outlets.
LEMMA UntouchedStays ==
  ASSUME Inv, [Next]_sigVars
  PROVE  Untouched'
<1>1. (vectors = [v \in Vectors |-> vectors[v]])'
  BY DEF Inv, Untouched, Next, sigVars, Register, Tell, Activated, New, AddCaller, NewReturns,
         Free, Dsp, Perform, CopyIn, Process, ProcessNull, Mix, PerformReturn, Given
<1>2. CASE Perform BY <1>1, <1>2 DEF Perform, Given, Untouched
<1>3. CASE Mix
  <2>1. Outlets' = Outlets /\ Performing BY <1>3 DEF Mix, Outlets, Outlet
  <2>2. \A v \in Vectors \ Outlets : vectors'[v] = vectors[v] BY <1>3 DEF Mix, Outlets
  <2> QED BY <1>1, <2>1, <2>2 DEF Inv, Untouched
<1>4. CASE Performing /\ UNCHANGED <<object, vectors>>
  <2>1. Outlets' = Outlets BY <1>4 DEF Outlets, Outlet
  <2> QED BY <1>1, <1>4, <2>1 DEF Inv, Untouched
<1>5. ASSUME New \/ AddCaller \/ NewReturns \/ Free \/ Dsp \/ PerformReturn
      PROVE  ~Performing'
  <2>1. PerformReturn => audio'.at = "idle" BY DEF PerformReturn
  <2>2. New \/ NewReturns => audio'.at \in {"idle", "new"} BY DEF Inv, New, NewReturns
  <2>3. AddCaller \/ Free \/ Dsp => audio'.at \in {"idle", "new"} BY DEF AddCaller, Free, Dsp
  <2> QED BY <1>5, <2>1, <2>2, <2>3
<1>6. ASSUME CopyIn \/ Process \/ ProcessNull
      PROVE  Performing /\ UNCHANGED <<object, vectors>>
  BY <1>6 DEF CopyIn, Process, ProcessNull
<1>7. ASSUME (\E c \in Clients : Register(c) \/ Tell(c) \/ Activated(c)) \/ UNCHANGED sigVars
      PROVE  UNCHANGED <<object, audio, vectors>>
  BY <1>7 DEF sigVars, Register, Tell, Activated
<1> QED BY <1>1, <1>2, <1>3, <1>4, <1>5, <1>6, <1>7 DEF Untouched, Next

LEMMA InvStep == Inv /\ [Next]_sigVars => Inv'
<1> SUFFICES ASSUME Inv, [Next]_sigVars
             PROVE  Inv'
  OBVIOUS
<1>1. Untouched' BY UntouchedStays
<1>2. ASSUME NEW c \in Clients, Register(c) \/ Tell(c) \/ Activated(c)
      PROVE  Inv'
  <2>1. UNCHANGED <<object, audio, memory, vectors>> BY <1>2 DEF Register, Tell, Activated
  <2>2. Programs' /\ StaysTold BY <1>2, RegisterKeeps, TellKeeps DEF StaysTold
  <2>3. Places' BY <2>1 DEF Inv
  <2> QED BY <1>1, <2>1, <2>2, <2>3, SoundsStay DEF Inv
<1>3. ASSUME New \/ AddCaller \/ NewReturns \/ Free \/ Dsp
      PROVE  Inv'
  <2>1. UNCHANGED <<client, caller>> BY <1>3 DEF New, AddCaller, NewReturns, Free, Dsp
  <2>2. Programs' BY <2>1, AllStayTold DEF Inv
  <2>3. audio' \in [at : {"idle", "new"}, lokke : {0}]
    BY <1>3 DEF Inv, New, AddCaller, NewReturns, Free, Dsp
  <2>4. Free => Made' BY <2>3 DEF Free, Made
  <2>5. Made' BY <1>3, <2>4, NewKeeps, AddCallerKeeps, NewReturnsKeeps, DspKeeps
  <2> QED BY <1>1, <2>2, <2>3, <2>5, IdleKeeps DEF Inv
<1>4. ASSUME Perform \/ CopyIn \/ Process \/ Mix \/ PerformReturn
      PROVE  Inv'
  <2>1. UNCHANGED <<client, caller>>
    BY <1>4 DEF Perform, CopyIn, Process, Mix, PerformReturn
  <2>2. Programs' BY <2>1, AllStayTold DEF Inv
  <2> QED
    BY <1>1, <1>4, <2>2, PerformKeeps, CopyInKeeps, ProcessKeeps, MixKeeps, PerformReturnKeeps
    DEF Inv
<1>5. CASE UNCHANGED sigVars
  <2>1. UNCHANGED <<client, caller, object, audio, memory, vectors>> BY <1>5 DEF sigVars
  <2>2. Programs' /\ StaysTold BY <2>1, AllStayTold DEF Inv, StaysTold
  <2>3. Places' BY <2>1 DEF Inv
  <2> QED BY <1>1, <2>1, <2>2, <2>3, SoundsStay DEF Inv
<1> QED BY <1>1, <1>2, <1>3, <1>4, <1>5, ProcessNullKeeps DEF Next, Inv

\* In every state, for any clients, ports, objects and vectors: both sides lay out the
\* memory alike, a port's number leads to its slot and its vector, no two outlets share
\* one, and the vectors hold what the callers that were called gave (Inv).
THEOREM AlwaysInv == Spec => []Inv
<1>1. Inv /\ UNCHANGED sigVars => Inv' BY InvStep
<1> QED BY InitInv, InvStep, PTL DEF Spec

\* In every reachable state in which all were called, each outlet Pd connected plays
\* what the clients gave on that output, in order, each once, and nothing else; and each
\* of them heard what Pd had connected to its inlets, unless Pd reused their vectors
\* (jack_port_get_buffer, k_jackd_dsp, k_jackd_perform,
\* aipc_audiopluginmixer_call_audioplugins).
THEOREM AlwaysOutletsAreRight == Spec => []OutletsAreRight
<1>1. Inv => OutletsAreRight
  <2> SUFFICES ASSUME Inv, audio.at = "end",
                      \A i \in DOMAIN object.callers : client[object.callers[i]].at # "dead",
                      NEW n \in 0..object.num_outputs - 1
               PROVE  LET sum == vectors[object.signals.outlets[n]] IN
                      /\ Len(sum) = Cardinality(Giving(n))
                      /\ \A i \in Giving(n) :
                           LET sound == sum[Cardinality({j \in Giving(n) : j <= i})]
                               c == object.callers[i]
                           IN
                           /\ sound.client = c /\ sound.output = n
                           /\ DOMAIN sound.hears = DOMAIN caller[c].inputs
                           /\ \A m \in DOMAIN sound.hears :
                                \/ sound.hears[m] = <<object.signals.inlets[m]>>
                                \/ i # 1 /\ object.signals.inlets[m] \in PdOutlets
    BY DEF OutletsAreRight
  <2> DEFINE N == Len(object.callers)
             sum == vectors[object.signals.outlets[n]]
  <2>1. /\ Formed /\ Connected /\ object.callers \in Seq(Clients) /\ N \in Nat \ {0}
        /\ audio.lokke + 1 = N /\ object.num_inputs \in Nat
    BY PerformFacts DEF Inv
  <2>2. DOMAIN object.callers = 1..N BY <2>1
  <2>3. Alive /\ Done = N BY <2>1, <2>2 DEF Alive, Done
  <2>4. SumOf(n, N) BY <2>1, <2>3 DEF Inv, Sounds, Summed
  <2>5. Giving(n) = GivingTo(n, N) BY <2>2 DEF Giving, GivingTo, Out
  <2>6. \A i \in GivingTo(n, N) : {j \in GivingTo(n, N) : j <= i} = GivingTo(n, i)
    BY <2>1 DEF GivingTo
  <2>7. \A i \in 1..N : DOMAIN caller[object.callers[i]].inputs = 1..In(i)
                      /\ In(i) \in Nat /\ In(i) <= object.num_inputs
    BY <2>1, CallerFacts DEF Inv, In
  <2>8. \A i \in GivingTo(n, N) : i \in 1..N BY DEF GivingTo
  <2>9. sum = vectors[Outlet(n)] /\ Outlets = PdOutlets BY <2>1 DEF Connected, Outlets, PdOutlets
  <2> HIDE DEF N, sum
  <2>10. ASSUME NEW i \in Giving(n)
        PROVE  LET sound == sum[Cardinality({j \in Giving(n) : j <= i})]
                   c == object.callers[i]
               IN
               /\ sound.client = c /\ sound.output = n
               /\ DOMAIN sound.hears = DOMAIN caller[c].inputs
               /\ \A m \in DOMAIN sound.hears :
                    \/ sound.hears[m] = <<object.signals.inlets[m]>>
                    \/ i # 1 /\ object.signals.inlets[m] \in PdOutlets
    <3> DEFINE sound == sum[Cardinality({j \in Giving(n) : j <= i})]
    <3>1. Gave(sound, i, n) /\ i \in 1..N
      <4>1. i \in GivingTo(n, N) /\ i \in 1..N BY <2>5, <2>8
      <4>2. {j \in Giving(n) : j <= i} = GivingTo(n, i) BY <2>5, <2>6, <4>1
      <4> QED BY <2>4, <2>9, <4>1, <4>2 DEF SumOf
    <3> HIDE DEF sound
    <3>2. sound.client = object.callers[i] /\ sound.output = n /\ Hears(i, sound.hears)
      BY <3>1 DEF Gave
    <3>3. DOMAIN sound.hears = DOMAIN caller[object.callers[i]].inputs
            /\ DOMAIN sound.hears = 1..In(i)
      BY <2>7, <3>1, <3>2 DEF Hears
    <3>4. ASSUME NEW m \in 1..In(i)
          PROVE  Inlet(m - 1) = object.signals.inlets[m]
      <4>1. m - 1 \in 0..object.num_inputs - 1 /\ (m - 1) + 1 = m BY <2>1, <2>7, <3>1
      <4> QED BY <2>1, <4>1 DEF Connected
    <3>5. \A m \in DOMAIN sound.hears :
            \/ sound.hears[m] = <<object.signals.inlets[m]>>
            \/ i # 1 /\ object.signals.inlets[m] \in PdOutlets
      BY <2>9, <3>2, <3>3, <3>4 DEF Hears
    <3> QED BY <3>2, <3>3, <3>5 DEF sound
  <2> QED BY <2>4, <2>5, <2>9, <2>10 DEF SumOf, sum
<1> QED BY <1>1, AlwaysInv, PTL

\* In every reachable state in which the object performs, also with a client that has
\* died, every vector but those Pd connected to its outlets holds what Pd put there
\* (k_jackd_dsp, k_jackd_perform).
THEOREM AlwaysOtherVectorsStay == Spec => []OtherVectorsStay
<1>1. Inv => OtherVectorsStay
  <2> SUFFICES ASSUME Inv, Performing
               PROVE  \A v \in Vectors \ PdOutlets : vectors[v] = <<v>>
    BY DEF OtherVectorsStay
  <2>1. Outlets = PdOutlets BY PerformFacts DEF Inv, Connected, Outlets, PdOutlets
  <2> QED BY <2>1 DEF Inv, Untouched
<1> QED BY <1>1, AlwaysInv, PTL
=============================================================================
