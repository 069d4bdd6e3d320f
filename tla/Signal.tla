-------------------------------- MODULE Signal --------------------------------
(***************************************************************************)
(* The way of the sound through one k_jackd~ object: the ports a client    *)
(* registers (library/jack.c), the shared memory both sides lay out from   *)
(* their number (audioplugin.c, audioplugincaller.c), the inlets and       *)
(* outlets made from the callers the object finds (k_jackd~.c), the        *)
(* vectors Pd gives it (dsp.c) and the mix (audiopluginmixer.c).           *)
(*                                                                         *)
(* Ports, slots and vectors are numbered from 0.  A slot is BUFFERSIZE     *)
(* frames of shared memory.  What a slot or vector holds is the sequence   *)
(* of the sounds that were added up in it; the sound a client's process    *)
(* callback gives on a port remembers what the client heard.  That a call  *)
(* brings all frames over is AudioExchange's matter, that callers may      *)
(* come and go meanwhile is Mixer's.                                       *)
(***************************************************************************)
EXTENDS Naturals, Sequences, FiniteSets

CONSTANTS
  Clients,      \* the programs with one jack client each
  Arguments,    \* the client names a k_jackd~ object may be made with
  MaxPorts,     \* bound: the ports a client registers in each direction
                \* (input_ports and output_ports have 512, jack.h:46-47, and
                \* jack_port_register does not look: one more is not modelled)
  Vectors,      \* the signal vectors of Pd
  NULL          \* no audioplugin, caller, object or vector of parameters

ASSUME SignalAssumption ==
  /\ MaxPorts \in 0..512 /\ Arguments \subseteq Seq(Clients) /\ Vectors # {}
  /\ NULL \notin Nat

VARIABLES
  client,       \* each client: at, the num of its input_ports and output_ports,
                \* and the audioplugin: NULL, or its inputs and outputs
  caller,       \* the audioplugincaller the server has for each client
  object,       \* the k_jackd~ object: the names not yet looked for, its mixer's
                \* callers, num_inputs and num_outputs, dsp_vec_length, dsp_vec,
                \* and signals: what Pd has connected, for the properties only
  audio,        \* Pd's thread: at, lokke
  memory,       \* the slots of the client that is called
  vectors       \* what each signal vector of Pd holds

sigVars == <<client, caller, object, audio, memory, vectors>>

silence == <<>>

\* The sound that client c gives on an output when it hears these inputs.
Sound(c, output, inputs) == <<[client |-> c, output |-> output, hears |-> inputs]>>

\* What an earlier call has left, memory that was not initialised, or memory beyond
\* an array.
garbage == Sound(NULL, 0, <<>>)

\* What Pd and the objects before this one have put into the vectors.
Given == [v \in Vectors |-> <<v>>]

Init ==
  /\ client = [c \in Clients |->
       [at |-> "new", input_ports |-> <<>>, output_ports |-> <<>>, audioplugin |-> NULL]]
  /\ caller = [c \in Clients |-> NULL]
  /\ object = NULL
  /\ audio = [at |-> "idle", lokke |-> 0]
  /\ memory = <<>>
  /\ vectors = Given

-----------------------------------------------------------------------------
(***************************************************************************)
(* jack_port_register, before the client is activated: the numbers of      *)
(* ports are told then and never again.                                    *)
(***************************************************************************)
\* Mutant of Register: num is read after the count was incremented.
RegisterLate(c) ==
  /\ client[c].at = "new"
  /\ \E ports \in {"input_ports", "output_ports"} :
       /\ Len(client[c][ports]) < MaxPorts
       /\ client' = [client EXCEPT ![c][ports] = Append(@, Len(@) + 1)]
  /\ UNCHANGED <<caller, object, audio, memory, vectors>>

Register(c) ==
  /\ client[c].at = "new"
  /\ \E ports \in {"input_ports", "output_ports"} :
       /\ Len(client[c][ports]) < MaxPorts
       /\ client' = [client EXCEPT ![c][ports] = Append(@, Len(@))]
  /\ UNCHANGED <<caller, object, audio, memory, vectors>>

\* The slots both sides give a plugin with so many ports: first the inputs.
Slots(num_inputs, num_outputs) ==
  [inputs |-> [n \in 1..num_inputs |-> n - 1],
   outputs |-> [n \in 1..num_outputs |-> num_inputs + n - 1]]

Plugin(c) == Slots(Len(client[c].input_ports), Len(client[c].output_ports))

\* Mutant of Tell: the caller takes its outputs from the beginning of the memory.
TellFromStart(c) ==
  /\ client[c].at = "new"
  /\ client' = [client EXCEPT ![c].at = "told"]
  /\ caller' = [caller EXCEPT ![c] =
       [Plugin(c) EXCEPT !.outputs = [n \in DOMAIN @ |-> n - 1]]]
  /\ UNCHANGED <<object, audio, memory, vectors>>

\* jack_activate up to the end of aipc_audioplugin_new's message with the numbers
\* of ports, from which the server makes its caller and puts it in the list.
Tell(c) ==
  /\ client[c].at = "new"
  /\ client' = [client EXCEPT ![c].at = "told"]
  /\ caller' = [caller EXCEPT ![c] = Plugin(c)]
  /\ UNCHANGED <<object, audio, memory, vectors>>

\* aipc_audioplugin_new returns and jack_activate stores its result.
Activated(c) ==
  /\ client[c].at = "told"
  /\ client' = [client EXCEPT ![c].at = "active", ![c].audioplugin = Plugin(c)]
  /\ UNCHANGED <<caller, object, audio, memory, vectors>>

-----------------------------------------------------------------------------
(***************************************************************************)
(* k_jackd_new: a mixer with the callers of the names that are found, in   *)
(* that order, and as many inlets and outlets as the caller with most has  *)
(* (setNumPuts).  Without a caller there is no object.  Clients are put    *)
(* into the list meanwhile.                                                *)
(***************************************************************************)
New ==
  /\ audio.at = "idle" /\ object = NULL
  /\ audio' = [audio EXCEPT !.at = "new"]
  /\ \E names \in Arguments :
       object' = [names |-> names, callers |-> <<>>, num_inputs |-> 0, num_outputs |-> 0,
                  dsp_vec_length |-> 0, dsp_vec |-> NULL, signals |-> NULL]
  /\ UNCHANGED <<client, caller, memory, vectors>>

Greater(m, n) == IF m > n THEN m ELSE n

AddCaller ==
  LET c == Head(object.names) IN
  /\ audio.at = "new" /\ object.names # <<>>
  /\ object' =
       IF caller[c] = NULL THEN [object EXCEPT !.names = Tail(@)]
       ELSE [object EXCEPT !.names = Tail(@), !.callers = Append(@, c),
                           !.num_inputs = Greater(@, Len(caller[c].inputs)),
                           !.num_outputs = Greater(@, Len(caller[c].outputs))]
  /\ UNCHANGED <<client, caller, audio, memory, vectors>>

NewReturns ==
  /\ audio.at = "new" /\ object.names = <<>>
  /\ audio' = [audio EXCEPT !.at = "idle"]
  /\ object' = IF object.callers = <<>> THEN NULL
               ELSE [object EXCEPT !.dsp_vec_length = object.num_inputs + object.num_outputs + 2]
  /\ UNCHANGED <<client, caller, memory, vectors>>

\* k_jackd_free does nothing, but the object is gone.
Free ==
  /\ audio.at = "idle" /\ object # NULL
  /\ object' = NULL
  /\ UNCHANGED <<client, caller, audio, memory, vectors>>

\* What Pd connects to the inlets, the main inlet being number 0, and to the outlets.
\* An output of another object may go to many inlets; a vector is that of one outlet
\* only, which may be the last use of an inlet's vector.
Signals(num_inputs, num_outputs) ==
  {s \in [inlets : [0..num_inputs -> Vectors], outlets : [0..num_outputs - 1 -> Vectors]] :
     \A m, n \in 0..num_outputs - 1 : m # n => s.outlets[m] # s.outlets[n]}

\* The argument sp of the dsp method: the inlets' signals, and then the outlets'.
Sp(s, num_inputs, i) == IF i <= num_inputs THEN s.inlets[i] ELSE s.outlets[i - num_inputs - 1]

\* Mutant of Dsp: the vector of the main inlet is not left out.
DspWithMainInlet ==
  /\ audio.at = "idle" /\ object # NULL
  /\ \E s \in Signals(object.num_inputs, object.num_outputs) :
       object' = [object EXCEPT !.signals = s, !.dsp_vec =
         [i \in 2..object.dsp_vec_length - 1 |-> Sp(s, object.num_inputs, i - 2)]]
  /\ UNCHANGED <<client, caller, audio, memory, vectors>>

\* k_jackd_dsp: the elements 0 and 1 are x and the length of the vectors.
Dsp ==
  /\ audio.at = "idle" /\ object # NULL
  /\ \E s \in Signals(object.num_inputs, object.num_outputs) :
       object' = [object EXCEPT !.signals = s, !.dsp_vec =
         [i \in 2..object.dsp_vec_length - 1 |-> Sp(s, object.num_inputs, i - 1)]]
  /\ UNCHANGED <<client, caller, audio, memory, vectors>>

-----------------------------------------------------------------------------
(***************************************************************************)
(* k_jackd_perform takes the outlets from behind the inlets the mixer has  *)
(* now, and aipc_audiopluginmixer_call_audioplugins calls one caller after *)
(* the other.                                                              *)
(***************************************************************************)
\* Mutant of Inlet: the inputs are taken from behind the outputs.
InletBehind(n) == object.dsp_vec[2 + object.num_outputs + n]

Inlet(n) == object.dsp_vec[2 + n]

\* Mutant of Outlet: the vectors of the inlets are not skipped.
OutletFromStart(n) == object.dsp_vec[2 + n]

Outlet(n) == object.dsp_vec[2 + object.num_inputs + n]

Called == object.callers[audio.lokke + 1]

Perform ==
  /\ audio.at = "idle" /\ object # NULL /\ object.dsp_vec # NULL
  /\ audio' = [at |-> "copy", lokke |-> 0]
  /\ vectors' = Given
  /\ UNCHANGED <<client, caller, object, memory>>

\* The inlets, as they are now, are copied to the client.  What its outputs hold
\* is left from an earlier call.
CopyIn ==
  /\ audio.at = "copy"
  /\ audio' = [audio EXCEPT !.at = "process"]
  /\ LET inputs == caller[Called].inputs IN
     memory' = [s \in 0..Len(inputs) + Len(caller[Called].outputs) - 1 |->
       IF \E n \in DOMAIN inputs : inputs[n] = s
       THEN vectors[Inlet((CHOOSE n \in DOMAIN inputs : inputs[n] = s) - 1)]
       ELSE garbage]
  /\ UNCHANGED <<client, caller, object, vectors>>

\* jack_port_get_buffer: the slot of a port, or what follows the array.
Buffer(buffers, num) == IF num < Len(buffers) THEN buffers[num + 1] ELSE NULL

HasPorts(c) == Len(client[c].input_ports) + Len(client[c].output_ports) > 0

\* The process callback in the client gets the buffers of its ports, reads its
\* inputs and writes its outputs.
Process ==
  LET self == client[Called]
      plugin == self.audioplugin
      heard == [n \in DOMAIN self.input_ports |->
        LET slot == Buffer(plugin.inputs, self.input_ports[n]) IN
        IF slot = NULL THEN garbage ELSE memory[slot]]
      Written(s) == {n \in DOMAIN self.output_ports :
        Buffer(plugin.outputs, self.output_ports[n]) = s}
  IN
  /\ audio.at = "process" /\ (plugin # NULL \/ ~HasPorts(Called))
  /\ audio' = [audio EXCEPT !.at = "mix"]
  /\ memory' = [s \in DOMAIN memory |->
       IF Written(s) = {} THEN memory[s]
       ELSE Sound(Called, (CHOOSE n \in Written(s) : TRUE) - 1, heard)]
  /\ UNCHANGED <<client, caller, object, vectors>>

\* jack_port_get_buffer follows client->audioplugin: while jack_activate has not
\* stored it the client dies, and the call, as all later ones, fails.
ProcessNull ==
  /\ audio.at = "process" /\ client[Called].audioplugin = NULL /\ HasPorts(Called)
  /\ client' = [client EXCEPT ![Called].at = "dead"]
  /\ audio' = [audio EXCEPT !.at = "mix"]
  /\ memory' = [s \in DOMAIN memory |-> garbage]
  /\ UNCHANGED <<caller, object, vectors>>

\* Slot of output n of the client that is called, or nothing.
Gives(n) ==
  LET outputs == caller[Called].outputs IN
  IF n < Len(outputs) THEN memory[outputs[n + 1]] ELSE silence

\* Mutant of Mix: outlets the first caller has no output for keep what they held.
MixOver ==
  /\ audio.at = "mix"
  /\ audio' = IF audio.lokke + 1 < Len(object.callers)
              THEN [at |-> "copy", lokke |-> audio.lokke + 1]
              ELSE [audio EXCEPT !.at = "end"]
  /\ vectors' = [v \in Vectors |->
       IF \E n \in 0..object.num_outputs - 1 : Outlet(n) = v
       THEN LET n == CHOOSE m \in 0..object.num_outputs - 1 : Outlet(m) = v IN
            (IF audio.lokke = 0 /\ n < Len(caller[Called].outputs)
             THEN silence ELSE vectors[v]) \o Gives(n)
       ELSE vectors[v]]
  /\ UNCHANGED <<client, caller, object, memory>>

\* The first caller's outputs replace what the outlets held, those of the others
\* are added.
Mix ==
  /\ audio.at = "mix"
  /\ audio' = IF audio.lokke + 1 < Len(object.callers)
              THEN [at |-> "copy", lokke |-> audio.lokke + 1]
              ELSE [audio EXCEPT !.at = "end"]
  /\ vectors' = [v \in Vectors |->
       IF \E n \in 0..object.num_outputs - 1 : Outlet(n) = v
       THEN LET n == CHOOSE m \in 0..object.num_outputs - 1 : Outlet(m) = v IN
            (IF audio.lokke = 0 THEN silence ELSE vectors[v]) \o Gives(n)
       ELSE vectors[v]]
  /\ UNCHANGED <<client, caller, object, memory>>

PerformReturn ==
  /\ audio.at = "end"
  /\ audio' = [at |-> "idle", lokke |-> 0]
  /\ memory' = <<>> /\ vectors' = Given
  /\ UNCHANGED <<client, caller, object>>

Next ==
  \/ \E c \in Clients : Register(c) \/ Tell(c) \/ Activated(c)
  \/ New \/ AddCaller \/ NewReturns \/ Free \/ Dsp
  \/ Perform \/ CopyIn \/ Process \/ ProcessNull \/ Mix \/ PerformReturn

Spec == Init /\ [][Next]_sigVars

-----------------------------------------------------------------------------
(***************************************************************************)
(* Properties.                                                             *)
(***************************************************************************)
\* The vectors Pd gave for the outlets, whatever the object made of them.
PdOutlets == {object.signals.outlets[n] : n \in 0..object.num_outputs - 1}

\* The places of the callers of the object that have an output with this number.
Giving(output) ==
  {i \in DOMAIN object.callers : output < Len(caller[object.callers[i]].outputs)}

\* What Pd hears at outlet n is what the clients gave on output n, in order and each
\* once for each time it is named, and nothing that was in the vector before; and each
\* client hears on input m what Pd gave to inlet m.  Only where Pd took an inlet's
\* vector for an outlet, the clients after the first may hear those before them instead
\* (dsp.c:23-94, audiopluginmixer.c:92-140).  An object with a client that has died
\* gives garbage: the result of a call is not looked at.
OutletsAreRight ==
  audio.at = "end" /\ (\A i \in DOMAIN object.callers : client[object.callers[i]].at # "dead") =>
    \A n \in 0..object.num_outputs - 1 :
      LET sum == vectors[object.signals.outlets[n]] IN
      /\ Len(sum) = Cardinality(Giving(n))
      /\ \A i \in Giving(n) :
           LET sound == sum[Cardinality({j \in Giving(n) : j <= i})]
               c == object.callers[i]
           IN
           /\ sound.client = c /\ sound.output = n
           /\ DOMAIN sound.hears = DOMAIN caller[c].inputs
           /\ \A m \in DOMAIN sound.hears :
                \/ sound.hears[m] = <<object.signals.inlets[m]>>
                \/ i # 1 /\ object.signals.inlets[m] \in PdOutlets

\* While the object performs, also with a client that has died, every vector Pd did not
\* give it for an outlet holds what Pd put there: another object may still have to read
\* it, and the offset of the outlets in the parameters is computed from the mixer at
\* that time and from the method's arguments before (dsp.c:38, dsp.c:66-94).
OtherVectorsStay ==
  audio.at \in {"copy", "process", "mix", "end"} =>
    \A v \in Vectors \ PdOutlets : vectors[v] = <<v>>
=============================================================================
