# k_jackd in TLA+

k_jackd connects programs written for jack to a Pd object. It is built on
libaipc (`aipc/`), a library by which one process, the *host*, runs a function
of another process, the *plugin*, and waits for its answer, without the kernel
copying the audio. This directory holds TLA+ modules for that library and for
the client handling of k_jackd, TLC configurations that check them on small
instances, and proofs that TLAPS checks.

Source paths below are relative to the repository.

## Inventory

| Component | Source | State | Operations |
|---|---|---|---|
| exchange | `aipc/src/plugin.c`, `plugincaller.c`, `plugin.h` | the shared `struct PluginAndHost` (status, is_calling, okey_to_call, two sizes), two pipes and the control pipe, the lock file `shutdown.lock`, buffer sizes on each side, one thread on each side | `aipc_plugin_new/_delete`, `aipc_plugincaller_new/_delete/_call_plugin`, `EXCHANGE_call_thread`, `EXCHANGE_control_thread` |
| audio exchange | `audioplugin.c`, `audioplugincaller.c`, `simpleio.c` | shared input and output buffers of BUFFERSIZE frames, a one-shot socket for the number of ports | `aipc_audioplugin_new/_delete`, `callFromHost`, `aipc_audioplugincaller_new/_delete/_call_audioplugin`, `aipc_simpleio_send/_receive` |
| shared memory | `sharedmem.c`, `sharedmem_procinfo.c`, `sharedmem_locking.c` | System V segments by key, the variable with the key, a directory with a file per user, two lock files | `aipc_sharedmem_new/_delete` |
| variables | `variable.c` | a file per variable, two for a string, and a lock file for each of them and for the string | create, get (waiting), delete; int, float and string |
| pipes | `pipe.c`, `input.c`, `output.c` | two sockets and a `.bool` file for each prefix, the descriptors of each process | `aipc_pipe_new/_delete`, send, receive |
| lock files | `lock.c` | the file | `aipc_lock_new/_delete` |
| mixer | `audiopluginmixer.c` | the array of callers, its length, is_calling, a mutex | add, remove, call |
| clients | `clienthandler.c`, `k_jackd~.c`, `library/jack.c`, `receiver.c`, `dir.c` | the list of clients in the server, the main socket, a data directory for each client | `jack_activate/_deactivate`, `k_jackd_inputthread`, `k_jackd_new` |
| signal processing | `dsp.c`, with the ports of `library/jack.c` and the object of `k_jackd~.c` | the vectors Pd gave the object (`dsp_vec`), the numbers of its inlets and outlets, the ports of each client | `jack_port_register`, `jack_port_get_buffer`, `k_jackd_dsp`, `k_jackd_perform` |
| stubs | `library/dummies.c` | none | constant answers |
| test programs | `aipc/src/tests/` | | interactive demonstrations |

How they interact: a client's `jack_activate` makes a directory, sends a request
to the server's main socket and waits in `aipc_audioplugin_new` for the server.
The server's input thread calls `aipc_audioplugincaller_new` on the same
directory; the two meet in two pipes (`aipc_pipe_new`) and shared memory
(`aipc_sharedmem_new`), exchange their status, and the plugin tells its ports
over a one-shot socket. From then on Pd's audio thread calls the mixer of each
`k_jackd~` object, the mixer calls its audioplugincallers, and each of these
makes one call of the exchange for every chunk of frames. `jack_deactivate` sends
a request, deletes the audioplugin, and waits until the server has deleted the
caller.

What is hard, and what makes each component correct:

- **Exchange.** Five threads in two processes share a struct without a lock.
  Calls and deletes exclude each other by a flag protocol; a message only wakes
  the other side up and its meaning is read later from shared memory that three
  threads write; both sides may begin a delete at once and each must make the
  other's thread end; buffers grow in both directions inside a call; either
  process may die. Correct means: no call runs into the freeing of the buffers,
  what a message means has not changed when it is acted on, no byte of one call
  is read by the next, every call returns the answer to itself, and starting up,
  calls and deletes end.
- **Audio exchange.** Frames are cut into chunks while deletes may come in
  between. Every frame of a call that succeeds is processed once; the two sides
  do not use the shared buffers at the same time.
- **Shared memory.** Processes make, find and free memory at the same time, under
  two lock files each of which is held only in some cases; users may die.
  Correct means: one prefix, one segment, freed exactly when no known user lives.
- **Pipes.** Two processes that know nothing of each other have to choose
  different sockets, and may give up, die and try again; what one attempt leaves
  behind meets the next. Correct means: both ends of a pipe are of one attempt,
  nothing is left, and an attempt ends.
- **Variables.** A file is truncated, written, read and removed in steps, under a
  lock file; a string is two files. Correct means: each call happens at once,
  with a failure doing what that failure may do and no more, and a string has the length
  of its text.
- **Mixer.** The audio thread must not block: it reads the array while others
  change it, and the flag it sets for the wait of a change has no barrier. No caller
  that stays is skipped or repeated, and no removed one is used after the wait, as far
  as the wait sees what it waits for.
- **Signal processing.** The same port is an index in five places: the client's
  ports, the slots of the shared memory on each side, the inlets and outlets of
  the object, and the vector of parameters. Pd lets inlets and outlets share
  vectors. Correct means: each outlet plays what the clients gave on that output,
  made from what came in on the right inlets, and nothing else changes.
- **Clients.** One server thread waits for clients without a timeout, each side of an
  exchange or a request may fail without the other noticing, and Pd walks the list
  without a lock.

PROJECT.json lists the single hazards at their lines, with the properties that
cover each.

## Modules

| Module | Models | Kind |
|---|---|---|
| `RemoteCall` | what `aipc_plugincaller_call_plugin` promises, without pipes, buffers or threads | abstract specification |
| `Exchange` | the exchange, with starting up, calls, enlargements, shutdown from both sides, store buffers and crashes | component, implements `RemoteCall` |
| `AudioExchange` | the audio layer; EXTENDS `Exchange`, so every step of the exchange is there | composition, implements an orderly `Exchange` |
| `SharedMemory` | `aipc_sharedmem_new` and `_delete` | component |
| `Mixer` | the mixer, at the grain of loads and stores | component |
| `Clients` | clients, the server's input thread, Pd's search | composition over the contract of `AudioExchange` |
| `Pipe` | `aipc_pipe_new` and `_delete` | component |
| `Register` | what create, get and delete of a variable promise | abstract specification |
| `Variables` | variables and strings at the grain of file operations | component, implements `Register` |
| `Signal` | the way of the sound from Pd's vectors to a client's ports and back | composition over the contracts of `AudioExchange` and `Mixer` |
| `ExchangeProofs` | types, the handshake, exclusion of calls and deletes; messages, buffers and telling; `Exchange` implements `RemoteCall` | proofs on `Exchange` |
| `AudioExchangeProofs` | the audio layer implements an orderly `Exchange`; frames and buffers | proofs on `AudioExchange` |
| `SharedMemoryProofs`, `MixerProofs`, `ClientsProofs`, `PipeProofs`, `SignalProofs` | all invariants the runs check | proofs |
| `VariablesProofs` | `Variables` implements `Register`; strings | proofs |
| `MC*` | values of the constants | model checking |

Each action is one step of one thread between two accesses to something
another thread or process can see, and the `pc` value that enables it names the
place in the function. Accesses to a thread's own variables are merged with the
access that follows or precedes them. A comment `Mutant` marks an altered copy
of the definition after it: not part of the specification, but what a plausible
bug there would look like. Each property of each passing run is violated by at
least one of them.

### Exchange

| Code | TLA+ |
|---|---|
| `struct PluginAndHost` | `pah` |
| the three directions of the two pipes | `pipe["plugin"]`, `pipe["host"]`, `pipe["control"]` |
| `shutdown.lock` | `lock` |
| sockets open | `open` |
| buffer sizes in both `struct Private` | `buf` |
| `aipc_plugincaller_new` | `HostCreateThread` .. `HostAllow` |
| `aipc_plugin_new` | `PluginInit` .. `PluginTell` |
| `aipc_plugincaller_call_plugin` | `CallEnter` .. `CallReturn` |
| `EXCHANGE_call_thread` | `ServerReceive` .. `ServerReply` |
| `EXCHANGE_control_thread` | `ControlReceive` .. `ControlSend` |
| both `_delete` | `DeleteBegin` .. `DeleteClose`, `HostDelete*`, `PluginDeleteSend` |
| the end of a process | `Crash` |

A pipe is a stream of units (ints) that keep the kind of the message and the
number of its call; a read takes what is there up to the size of its buffer, so
an answer that is too big is cut and the rest stays, as with read(2). The model
begins where both sides have got their pipes and their shared memory. `Reorders`
lets a store pass a later load, as on the processors the code runs on, at the
two places where the flag protocol depends on the order. `GivesUp` lets the
50000 us wait of a delete end while a callback still runs. A process in `Lockless` may
be unable to make `shutdown.lock` (`lock.c:59`): its delete goes on without it
(`DeleteLockFails`), and does not remove the other's at the end. Two deletes may then tell
each other. `DeletesLocked` says that no delete in this behaviour went on that way.

### AudioExchange

Messages are one int, so `Sizes` is {1} and `ReplySizes` {0}. Frames are numbers;
the user's process function copies input frames to output frames, so a frame that
is lost, repeated, or out of place shows. `EarlyDelete` is TRUE: this module does
not assume that a plugin is deleted only after the host has returned. That the
socket for the ports sees to it is `ImplementsOrderlyExchange`. With `PortsFail` each
side of that socket may fail alone: the host cannot listen, cannot accept
(`HostAcceptFails`, which leaves the listening socket open, so that the plugin goes on as
if it had been heard), or reads too little (`HostReceiveFails`, also when the plugin could
not send, which `audioplugin.c:129` does not look at, or died); the plugin may give up.

### SharedMemory

The state of every process plus, for each prefix, the two lock files, the key
variable, the directory and its files; for each key the segment. Creating,
reading and deleting a variable is one step each, as `Variables` implements
`Register`. Freeing is one step because both locks are held and no other step of
the two functions can run then without one of them.

`Failures` are the calls of each process that may fail: making a lock file, `shmget` or
`shmat`, creating the key variable, writing the informations of a user, reading one of
these back. A failure of `aipc_sharedmem_new` ends at the store through NULL
(`DereferenceNull`) unless it jumps past it, a failed delete goes on without its locks
or leaves the memory. `wrong` is a history variable: a failure that nobody noticed
("read", "lock"), or a drawn key whose segment was there already ("same key"). `Fine`
says that there was none and no `aipc_sharedmem_new` ended half-way; the safety
properties are about states that are. `sharedmem.c:159` compares what `shmat` returns
with NULL, not with -1, so a failure there is not noticed either: `addr` is the segment
a process takes itself to be attached to.

`sharedmem_procinfo.c:91` says the check whether a user lives "may return 1 even if proc
is dead": a process with the same pid and command line. `Lookalikes` are the processes
that may be taken for living when they are dead; each check chooses anew. Their files
keep the memory, which `KeyMatchesInfos` allows, and `LastDeleteFrees` excepts them.

### Mixer

`callers[lokke]` is two loads, and `num_callers++`, the publication of the array,
the move of the last caller and `free` are steps of their own. An output port
holds the set of callers whose data is summed in it. `heard`, `steady` and `odd` are
history variables that no action reads.

The flag `is_calling` is stored and then the count and array are loaded by the audio
thread, and the count and array stored and then the flag loaded by a change, without a
barrier, as in the exchange. A user in `Overtaken` may therefore end its wait while the
audio thread is calling (`WaitOvertaken`): the thread's store was not seen yet, or the
look came before the change's own stores. `odd` then holds "early", and `InTime` says that
this has not happened. It also holds "twice" when a caller in `Twice` was added although
it is there, as `k_jackd~.c:91-99` does with a name given twice, or when two users worked
on it at once; `Orderly` is neither. After an early wait the audio thread may load beyond
the array, where anything may be (`"lost"`): nothing is claimed from there on.

### Clients

A directory number stands for the directory, the list node and the caller made
for it. What `AudioExchange` shows (`HostNewEnds`, `StartupEnds`,
`DeletesEnd`) is used as a contract here: the two `new` functions end together
(`Meet`) and `jack_deactivate`'s delete ends (`DeletePlugin`). A client in `Faulty` may
find any of its calls failing: the lock file or mkdir of its directory (`DirFails`), each
step of its request (`SendFails`, after which the server may hold a connection that gives
too little), and the exchange on either side or both (`MeetFails`). The plugin's `new`
returns an audioplugin whether or not the host got its ports, so the client may be active
and unknown to the server, or wait for ever for a host that has given up; and the host
may wait for a plugin that has. A delete may not be acknowledged (`AcknowledgeFails`),
or acknowledged to nobody, so that the server waits (`ListenFails`). `broken` is a history variable: the directories in
which something failed on one side only.
`MaxRounds` gives each client a bound of its own, `MaxDirs` bounds the directories.
The nodes the list leads to (`From`) are the least set that has its first node
and that no `next` field leads out of. `steady` is a history variable:
the nodes in the list since a search began. An uninitialised `size` after a short
read is a nondeterministic choice (`ReceiveShort`).

### Pipe

The `.bool` file decides who listens on which of two sockets; `round` numbers the
attempts, so an end that leads to an earlier attempt shows. A process that dies
(`Crash`) leaves its socket bound to nobody and, while it makes the pipe, the
`.bool` file; it may be started again and use the prefix again, as may one that
gave up. The accept of a process in `Refusing` may fail (`AcceptFails`), which gives the
attempt up with both its ends open. `Descriptors` counts the sockets a process can lose while it waits
(`ConnectFails`), after which `socket` fails (`NoDescriptor`); with 0 the close
of the failed socket does what it should. `broken` is a history variable: the
other process failed or died during this attempt, or deleted a pipe that came out of such
an attempt (a failed accept lets the other one connect to, and accept, what is already
gone; when it deletes that, it may take a connection of this attempt with it). A process that connects to
what is left of a broken attempt is not broken itself, and only `AttemptEnds`
makes an exception for it. A process that deleted its pipe waits for the other's delete before it makes the
next one, as the users of a prefix do (`MayOpen`).

### Variables and Register

One file operation under a lock file is one step: `CreateOpen` truncates,
`CreatePart` writes a part, `CreateWrite` writes the rest and closes, `GetRead` opens and reads. A content is a model
value with a number of bytes (`Bytes`) and what its first bytes are as an int
(`AsInt`), because `aipc_variable_get_string` reads its length from the text.
What is in `Failures` may fail at any time: making a lock file, opening (also a get's
opening of a file that is there: `GetOpenFails`, `GetEnds`), reading, writing, closing,
unlinking. `Register` has one step for
each call, and says for each failure what it may do: a get returns without the content
(`Fails`), a create that fails or dies leaves "empty" or a part of what it wrote
(`Tear`, `Parts`), a delete leaves everything. `aipc_variable_delete_string` removes its
text without that variable's lock file, so it has a call of its own (`Forget`). The refinement mapping: a create happens when it
truncates, so while the file is empty and its creator is about to write, the
register (`registerBar`) already holds what will be written; everything else is
the file. `phaseBar` maps the places in the functions to called, made, returned.

### Signal

A slot, a vector or an output holds the sequence of the sounds added up in it,
and the sound a client gives on an output remembers the client, the output, and
what the client heard on each input. So a sound that comes twice, from the wrong
port or out of the wrong vector shows. `Tell` and `Activated` are apart because
the server can use a client before `jack_activate` has stored its audioplugin.
`New` looks for one name at a time (`AddCaller`, with `setNumPuts` for the caller
that was added), as clients register meanwhile.
`Signals` is Pd's side: two outlets never share a vector, inlets may share
one, also with an outlet. The object remembers what Pd connected to which inlet and outlet
(`signals`, which no action reads), and `Sp` is the order in which the dsp method gets it;
the properties are stated with the first, the code computes its offsets from the second.
`MaxPorts` is at most 512, the length of a client's arrays of ports (`jack.h:46`), which
`jack_port_register` does not check: a client with more is not modelled. What may happen to the callers during an audio call is
left to `Mixer`, chunks to `AudioExchange`, the list of clients to `Clients`.

## Runs

All of them set CHECK_DEADLOCK FALSE: every process here may stop for good once
its user has had enough, and the bounds on rounds and calls stop the rest.

| Run | Instance | States | What it shows |
|---|---|---|---|
| `exchange` | sizes 1-3, replies NULL, 1 and 3, 2 calls, thread creation may fail, the plugin may not get the lock file | 142 000 | no call runs into a delete, messages mean what they were sent for, nothing is left over, the exchange implements `RemoteCall`, and starting up, calls and deletes end |
| `exchange_faults` | one size, replies NULL and 2; deletes give up, stores are delayed, both processes may die, all at once | 161 000 | one side at most tells the other, if both get the lock file; calls and the survivor's delete end unless a delete overtook a call or the dead one held the lock file |
| `audio` | BUFFERSIZE 2, audio calls of 0 and 5 frames, 4 chunks, ports may fail on either side, the plugin may not get the lock file | 147 000 | every frame is processed; buffers are not used by both; the exchange below is an orderly one; the host's `new` and audio calls end |
| `shm` | 3 processes, 2 of them makers, up to 2 rounds, timeouts, 2 processes may die and one of them look alive then, calls may fail | 62 000 | users share one segment; segment, key and directory exist exactly while a user is known; dead users do not keep them; makers and deletes end |
| `mixer` | 3 callers with 1 and 2 outputs, 2 users, 4 changes, 2 audio calls; one caller may fail, one be added twice, one user's wait be overtaken | 578 000 | callers that stay are heard once, outputs are the sum of what was heard, removed callers are out of use after the wait, changes end |
| `clients` | 2 clients, one activated twice, able to die and with calls that fail, one activated once; the server starts meanwhile, one object is searched for the first client | 358 000 | directories differ, the list follows the clients, a client that stays is found, activating and deactivating end |
| `pipe` | 3 rounds each, either may fail to accept, give up or die and be started again, one descriptor to lose | 97 000 | ends match; whoever left leaves nothing; both get the pipe if nobody gives up or dies; attempts end |
| `variables` | 2 processes, one variable and one string, 3 calls, any step may fail, one process may die | 287 000 | `Variables` implements `Register`; strings match their length; calls end |
| `signal` | 2 clients with up to 2 ports in each direction; objects for one, for both, and for one named twice; 3 vectors | 928 000 | outlets play the sum of what the clients gave, made from the right inlets; no other vector is changed |
| `shm_null`, `shm_keys`, `clients_mixers` | see Findings | | what the code does differently from what it says |

Why the bounds are enough. Sizes 1-3 against buffers that start at 1: a call can
fit, be one too big and be much too big, before and after another enlargement,
in each direction; a second call sees everything a first can leave behind, and
the delete may come in any state of either. Five frames in chunks of two have a
full first chunk, a full one that is not the first, and a remainder. Three
processes in the shared memory are the fewest in which one makes, one looks up
and one frees at the same time, and two rounds reach memory that is made again.
Four changes of three callers let an array be replaced, have a caller moved
within it, and be replaced again in one audio call. Three rounds of a pipe let a
third attempt meet what two left behind, and each side be the one that tries
again. Three calls on a variable let a third see what a create and a delete, or
two creates, do at the same time; the two texts are one that is shorter and one
that is longer than an int, the size `aipc_variable_get_string` reads first. Two
clients with none, one or two ports have every relation between their numbers of
ports, and three vectors are the fewest in which an object with two outlets has
one that is not an outlet of its own. No run uses symmetry, because most check
liveness.

### Fairness

- Threads and processes that are inside a function go on (weak fairness of the
  steps of each): the scheduler runs every thread. A callback ends: it
  is the user's function, and a call has no timeout that would end one otherwise.
- Timeouts (`NewFromKeyTimesOut`, `PluginTimesOut`), failures
  and crashes are never fair: callers may pass -1, and nothing has to fail. Two
  exceptions: in `Pipe` with `TimesOut` the wait to connect has a timeout and ends
  (`ConnectGivesUp`), and in `Variables` a get has one unless it is called with -1
  (`GetEnds`, strongly fair: the get looks at the clock between two locks).
- Users need not call, delete, activate or deactivate.
- `DeleteWait` and `Wait` poll a flag. Nothing but the bound on calls ends the
  audio thread's calling in the model; in the code the pauses between two calls
  are long against the 200 us of the poll, which no fairness over one flag
  expresses. `MaxCalls` stands for such a pause.
- Lock files are polled as well, and the bounds on rounds end all contention. In
  `Variables` a get polls for ever, so contention does not end: there a process
  gets a lock file that is free again and again (strong fairness of `Take`),
  since nobody holds one for longer than a few bytes take and each sleeps 2 ms
  between two attempts.
- `Signal` has no liveness: that a call ends is shown by the modules it is over.

Liveness properties name what may stop them, and only that: a lock file of a
dead process, a wait for a dead process or for one whose side of an exchange failed
alone, an `aipc_sharedmem_new` that failed half-way, a peer that gave up, an audio
thread that read beyond its array.

## Proofs

Every invariant of the passing runs is proved, and so are the three refinements
(`OneTells` only without the faults of `exchange_faults`). The theorems hold for all
values of the constants that satisfy the named assumption of the module, so for any
numbers of processes, clients, calls, rounds, sizes and frames, and whichever calls fail.
What a theorem assumes beyond that:

| Assumption | Why | Theorems |
|---|---|---|
| `~GivesUp` | a delete that gives up its wait runs into the call it waited for | `Exchange`, `AudioExchange` |
| `~Reorders` | a store that is seen late defeats the flag protocol | the same |
| `~EarlyDelete` | the user of the bare exchange must not delete the plugin before the host's `new` has returned | `Exchange` |
| `[]DeletesLocked` | two deletes that go on without the lock file may both tell the other, and write the header under each other's message | `HeadersMatch`, `AlwaysNothingStray`, `AlwaysOneTells` (in `OneTells`), `RemoteCallImplemented`, and of `AudioExchange` the frames and buffers |
| `Crashes = {}` | a call to a process that dies returns no answer, which `RemoteCall` does not allow | `RemoteCallImplemented` |
| `Orderly` | an overtaken wait lets the audio thread go on with what was removed or shrunk; a caller that is there twice is called twice, and its removal takes one of the two | `Mixer` |
| `Fine` | two processes that drew one key share a segment (`shm_keys`), a failure that goes unnoticed frees what is used or leaves what is not | `SharedMemory` (in the properties) |
| `broken` | what the other side failed in is lost to this side | `Pipe`, `Clients` (in the properties) |

The first three are needed: the run `exchange_faults`, in which deletes give up and
stores are delayed, lists no `CallExclusion`. The audio layer needs no `~EarlyDelete`:
`AudioImplementsOrderlyExchange` proves it away. `LocksHeld` shows that `[]DeletesLocked`
is what it should be: it holds whenever making the lock file does not fail. `Orderly` is a
state predicate over history, and nothing in the code makes `InTime` true: there is no
barrier in `audiopluginmixer.c`. What the theorems say of the mixer is what the protocol
achieves as long as each wait sees the last store. `TypeCorrect`, `CallsExcluded` and
`EndedIsFinal` need no lock file; `TypeCorrect`, `AudioImplementsOrderlyExchange` and the
theorems on `Variables` and `Signal` assume nothing. Crashes are allowed everywhere but
in `RemoteCallImplemented`.

### ExchangeProofs

- `TypeCorrect`: `Spec => []TypeOK`, whatever may fail, be reordered or die. The
  type of a reply's first unit needs `InputKept`: while the call thread is past
  its receive, what it received is not empty.
- `CallsExcluded` and `EndedIsFinal`: `CallExclusion`, `EndedForbidsCalls`.
- `HeadersMatch`, `AlwaysNothingStray`, `AlwaysOneTells`: `MessageMatchesHeader`,
  `NothingStray`, `OneTells`.
- `RemoteCallImplemented`: `ImplementsRemoteCall`.
- `LocksHeld`: deletes hold the lock file if it can be made.

The invariant `Orderly` is `TypeOK /\ InputKept /\ Opened /\ InOrder /\ Safe`.
`CallExclusion` is not inductive: that no call is past its look at `okey_to_call`
is kept only if `okey_to_call` is 0 while a delete is past its wait and
`is_calling` is 1 while a call is past its announcement (`Exclusion`, within
`Safe`), and nobody may set `okey_to_call` again or clear `is_calling`
afterwards. Two steps could: `HostAllow` and `PluginInit`, both in the functions
that start up. That neither runs while the other side deletes follows from the
handshake: `InOrder` says which words are on the two pipes and have been read at
each pair of places of the two `new` functions, and `Opened` that a side that has
not begun its delete and has not died still has its pipes open, so that reading
an int can only give the word that was sent. Each is proved with one step for
each action that touches its variables and a frame lemma for the rest
(`CallFrame`, `ServerFrame`, `ControlFrame`, `HostFrame`, `PluginFrame`,
`DeleteFrame`). The lemmas on steps assume `InTime`, that a plugin that is deleted
finds the host returned, instead of `~EarlyDelete`, and so serve the audio layer
as well.

For the calls, the invariant `Flowing` is `Orderly /\ Standing /\ Flows`. A message only wakes a
thread up; what it means stands in `h2p_datasize`, which the caller, a host's
delete and the control thread write. So the invariant has to know, for every
place of the call and of the call thread, what is on the two pipes, what the
header says, and how big the buffers at the ends are: `Calls` for a call that is
under way (with `Grows`, `Asks`, `AsksAgain` for the three things a call waits
for), `Serves` for the call thread, `Ends` and `Tells` for when no call is under way
and a delete may write the header. `Fits` and `Sized` say that no read is cut. A
delete may write because it is past its wait, hence no call is (`Orderly`).
`Standing` says what holds before calls are allowed and who holds the lock file.
`OneTells` follows from the lock file and `Tells`, except for a plugin without a
call thread (`NoneTells`). That deletes hold the lock file is not part of the invariant:
the steps are proved from `DeletesLocked` in the state before, which the temporal theorems
have as a hypothesis.

For the refinement `Known == Flowing /\ Alive /\ WindingDown`: without crashes
the call thread ends only by a word, and once the host is freed it only ever reads
that word. `Sees` is how far the remote call is, read off from where the call is;
every step is then a step of `RemoteCall` or leaves it unchanged.

### AudioExchangeProofs

- `AudioImplementsOrderlyExchange`: `AudioSpec => ImplementsOrderlyExchange`.
- `AlwaysEveryFrameProcessed`, `AlwaysBuffersNotShared`.

`Ordered` says the plugin tells its ports only to a host that is up, and deletes
itself only after that, so deletes are `InTime` unless the plugin gave up. In that
case the host never gets the ports and no audio call begins; otherwise `Sound`
holds: `Flowing` of the exchange below, no answer is ever bigger than its buffer
(`Unenlarged`), the call thread touches no buffer while the host copies (`Quiet`),
and the frames of the chunks that are done are in their places (`Placed`). The
invariant is `AudioInv == Ordered /\ (ports["plugin"] = "gave_up" \/ Sound)`.

### SharedMemoryProofs

- `AlwaysUsersShare`, `AlwaysKeyMatchesInfos`: `UsersShare`, `KeyMatchesInfos`.
- `AlwaysPrefixesApart`: `PrefixesApart` as long as everything is `Fine`, so a key that
  was drawn before is the cause of the finding `shm_keys`.

None of them assumes that keys differ: `random()` is not seeded (`sharedmem.c:194`), and
`Fine` ends where two makers got one segment. The invariant is
`Types /\ (Fine => Locked /\ Good)`. `Locked` says which of
the two lock files a process holds at each place; a lookup holds one of them, a
delete both, which is why a delete is alone. `Good`: whoever is attached is so to the
segment its prefix's key leads to (`Shares`), and is known in the directory until
its delete has taken that back (`Listed`); every key has a segment (`Keyed`), every
segment a key or a maker (`Found`), and key and directory agree while the locks are
free (`Filed`). That a check may take a dead user for living disturbs none of it: its
file then stays, and with it the memory. `sharedmem.h:25-27` says that deleting and looking
up at the same time may not work; the locks of `sharedmem.c:245-258` make it work, as
`AlwaysUsersShare` shows: the comment does not know of them.

### VariablesProofs

- `VariablesAreRegisters`: `Spec => ImplementsRegister`, the refinement.
- `AlwaysStringsMatch`: `StringsMatch`.

The invariant is `Types /\ Filled /\ Locked`. `Locked` is the point: a process
that is about to read or write a file holds the lock file of that variable, and
between a create's truncation and its write the file is empty or removed.
Without it a second create or a get could come between the two, and neither
would have happened at once. Removal is not in it: a delete that could not
make its lock file goes on, and `aipc_variable_delete_string` removes the text
without that lock, as a call of its own (`Forget`).
`Filled` says that what is created is a content, so that the register never
shows "none" or "empty" for a create. `Invariance` proves the invariant action by
action; then one lemma for each action (`LockRefines` .. `CrashRefines`) shows
that it is a step of `Register` under the mapping or leaves it unchanged. For the
strings `StringsSound` is added: as long as nothing failed, the two files are only
touched by the process that holds the lock file of the string, and at each place
of its call the one is as the call has already left it and the other as it was.

### MixerProofs

- `AlwaysInBounds`, `AlwaysEachHeardOnce`, `AlwaysOutputsAreTheSum`,
  `AlwaysRemovedIsUnused`, all as `Spec => [](Orderly => ...)`.

Once it is not `Orderly` it never is again, so every step may be proved between orderly
states. The invariant for these is `Types /\ Guarded /\ Distinct /\ Changing /\ Audible /\ Sums`.
`Distinct`: no caller is in two places of the array, the place that is being filled
or emptied included. `Audible` relates what the audio thread has loaded to the array
of the mixer, which others replace under it: they agree place by place but for a
caller that was removed (`Follows`, `Loads`), the thread is beyond the end only if
one was removed meanwhile, and the last caller, which took that one's place, was not
called at the end (`Reaches`), and each steady caller was called or is still in front
(`KeepsSteady`). It works because at most one caller is removed during an audio
call: the remover waits, with the mutex, until that call is over.
`aipc_audiopluginmixer_remove_caller` does not look at the last place
(`audiopluginmixer.c:199`), so the last caller is "not found": it stays, is called after
the function has returned, and may not be deleted then. `RemovedIsUnused` is about the
others.

### ClientsProofs

- `AlwaysDirsDistinct`, `AlwaysListMatchesClients`, `AlwaysSearchFindsSteady`.
  `ListMatchesClients` leaves room for one thing only: a client that is active in a
  directory that is `broken` may be missing from the list.

Of the clients the invariant says that each uses only a directory it made itself
(`Owned`), has at most one request on its way (`Requested`), and that a request the
server handles is no longer on its way and its client waits for the answer or has
died (`Served`). `Listed` says whose nodes the list has at each place of the input
thread. Of the list: nothing leads to a node that was not yet made the root
(`News`), so that preparing it disturbs nobody; it does not run in a circle, not even
from a node that was taken out (`Straight`, by a rank for each node); and the nodes
that stay and match are ahead of Pd's search, wherever that is (`Ahead`), also when it
stands on a node that was taken out, whose field still leads into the list. The lemmas
on chains (`ChainNext`, `ChainUntouched`, `ChainAround`, `ChainWithout`) say what
writing one field does to what can be reached.

### PipeProofs

- `AlwaysEndsMatch`, `AlwaysNothingLeft`.

The invariant is `Types /\ Sockets /\ BoolFile` with `OutputOf` and `InputOf` of each
process. Both say nothing of a process whose attempt is `broken`: what the other failed
in, died in, or spoilt by deleting what it got out of a broken attempt, may lead anywhere.
A process listens on the socket of its id exactly while it has an input; a
`.bool` file belongs to one that will remove it, or that died. A connection is of the
attempt the other is in and in which it connected to this attempt, or which it has
deleted and now waits for (`Leads`).

### SignalProofs

- `AlwaysOutletsAreRight`, `AlwaysOtherVectorsStay`, both stated with what Pd connected
  (`signals`), not with the vector of parameters.

The invariant `Inv` is `Programs /\ Made /\ Places /\ Sounds /\ Untouched`. `Programs`: a port's number is its place, and what plugin and caller lay out
is the same, since the ports are registered before either is made. `Made`: no caller
has more ports than the object, the parameters have room for all inlets and outlets,
and these are where `k_jackd_perform` looks for them, no two outlets in one vector. So
each of the five indices of a port leads to the same sound. `Sounds` says, when k of
the callers were called, that outlet n holds what those of the k that have an output n
gave (`SumOf`): the place of a sound is the number of such callers up to it
(`RankFacts`), so the sum is described without a recursion and one more call adds one
sound at the end (`SumGrows`). The slots hold the inlets after `CopyIn` (`Copied`) and
what the client made of them after `Process` (`Processed`). All of it is claimed while
none of the callers has died: the result of a call is not looked at. `Untouched` is
claimed always: what is no outlet of Pd's holds what Pd put there.

### Only model-checked

- All liveness: fairness and ENABLED are beyond the prover.
- `OneTells` in `exchange_faults`, where deletes give up and stores are delayed:
  `AlwaysOneTells` assumes they do not.

## Findings

Runs with a counterexample:

- `shm_null` (`sharedmem.c:265`): a process that gives a size and one that waits
  for its key can both find no directory; for one of them mkdir fails, and the
  failure is stored through NULL.
- `shm_keys` (`sharedmem.c:194`): `random()` without a seed, and `shmget` without
  IPC_EXCL: memory of different prefixes can be the same segment.
- `clients_mixers` (`clienthandler.c:85`): the mixers of the objects keep the
  caller of a client that has left.

Seen while modelling and kept in the models as the code has it:

- `plugincaller.c:158`: `is_calling` covers one chunk. Between two chunks of an
  audio call a delete finds it 0 and frees the callers that the audio call goes on
  to use.
- `plugincaller.c:292` allows calls without looking at `status`: a plugin of the
  bare exchange that is deleted before the host's `new` has returned leaves an
  exchange that has ended and allows calls (set `EarlyDelete` in
  `MCExchange.cfg`). The audio layer rules it out unless the plugin gave up
  telling its ports.
- `plugincaller.c:180` releases the shutdown lock when the other side was told,
  before that side has told back; `plugin.h:23-36` lists the unlock last.
- `plugin.c:100` tells the callback the size of the buffer, not of the data.
- `simpleio.c:48` and `pipe.c:64` accept without a timeout although their callers
  gave one: a peer that gave up after that leaves them waiting.
- `output.c:79` closes `c->fd` after `free(c)`, and `output.c:67` answers a failed
  `socket` with -1, which `output.c:107` takes for the end of the wait: once the
  descriptors are used up, a wait with timeout -1 ends, too, against
  `aipc/aipc/output.h:43` (set `TimesOut` to FALSE in `MCPipe.cfg` and look for
  "give_up").
- `variable.c:260` reads the length of a string from the text, not from the file
  of the length, so `aipc_variable_get_string` takes the first bytes of the text
  for a number of bytes, and as good as never returns a string. It also keeps its
  lock file while it waits, so that no `aipc_variable_create_string` can end the
  wait (`CallsEnd` names it).
- `variable.c:201` removes the text without the lock file of the variable, and
  `variable.c:204` a file that is not the one of the length (that one ends in
  `_variable_string_len_variable`).
- `variable.c:234`: when writing the text fails, the length is removed, although
  an older text may still be there; `variable.c:88` does not look at what
  `fclose` returns. A get that finds such a file ends at once, also with timeout
  -1.
- `library/jack.c:82`: the process callback may be called before the audioplugin
  is stored; `jack_port_get_buffer` then follows NULL (`ProcessNull`).
- `library/jack.c:161`: a port that is registered after `jack_activate` has a
  number beyond the arrays of the audioplugin. The model registers ports before.
- `audiopluginmixer.c:121`: when Pd uses an inlet's vector for an outlet, the
  second caller of an object hears the first instead of the inlet; a client named
  twice is called twice. The silent input of `audiopluginmixer.c:106` is never
  used: `dsp.c:54` passes the mixer's own numbers, and no caller has more inputs.
- `audiopluginmixer.c:179` frees the old array before the wait for the audio
  thread (`:181`), which may be reading it. The model keeps the contents of a freed
  array, so the properties of `Mixer` hold as long as the memory is not used again.
- `audiopluginmixer.c:77` and `:181`, `:208`: `is_calling` has no barrier, so a wait may
  end while the audio thread is calling (`WaitOvertaken`), and the thread may then use a
  removed caller.
- `sharedmem.h:25-27` says that only the delete is locked and that looking up at the same
  time may not work; `aipc_sharedmem_new` takes the locks, too, and it works.
- `sharedmem_procinfo.c:91`: a dead user whose pid and command line a living process has
  keeps the memory for good.
- `audioplugin.c:129` does not look at what became of the ports it sent, and
  `simpleio.c:50` leaves the listening socket open when accept fails: a client may be
  active that the server does not know, and its later delete is "not found" and never
  acknowledged (`clienthandler.c:101`), or it waits for ever.
- `plugin.c:155` goes on without the lock file when it cannot be made (`lock.c:59`).
- `audiopluginmixer.c:199` ends one too early: the last caller, so the only one,
  is never found and never removed.
- `pipe.c:99` removes the `.bool` file of the other's next attempt when an
  attempt gives up, and that process's own next attempt then fails to bind.

## Not modelled

- The failures of `aipc_plugin_new` and `aipc_plugincaller_new` before both sides
  have pipes and shared memory; `Clients` has their results, on either side (`MeetFails`).
- Failing unlink, rmdir and IPC_RMID in the shared memory, whose results nobody looks at.
- The numbered sockets of `aipc_input_new` (id -1): nothing in the repository uses
  them. `aipc_audiopluginmixer_delete`: the same.
- The sample rate and buffer size that `k_jackd_tilde_setup` tells clients once
  (`k_jackd~.c:171`): two variables written by one thread at start and only read
  afterwards.
- `library/dummies.c` and the rest of `library/jack.c` (callbacks, names):
  constants and assignments of one thread.
- `aipc/src/tests/`: demonstrations, which the environments of the models cover.

## Plan

Order of work, the behaviour that matters most first. Done: `Exchange` with
`RemoteCall`, `AudioExchange`, `SharedMemory`, `Mixer`, `Clients`, `Pipe` with
crashes and retries, `Variables` with `Register`, `Signal`, and the theorems
above. Next:

1. The start of the exchange before pipes and shared memory exist, composed from
   `Pipe` and `SharedMemory`, with its failure paths.
2. An abstract specification of `SharedMemory` (a reference-counted segment for
   each prefix) and of `Mixer` (a set of callers changed atomically), each
   implemented by the module there is.
3. Proofs: what of `OneTells` is left when deletes give up or stores are delayed;
   the refinements of item 2.
