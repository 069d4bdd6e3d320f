---------------------------- MODULE SharedMemory ----------------------------
(***************************************************************************)
(* Shared memory found by a name: aipc/src/sharedmem.c with                *)
(* sharedmem_procinfo.c and sharedmem_locking.c.  Processes that use the   *)
(* same filenames_prefix get the same System V segment: the first to give  *)
(* a size makes it and leaves its key in the variable <prefix>_key, a      *)
(* process that gives size -1 waits for that variable.  Each user leaves a *)
(* file in a directory of process informations, and whoever finds that no  *)
(* other user lives frees everything.                                      *)
(*                                                                         *)
(* The two lock files of lock.c are "free" or name their holder, and stay  *)
(* when it dies.  Creating, reading and deleting a variable happens under  *)
(* a lock file of its own and is one step.  Releasing two locks is one     *)
(* step: nothing is done between the two.                                  *)
(***************************************************************************)
EXTENDS Naturals, FiniteSets

CONSTANTS
  Processes,
  Makers,       \* the processes that give a size; the others give -1
  PrefixOf,     \* the filenames_prefix each process uses
  RandomKey,    \* what random() returns to each process
  MaxRounds,    \* bound: how often each process calls aipc_sharedmem_new
  TimesOut,     \* TRUE: the wait for the key may end (timeout other than -1)
  Crashes,      \* the processes that may die at any point
  Lookalikes,   \* whose pid and command line another process may have afterwards
  Failures      \* which calls of each process may fail: taking a "lock" file, "attach"ing a segment,
                \* creating the "key" variable, writing the "info"rmations of a user,
                \* or "read"ing back one of these

Prefixes == {PrefixOf[p] : p \in Processes}
Keys == {RandomKey[p] : p \in Processes}

ASSUME SharedMemoryAssumption ==
  /\ Makers \subseteq Processes /\ Crashes \subseteq Processes
  /\ Lookalikes \subseteq Processes
  /\ \A p \in Processes :
       Failures[p] \subseteq {"lock", "attach", "key", "info", "read"}
  /\ (\A p \in Processes : MaxRounds[p] \in Nat) /\ TimesOut \in BOOLEAN /\ 0 \notin Keys
  /\ "free" \notin Processes

VARIABLES
  pc,           \* where each process is
  rounds,       \* how often it has begun aipc_sharedmem_new
  addr,         \* the segment a process is attached to; 0 is none
  newlock,      \* for each prefix, the holder of the lock of "new"
  fromkeylock,  \* and of the lock of "new from key"
  keyvar,       \* the variable <prefix>_key; 0 when there is none
  dir,          \* whether the directory of process informations exists
  infos,        \* whose informations are in it
  segment,      \* for each key the segment shmget finds; 0 is none
  made,         \* how many segments were made
  wrong         \* what went wrong without anyone noticing: "same key", "read", "lock"

locks == <<newlock, fromkeylock>>
files == <<keyvar, dir, infos>>
memory == <<segment, made, wrong>>
shmVars == <<pc, rounds, addr, locks, files, memory>>

Init ==
  /\ pc = [p \in Processes |-> "out"]
  /\ rounds = [p \in Processes |-> 0]
  /\ addr = [p \in Processes |-> 0]
  /\ newlock = [f \in Prefixes |-> "free"]
  /\ fromkeylock = [f \in Prefixes |-> "free"]
  /\ keyvar = [f \in Prefixes |-> 0]
  /\ dir = [f \in Prefixes |-> FALSE]
  /\ infos = [f \in Prefixes |-> {}]
  /\ segment = [k \in Keys |-> 0]
  /\ made = 0
  /\ wrong = {}

Fail(p, call) == call \in Failures[p]

Goto(p, from, to) == pc[p] = from /\ pc' = [pc EXCEPT ![p] = to]

Only(p, from, to) ==
  Goto(p, from, to) /\ UNCHANGED <<rounds, addr, locks, files, memory>>

TakeNew(p, from, to) ==
  /\ newlock[PrefixOf[p]] = "free"
  /\ newlock' = [newlock EXCEPT ![PrefixOf[p]] = p]
  /\ Goto(p, from, to)
  /\ UNCHANGED <<rounds, addr, fromkeylock, files, memory>>

TakeFromKey(p, from, to) ==
  /\ fromkeylock[PrefixOf[p]] = "free"
  /\ fromkeylock' = [fromkeylock EXCEPT ![PrefixOf[p]] = p]
  /\ Goto(p, from, to)
  /\ UNCHANGED <<rounds, addr, newlock, files, memory>>

Unlocked(lock, p) == [f \in Prefixes |-> IF lock[f] = p THEN "free" ELSE lock[f]]

Unlock(p, from, to) ==
  /\ Goto(p, from, to)
  /\ newlock' = Unlocked(newlock, p)
  /\ fromkeylock' = Unlocked(fromkeylock, p)
  /\ UNCHANGED <<rounds, addr, files, memory>>

\* IPC_RMID: no later shmget finds the segment.
Removed(id) == [k \in Keys |-> IF segment[k] = id THEN 0 ELSE segment[k]]

-----------------------------------------------------------------------------
(***************************************************************************)
(* aipc_sharedmem_new.  The lock of "new" is held while a segment is made, *)
(* that of "new from key" while one is looked up, both only when a process *)
(* that gave a size finds the key already there.                           *)
(***************************************************************************)
Begin(p) ==
  /\ rounds[p] < MaxRounds[p]
  /\ Goto(p, "out", IF p \in Makers THEN "lock_new" ELSE "lock_from_key")
  /\ rounds' = [rounds EXCEPT ![p] = @ + 1]
  /\ UNCHANGED <<addr, locks, files, memory>>

LockNew(p) == TakeNew(p, "lock_new", "check_allocated")

LockFromKey(p) == TakeFromKey(p, "lock_from_key", "from_key")

(***************************************************************************)
(* Without its first lock the function returns NULL at once; without the   *)
(* second a maker goes on with a result that is still NULL.                *)
(***************************************************************************)
LockFails(p) ==
  /\ Fail(p, "lock")
  /\ \/ Only(p, "lock_new", "out")
     \/ Only(p, "lock_from_key", IF p \in Makers THEN "null" ELSE "out")

\* Mutant: both locks are taken without looking for the key first.
CheckAllocatedNot(p) == Only(p, "check_allocated", "lock_from_key")

CheckAllocated(p) ==
  Only(p, "check_allocated", IF keyvar[PrefixOf[p]] # 0 THEN "lock_from_key" ELSE "get")

\* A key that cannot be read counts as none.
CheckAllocatedFails(p) ==
  /\ Fail(p, "read") /\ keyvar[PrefixOf[p]] # 0
  /\ Goto(p, "check_allocated", "get")
  /\ wrong' = wrong \cup {"read"}
  /\ UNCHANGED <<rounds, addr, locks, files, segment, made>>

(***************************************************************************)
(* aipc_sharedmem_new_make: shmget makes a segment for the key, unless it  *)
(* finds one, which nothing tells from a new one.                          *)
(***************************************************************************)
Make(p) ==
  /\ Goto(p, "get", "make_key")
  /\ IF segment[RandomKey[p]] = 0
     THEN /\ made' = made + 1
          /\ segment' = [segment EXCEPT ![RandomKey[p]] = made + 1]
          /\ UNCHANGED wrong
     ELSE /\ wrong' = wrong \cup {"same key"}
          /\ UNCHANGED <<segment, made>>
  /\ addr' = [addr EXCEPT ![p] = segment'[RandomKey[p]]]
  /\ UNCHANGED <<rounds, locks, files>>

\* shmget makes no segment, or one that is removed again as shmat fails.
MakeFails(p) ==
  /\ Fail(p, "attach")
  /\ Goto(p, "get", "null")
  /\ segment' \in {segment, [segment EXCEPT ![RandomKey[p]] = 0]}
  /\ UNCHANGED <<rounds, addr, locks, files, made, wrong>>

MakeKeyVariable(p) ==
  /\ Goto(p, "make_key", "check_dir")
  /\ keyvar' = [keyvar EXCEPT ![PrefixOf[p]] = RandomKey[p]]
  /\ UNCHANGED <<rounds, addr, locks, dir, infos, memory>>

MakeKeyVariableFails(p) ==
  /\ Fail(p, "key")
  /\ Goto(p, "make_key", "null")
  /\ segment' = Removed(addr[p])
  /\ UNCHANGED <<rounds, addr, locks, files, made, wrong>>

(***************************************************************************)
(* SHM_newFromKey: wait for the key and attach to its segment.  addr is    *)
(* the segment's id: a failing shmat, which is looked for in vain (NULL    *)
(* for -1), changes nothing of what is modelled.                           *)
(***************************************************************************)
NewFromKey(p) ==
  LET key == keyvar[PrefixOf[p]] IN
  /\ key # 0
  /\ Goto(p, "from_key", IF segment[key] = 0 THEN "null" ELSE "check_dir")
  /\ addr' = [addr EXCEPT ![p] = segment[key]]
  /\ UNCHANGED <<rounds, locks, files, memory>>

NewFromKeyTimesOut(p) ==
  TimesOut /\ keyvar[PrefixOf[p]] = 0 /\ Only(p, "from_key", "null")

\* The key variable cannot be read, or shmget or shmctl gives no segment.
NewFromKeyFails(p) ==
  (Fail(p, "attach") \/ Fail(p, "read")) /\ Only(p, "from_key", "null")

(***************************************************************************)
(* SHM_saveProcInfo: access(), mkdir() if the directory was not there, and *)
(* the file.  When mkdir finds the directory made meanwhile it fails, and  *)
(* with it the whole call; a maker then removes the segment.               *)
(***************************************************************************)
CheckDir(p) == Only(p, "check_dir", IF dir[PrefixOf[p]] THEN "save" ELSE "make_dir")

MakeDir(p) ==
  /\ ~dir[PrefixOf[p]]
  /\ Goto(p, "make_dir", "save")
  /\ dir' = [dir EXCEPT ![PrefixOf[p]] = TRUE]
  /\ UNCHANGED <<rounds, addr, locks, keyvar, infos, memory>>

\* Whoever made the segment removes it.
GiveUpSaving(p, from) ==
  /\ Goto(p, from, "null")
  /\ segment' = IF fromkeylock[PrefixOf[p]] = p THEN segment ELSE Removed(addr[p])
  /\ UNCHANGED <<rounds, addr, locks, keyvar, dir, made, wrong>>

MakeDirFails(p) ==
  /\ dir[PrefixOf[p]] \/ Fail(p, "info")
  /\ GiveUpSaving(p, "make_dir")
  /\ UNCHANGED infos

SaveProcInfo(p) ==
  /\ Goto(p, "save", "unlock")
  /\ infos' = [infos EXCEPT ![PrefixOf[p]] = @ \cup {p}]
  /\ UNCHANGED <<rounds, addr, locks, keyvar, dir, memory>>

\* A file that could not be written whole may be left.
SaveProcInfoFails(p) ==
  /\ Fail(p, "info")
  /\ GiveUpSaving(p, "save")
  /\ infos' \in {infos, [infos EXCEPT ![PrefixOf[p]] = @ \cup {p}]}

Return(p) == Unlock(p, "unlock", "in")

(***************************************************************************)
(* aipc_sharedmem_new stores the pid through the result: NULL ends the     *)
(* process.  A maker has released its second lock by then.                 *)
(***************************************************************************)
DereferenceNull(p) ==
  /\ Goto(p, "null", "segfault")
  /\ addr' = [addr EXCEPT ![p] = 0]
  /\ fromkeylock' = IF p \in Makers THEN Unlocked(fromkeylock, p) ELSE fromkeylock
  /\ UNCHANGED <<rounds, newlock, files, memory>>

-----------------------------------------------------------------------------
(***************************************************************************)
(* aipc_sharedmem_delete.  Both locks keep every other change away, so     *)
(* looking through the directory is one step: it stops at the first other  *)
(* user that lives, and has then deleted the files of some dead ones.      *)
(***************************************************************************)
DeleteBegin(p) == Only(p, "in", "delete_lock")

DeleteLockNew(p) == TakeNew(p, "delete_lock", "delete_lock_2")

DeleteLockFromKey(p) == TakeFromKey(p, "delete_lock_2", "delete_info")

(***************************************************************************)
(* Without one of the locks the function gives back the other, does all    *)
(* the same with none, and at the end looks for them through a NULL.       *)
(***************************************************************************)
DeleteLockFails(p) ==
  /\ Fail(p, "lock")
  /\ Goto(p, pc[p], "delete_info")
  /\ pc[p] \in {"delete_lock", "delete_lock_2"}
  /\ newlock' = Unlocked(newlock, p)
  /\ wrong' = wrong \cup {"lock"}
  /\ UNCHANGED <<rounds, addr, fromkeylock, files, segment, made>>

DeleteProcInfo(p) ==
  /\ Goto(p, "delete_info", "can_free")
  /\ infos' = [infos EXCEPT ![PrefixOf[p]] = @ \ {p}]
  /\ UNCHANGED <<rounds, addr, locks, keyvar, dir, memory>>

Alive(q) == pc[q] \notin {"dead", "segfault"}

\* Mutant: the files of users that live are deleted as well.
CheckIfMemCanBeFreedAlways(p) ==
  /\ Goto(p, "can_free", "free")
  /\ infos' = [infos EXCEPT ![PrefixOf[p]] = {}]
  /\ UNCHANGED <<rounds, addr, locks, keyvar, dir, memory>>

\* Mutant: whoever has a file is taken to live.
CheckIfMemCanBeFreedNever(p) ==
  /\ Goto(p, "can_free", IF infos[PrefixOf[p]] = {} THEN "free" ELSE "delete_unlock")
  /\ UNCHANGED <<rounds, addr, locks, files, memory>>

(***************************************************************************)
(* SHM_isProcAlive looks whether a process with the user's pid has the     *)
(* user's command line, which another process may have by then ("BUG: May  *)
(* return 1 even if proc is dead"), and a user whose file cannot be read   *)
(* does not count.                                                         *)
(***************************************************************************)
CheckIfMemCanBeFreed(p) ==
  LET f == PrefixOf[p] IN
  \E alike \in SUBSET Lookalikes, unread \in SUBSET infos[f] :
    LET dead == {q \in infos[f] : (~Alive(q) /\ q \notin alike) \/ q \in unread} IN
    /\ unread # {} => Fail(p, "read")
    /\ Goto(p, "can_free", IF infos[f] = dead THEN "free" ELSE "delete_unlock")
    /\ \E gone \in SUBSET dead :
         /\ infos[f] = dead => gone = dead
         /\ infos' = [infos EXCEPT ![f] = @ \ gone]
         /\ wrong' = IF \E q \in gone : Alive(q) THEN wrong \cup {"read"} ELSE wrong
    /\ UNCHANGED <<rounds, addr, locks, keyvar, dir, segment, made>>

\* The directory cannot be opened: everything stays, whoever uses it.
CheckIfMemCanBeFreedFails(p) ==
  /\ Fail(p, "read")
  /\ Goto(p, "can_free", "delete_unlock")
  /\ wrong' = wrong \cup {"read"}
  /\ UNCHANGED <<rounds, addr, locks, files, segment, made>>

\* Mutant: the key of the freed segment stays.
FreeWithoutKey(p) ==
  /\ Goto(p, "free", "delete_unlock")
  /\ segment' = Removed(addr[p])
  /\ dir' = [dir EXCEPT ![PrefixOf[p]] = infos[PrefixOf[p]] # {}]
  /\ UNCHANGED <<rounds, addr, locks, keyvar, infos, made, wrong>>

Free(p) ==
  /\ Goto(p, "free", "delete_unlock")
  /\ segment' = Removed(addr[p])
  /\ dir' = [dir EXCEPT ![PrefixOf[p]] = infos[PrefixOf[p]] # {}]
  /\ keyvar' = [keyvar EXCEPT ![PrefixOf[p]] = 0]
  /\ UNCHANGED <<rounds, addr, locks, infos, made, wrong>>

\* Mutant: only the first of the two locks is released.
DeleteReturnLocked(p) ==
  /\ Goto(p, "delete_unlock", "out")
  /\ addr' = [addr EXCEPT ![p] = 0]
  /\ newlock' = Unlocked(newlock, p)
  /\ UNCHANGED <<rounds, fromkeylock, files, memory>>

\* There is no shmdt: the process stays attached, addr is just forgotten.
DeleteReturn(p) ==
  /\ Goto(p, "delete_unlock", IF newlock[PrefixOf[p]] = p THEN "out" ELSE "segfault")
  /\ addr' = [addr EXCEPT ![p] = 0]
  /\ newlock' = Unlocked(newlock, p)
  /\ fromkeylock' = Unlocked(fromkeylock, p)
  /\ UNCHANGED <<rounds, files, memory>>

\* A process dies: its attachments go, its files and lock files stay.
Crash(p) ==
  /\ p \in Crashes /\ Alive(p) /\ pc[p] # "null"
  /\ pc' = [pc EXCEPT ![p] = "dead"]
  /\ addr' = [addr EXCEPT ![p] = 0]
  /\ UNCHANGED <<rounds, locks, files, memory>>

-----------------------------------------------------------------------------
NewStep(p) ==
  \/ LockNew(p) \/ LockFromKey(p) \/ CheckAllocated(p) \/ Make(p)
  \/ MakeKeyVariable(p) \/ NewFromKey(p)
  \/ CheckDir(p) \/ MakeDir(p) \/ MakeDirFails(p) \/ SaveProcInfo(p)
  \/ Return(p) \/ DereferenceNull(p)

NewFails(p) ==
  \/ LockFails(p) \/ CheckAllocatedFails(p) \/ MakeFails(p) \/ MakeKeyVariableFails(p)
  \/ NewFromKeyTimesOut(p) \/ NewFromKeyFails(p) \/ SaveProcInfoFails(p)

DeleteStep(p) ==
  \/ DeleteLockNew(p) \/ DeleteLockFromKey(p) \/ DeleteProcInfo(p)
  \/ CheckIfMemCanBeFreed(p) \/ Free(p) \/ DeleteReturn(p)

DeleteFails(p) == DeleteLockFails(p) \/ CheckIfMemCanBeFreedFails(p)

Next ==
  \E p \in Processes :
    \/ Begin(p) \/ NewStep(p) \/ NewFails(p)
    \/ DeleteBegin(p) \/ DeleteStep(p) \/ DeleteFails(p) \/ Crash(p)

Spec == Init /\ [][Next]_shmVars

(***************************************************************************)
(* A process that is inside one of the two functions goes on; a wait need  *)
(* not time out.  Trying a lock file again is not fair, but MaxRounds ends *)
(* all contention.                                                         *)
(***************************************************************************)
FairSpec ==
  Spec /\ \A p \in Processes : WF_shmVars(NewStep(p) \/ DeleteStep(p))

-----------------------------------------------------------------------------
(***************************************************************************)
(* Properties.                                                             *)
(***************************************************************************)
Using(p) == pc[p] \in {"in", "delete_lock", "delete_lock_2"}
Failed == {p \in Processes : pc[p] \in {"null", "segfault"}}

\* No aipc_sharedmem_new has failed half-way, nothing was taken for another that
\* could not be read or locked, and random() has drawn no key twice.
Fine == Failed = {} /\ wrong = {}

\* Users of one prefix share one segment, which can still be found under the
\* prefix: it is freed under nobody, and nobody joins one that is being freed, while
\* everything is Fine.  sharedmem.h:25-27 says "Only aipc_sharedmem_delete is locked.
\* Simultaniously calling aipc_sharedmem_delete and aipc_sharedmem_newFromKey may not
\* work"; but the code locks aipc_sharedmem_new as well (sharedmem.c:245-258), and this
\* says that it does work.
UsersShare ==
  Fine =>
    \A p \in Processes : Using(p) =>
      /\ keyvar[PrefixOf[p]] # 0 /\ segment[keyvar[PrefixOf[p]]] = addr[p]
      /\ \A q \in Processes :
           Using(q) /\ PrefixOf[q] = PrefixOf[p] => addr[q] = addr[p]

\* Between operations a prefix has a segment, its key and its directory exactly as
\* long as the directory names a user, although any of the users may die: no delete
\* leaves a part of the three (README: "huge risk of not freeing shared memory").
KeyMatchesInfos ==
  Fine /\ (\A f \in Prefixes : newlock[f] = "free" /\ fromkeylock[f] = "free") =>
    /\ \A f \in Prefixes :
         (keyvar[f] # 0 <=> infos[f] # {}) /\ (dir[f] <=> infos[f] # {})
    /\ \A k \in Keys : segment[k] # 0 <=> \E f \in Prefixes : keyvar[f] = k

\* Different prefixes are different memory (sharedmem.h:60-61).
PrefixesApart ==
  \A p, q \in Processes :
    Using(p) /\ Using(q) /\ PrefixOf[p] # PrefixOf[q] => addr[p] # addr[q]

\* A failing aipc_sharedmem_new returns NULL, as its callers expect
\* (plugincaller.c:252-257, plugin.c:251-255).
FailureReturns == \A p \in Processes : pc[p] # "segfault"

\* A process died with a lock file, which nobody removes (lock.c:57-79).
LockLeft ==
  \E p \in Processes, f \in Prefixes :
    pc[p] = "dead" /\ p \in {newlock[f], fromkeylock[f]}

\* A delete ends whoever else makes, looks up or deletes meanwhile: it takes
\* both locks, but a process that waits for the key with one of them held is
\* never what it waits for.  Only what has gone wrong or a lock file that was left
\* behind stops it.
DeletesEnd ==
  \A p \in Processes :
    pc[p] = "delete_lock" ~> pc[p] \in {"out", "dead"} \/ ~Fine \/ LockLeft

\* The files of dead users do not keep the memory: when all others that used it are
\* dead, and no living process has come to look like one of them, the last one's
\* delete leaves nothing (sharedmem_procinfo.c:156-176).
LastDeleteFrees ==
  \A p \in Processes :
    LET f == PrefixOf[p] IN
    /\ pc[p] = "delete_lock"
    /\ \A q \in Processes \ {p} : PrefixOf[q] = f =>
         pc[q] = "dead" /\ (q \in Lookalikes => q \notin infos[f])
    ~> \/ keyvar[f] = 0 /\ infos[f] = {} /\ ~dir[f]
       \/ pc[p] = "dead" \/ ~Fine \/ LockLeft

\* A process that gives a size never waits for ever, with the same exceptions, or
\* returns at once when it cannot have a lock file.
MakersEnd ==
  \A p \in Makers :
    pc[p] = "lock_new" ~>
      pc[p] \in {"in", "dead"} \/ (Fail(p, "lock") /\ pc[p] = "out") \/ ~Fine \/ LockLeft
=============================================================================
