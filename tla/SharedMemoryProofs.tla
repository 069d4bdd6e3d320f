------------------------- MODULE SharedMemoryProofs -------------------------
(***************************************************************************)
(* Theorems about the shared memory: who uses it shares it, and nothing is *)
(* left of it when nobody does.                                            *)
(***************************************************************************)
EXTENDS SharedMemory, TLAPS

(***************************************************************************)
(* What each process holds and knows at each step.                         *)
(***************************************************************************)
PCs == {"out", "lock_new", "lock_from_key", "check_allocated", "get", "make_key",
        "from_key", "check_dir", "make_dir", "save", "unlock", "in", "null", "segfault",
        "delete_lock", "delete_lock_2", "delete_info", "can_free", "free",
        "delete_unlock", "dead"}

Types ==
  /\ pc \in [Processes -> PCs] /\ addr \in [Processes -> Nat]
  /\ rounds \in [Processes -> Nat]
  /\ newlock \in [Prefixes -> Processes \cup {"free"}]
  /\ fromkeylock \in [Prefixes -> Processes \cup {"free"}]
  /\ keyvar \in [Prefixes -> Keys \cup {0}] /\ dir \in [Prefixes -> BOOLEAN]
  /\ infos \in [Prefixes -> SUBSET Processes]
  /\ segment \in [Keys -> Nat] /\ made \in Nat

Deleting == {"delete_info", "can_free", "free", "delete_unlock"}
Saving == {"check_dir", "make_dir", "save", "unlock"}

HoldsNew(p) ==
  \/ pc[p] \in {"check_allocated", "get", "make_key", "delete_lock_2"} \cup Deleting
  \/ p \in Makers /\ pc[p] \in {"lock_from_key", "from_key"} \cup Saving

HoldsFromKey(p) ==
  \/ pc[p] \in {"from_key"} \cup Deleting
  \/ p \notin Makers /\ pc[p] \in Saving

\* Whoever changes anything holds one of the two locks of its prefix, and a delete
\* holds both.
Locked ==
  /\ \A p \in Processes :
       /\ HoldsNew(p) => newlock[PrefixOf[p]] = p
       /\ HoldsFromKey(p) => fromkeylock[PrefixOf[p]] = p
       /\ pc[p] \in {"lock_new", "check_allocated", "get", "make_key"} => p \in Makers
  /\ \A f \in Prefixes :
       /\ newlock[f] # "free" => PrefixOf[newlock[f]] = f
       /\ fromkeylock[f] # "free" => PrefixOf[fromkeylock[f]] = f

Attached(p) ==
  pc[p] \in Saving \cup {"in", "delete_lock", "delete_lock_2", "delete_info", "can_free",
                         "free"}

\* Who is attached is so to the segment of the prefix's key; who makes one is the
\* only one that may.
Shares ==
  \A p \in Processes :
    /\ Attached(p) => /\ keyvar[PrefixOf[p]] # 0 /\ addr[p] # 0
                      /\ segment[keyvar[PrefixOf[p]]] = addr[p]
    /\ pc[p] \in {"get", "make_key"} => keyvar[PrefixOf[p]] = 0
    /\ pc[p] = "make_key" => addr[p] # 0 /\ segment[RandomKey[p]] = addr[p]

\* Who uses the segment is known to, until its delete has taken that back.
Listed ==
  \A p \in Processes :
    /\ pc[p] \in {"unlock", "in", "delete_lock", "delete_lock_2", "delete_info"} =>
         p \in infos[PrefixOf[p]]
    /\ pc[p] = "free" => infos[PrefixOf[p]] = {}

\* Every key finds a segment of its own and belongs to one prefix, or to one process
\* that is about to write it down.
Keyed ==
  /\ \A k \in Keys : segment[k] <= made
  /\ \A k, l \in Keys : segment[k] = segment[l] /\ segment[k] # 0 => k = l
  /\ \A f \in Prefixes : keyvar[f] # 0 => segment[keyvar[f]] # 0
  /\ \A f, g \in Prefixes : keyvar[f] = keyvar[g] /\ keyvar[f] # 0 => f = g
  /\ \A p \in Processes : pc[p] = "make_key" =>
       /\ \A f \in Prefixes : keyvar[f] # RandomKey[p]
       /\ \A q \in Processes : pc[q] = "make_key" /\ RandomKey[q] = RandomKey[p] => q = p

\* A segment without a key is being made, or its maker died with the lock.
Orphan(k) ==
  \E p \in Processes :
    RandomKey[p] = k /\ newlock[PrefixOf[p]] = p /\ pc[p] \in {"make_key", "dead"}

Found == \A k \in Keys : segment[k] # 0 => Orphan(k) \/ \E f \in Prefixes : keyvar[f] = k

\* What is on disk for a prefix agrees, unless someone holds a lock.
Filed ==
  /\ \A f \in Prefixes :
       /\ infos[f] # {} => keyvar[f] # 0 /\ dir[f]
       /\ keyvar[f] # 0 /\ infos[f] = {} => newlock[f] # "free"
       /\ dir[f] /\ infos[f] = {} => newlock[f] # "free" \/ fromkeylock[f] # "free"
  /\ \A p \in Processes :
       /\ pc[p] = "save" => dir[PrefixOf[p]]
       /\ pc[p] = "delete_unlock" =>
            /\ keyvar[PrefixOf[p]] # 0 => infos[PrefixOf[p]] # {}
            /\ dir[PrefixOf[p]] => infos[PrefixOf[p]] # {}

Good == Shares /\ Listed /\ Keyed /\ Found /\ Filed
Inv == Types /\ (Fine => Locked /\ Good)

(***************************************************************************)
(* What a step of one process leaves alone.                                *)
(***************************************************************************)
Step(p) ==
  \/ Begin(p) \/ NewStep(p) \/ NewFails(p)
  \/ DeleteBegin(p) \/ DeleteStep(p) \/ DeleteFails(p) \/ Crash(p)

\* The steps that change only where a process is and the locks.
Passing(p) ==
  \/ Begin(p) \/ LockNew(p) \/ LockFromKey(p) \/ LockFails(p) \/ CheckAllocated(p)
  \/ CheckDir(p) \/ Return(p) \/ DeleteBegin(p) \/ DeleteLockNew(p)
  \/ DeleteLockFromKey(p)

\* The steps after which everything may still be fine.
Going(p) ==
  \/ Passing(p) \/ Make(p) \/ MakeKeyVariable(p) \/ NewFromKey(p) \/ MakeDir(p)
  \/ SaveProcInfo(p) \/ DeleteProcInfo(p) \/ CheckIfMemCanBeFreed(p) \/ Free(p)
  \/ DeleteReturn(p) \/ Crash(p)

\* Names of the files of a process, and the key it draws.
LEMMA Names ==
  /\ \A p \in Processes : PrefixOf[p] \in Prefixes /\ RandomKey[p] \in Keys
  /\ \A p \in Processes : RandomKey[p] # 0
BY SharedMemoryAssumption DEF Prefixes, Keys, SharedMemoryAssumption

\* The types of what a step of p sets.
LEMMA TypesStep ==
  ASSUME Types, NEW p \in Processes, Step(p)
  PROVE  Types'
<1>1. /\ PrefixOf[p] \in Prefixes /\ RandomKey[p] \in Keys
      /\ pc[p] \in PCs /\ rounds[p] \in Nat /\ addr[p] \in Nat
  BY Names DEF Types
<1>2. pc' \in [Processes -> PCs]
  BY <1>1 DEF Step, Begin, NewStep, LockNew, LockFromKey, CheckAllocated, Make,
     MakeKeyVariable, NewFromKey, CheckDir, MakeDir, MakeDirFails, SaveProcInfo, Return,
     DereferenceNull, NewFails, LockFails, CheckAllocatedFails, MakeFails,
     MakeKeyVariableFails, NewFromKeyTimesOut, NewFromKeyFails, SaveProcInfoFails,
     GiveUpSaving, DeleteBegin, DeleteFails, DeleteLockFails,
     CheckIfMemCanBeFreedFails, DeleteStep, DeleteLockNew,
     DeleteLockFromKey, DeleteProcInfo, CheckIfMemCanBeFreed, Free, DeleteReturn, Crash,
     TakeNew, TakeFromKey, Unlock, Only, Goto, Types, PCs
<1>3. rounds' \in [Processes -> Nat]
  <2>1. CASE Begin(p)
    BY <1>1, <2>1 DEF Begin, Types
  <2>2. CASE ~Begin(p)
    <3>1. rounds' = rounds
      BY <2>2 DEF Step, NewStep, LockNew, LockFromKey, CheckAllocated, Make,
         MakeKeyVariable, NewFromKey, CheckDir, MakeDir, MakeDirFails, SaveProcInfo, Return,
         DereferenceNull, NewFails, LockFails, CheckAllocatedFails, MakeFails,
         MakeKeyVariableFails, NewFromKeyTimesOut, NewFromKeyFails, SaveProcInfoFails,
         GiveUpSaving, DeleteBegin, DeleteFails, DeleteLockFails,
         CheckIfMemCanBeFreedFails, DeleteStep, DeleteLockNew, DeleteLockFromKey,
         DeleteProcInfo, CheckIfMemCanBeFreed, Free, DeleteReturn, Crash, TakeNew,
         TakeFromKey, Unlock, Only
    <3>. QED
      BY <3>1 DEF Types
  <2>. QED
    BY <2>1, <2>2
<1>4. /\ newlock' \in [Prefixes -> Processes \cup {"free"}]
      /\ fromkeylock' \in [Prefixes -> Processes \cup {"free"}]
  BY <1>1 DEF Step, Begin, NewStep, LockNew, LockFromKey, CheckAllocated, Make,
     MakeKeyVariable, NewFromKey, CheckDir, MakeDir, MakeDirFails, SaveProcInfo, Return,
     DereferenceNull, NewFails, LockFails, CheckAllocatedFails, MakeFails,
     MakeKeyVariableFails, NewFromKeyTimesOut, NewFromKeyFails, SaveProcInfoFails,
     GiveUpSaving, DeleteBegin, DeleteFails, DeleteLockFails,
     CheckIfMemCanBeFreedFails, DeleteStep, DeleteLockNew,
     DeleteLockFromKey, DeleteProcInfo, CheckIfMemCanBeFreed, Free, DeleteReturn, Crash,
     TakeNew, TakeFromKey, Unlock, Unlocked, Only, locks, Types
<1>5. /\ keyvar' \in [Prefixes -> Keys \cup {0}] /\ dir' \in [Prefixes -> BOOLEAN]
      /\ infos' \in [Prefixes -> SUBSET Processes]
  <2>1. CASE Free(p)
    BY <1>1, <2>1 DEF Free, Types
  <2>2. CASE \/ DeleteProcInfo(p) \/ CheckIfMemCanBeFreed(p) \/ SaveProcInfo(p)
             \/ SaveProcInfoFails(p)
    BY <1>1, <2>2 DEF DeleteProcInfo, CheckIfMemCanBeFreed, SaveProcInfo,
       SaveProcInfoFails, GiveUpSaving, Types
  <2>3. CASE /\ ~Free(p) /\ ~DeleteProcInfo(p) /\ ~CheckIfMemCanBeFreed(p)
             /\ ~SaveProcInfo(p) /\ ~SaveProcInfoFails(p)
    BY <1>1, <2>3 DEF Step, Begin, NewStep, LockNew, LockFromKey, CheckAllocated, Make,
       MakeKeyVariable, NewFromKey, CheckDir, MakeDir, MakeDirFails, Return,
       DereferenceNull, NewFails, LockFails, CheckAllocatedFails, MakeFails,
       MakeKeyVariableFails, NewFromKeyTimesOut, NewFromKeyFails, SaveProcInfoFails,
       GiveUpSaving, DeleteBegin, DeleteFails, DeleteLockFails,
       CheckIfMemCanBeFreedFails, DeleteStep, DeleteLockNew,
       DeleteLockFromKey, DeleteReturn, Crash, TakeNew, TakeFromKey, Unlock, Only, files,
       Types
  <2>. QED
    BY <2>1, <2>2, <2>3
<1>6. segment' \in [Keys -> Nat] /\ made' \in Nat
  <2>1. CASE Make(p)
    <3>1. \/ made' = made + 1 /\ segment' = [segment EXCEPT ![RandomKey[p]] = made + 1]
          \/ made' = made /\ segment' = segment
      BY <2>1 DEF Make
    <3>. QED
      BY <1>1, <3>1 DEF Types
  <2>4. CASE MakeFails(p)
    <3>1. /\ segment' = segment \/ segment' = [segment EXCEPT ![RandomKey[p]] = 0]
          /\ made' = made
      BY <2>4 DEF MakeFails
    <3>. QED
      BY <1>1, <3>1 DEF Types
  <2>2. CASE MakeKeyVariableFails(p) \/ MakeDirFails(p) \/ SaveProcInfoFails(p) \/ Free(p)
    BY <1>1, <2>2 DEF MakeKeyVariableFails, MakeDirFails, SaveProcInfoFails, GiveUpSaving,
       Free, Removed, Types
  <2>3. CASE /\ ~Make(p) /\ ~MakeFails(p) /\ ~MakeKeyVariableFails(p)
             /\ ~MakeDirFails(p) /\ ~SaveProcInfoFails(p) /\ ~Free(p)
    <3>1. segment' = segment /\ made' = made
      BY <2>3 DEF Begin, memory, Step, NewStep, LockNew, LockFromKey, CheckAllocated, Make,
         MakeKeyVariable, NewFromKey, CheckDir, MakeDir, MakeDirFails, SaveProcInfo, Return,
         DereferenceNull, NewFails, LockFails, CheckAllocatedFails, MakeFails,
         MakeKeyVariableFails, NewFromKeyTimesOut, NewFromKeyFails, SaveProcInfoFails,
         GiveUpSaving, DeleteBegin, DeleteFails, DeleteLockFails,
         CheckIfMemCanBeFreedFails, DeleteStep, DeleteLockNew, DeleteLockFromKey,
         DeleteProcInfo, CheckIfMemCanBeFreed, Free, DeleteReturn, Crash, TakeNew,
         TakeFromKey, Unlock, Only
    <3>. QED
      BY <3>1 DEF Types
  <2>. QED
    BY <2>1, <2>2, <2>3, <2>4
<1>7. addr' \in [Processes -> Nat]
  <2>1. CASE Make(p)
    BY <1>1, <1>6, <2>1 DEF Make, Types
  <2>2. CASE NewFromKey(p)
    <3>1. keyvar[PrefixOf[p]] \in Keys
      BY <1>1, <2>2 DEF NewFromKey, Types
    <3>. QED
      BY <2>2, <3>1 DEF NewFromKey, Types
  <2>3. CASE ~Make(p) /\ ~NewFromKey(p)
    BY <1>1, <2>3 DEF Step, Begin, NewStep, LockNew, LockFromKey, CheckAllocated,
       MakeKeyVariable, CheckDir, MakeDir, MakeDirFails, SaveProcInfo, Return,
       DereferenceNull, NewFails, LockFails, CheckAllocatedFails, MakeFails,
       MakeKeyVariableFails, NewFromKeyTimesOut, NewFromKeyFails, SaveProcInfoFails,
       GiveUpSaving, DeleteBegin, DeleteFails, DeleteLockFails,
       CheckIfMemCanBeFreedFails, DeleteStep, DeleteLockNew,
       DeleteLockFromKey, DeleteProcInfo, CheckIfMemCanBeFreed, Free, DeleteReturn, Crash,
       TakeNew, TakeFromKey, Unlock, Only, Types
  <2>. QED
    BY <2>1, <2>2, <2>3
<1>. QED
  BY <1>2, <1>3, <1>4, <1>5, <1>6, <1>7 DEF Types

\* Where the other processes are, and what they are attached to.
LEMMA Others ==
  ASSUME Types, NEW p \in Processes, Step(p), NEW q \in Processes, q # p
  PROVE  pc'[q] = pc[q] /\ addr'[q] = addr[q]
BY DEF Step, Begin, NewStep, LockNew, LockFromKey, CheckAllocated, Make,
   MakeKeyVariable, NewFromKey, CheckDir, MakeDir, MakeDirFails, SaveProcInfo, Return,
   DereferenceNull, NewFails, LockFails, CheckAllocatedFails, MakeFails,
   MakeKeyVariableFails, NewFromKeyTimesOut, NewFromKeyFails, SaveProcInfoFails,
   GiveUpSaving, DeleteBegin, DeleteFails, DeleteLockFails, CheckIfMemCanBeFreedFails,
   DeleteStep, DeleteLockNew, DeleteLockFromKey, DeleteProcInfo, CheckIfMemCanBeFreed,
   Free, DeleteReturn, Crash, TakeNew, TakeFromKey, Unlock, Only, Goto, Types

\* What went wrong stays so, and if all is still fine the step is one that may be.
LEMMA StillFine ==
  ASSUME Types, NEW p \in Processes, Step(p), Fine'
  PROVE  Fine /\ Going(p)
<1>1. pc'[p] \notin {"null", "segfault"} /\ wrong' = {}
  BY DEF Fine, Failed
<1>2. wrong \subseteq wrong'
  <2>1. CASE CheckIfMemCanBeFreed(p) \/ CheckAllocatedFails(p) \/ DeleteLockFails(p)
    BY <2>1 DEF CheckIfMemCanBeFreed, CheckAllocatedFails, DeleteLockFails
  <2>2. CASE /\ ~CheckIfMemCanBeFreed(p) /\ ~CheckAllocatedFails(p)
             /\ ~DeleteLockFails(p)
    BY <2>2 DEF Step, Begin, NewStep, LockNew, LockFromKey, CheckAllocated, Make,
       MakeKeyVariable, NewFromKey, CheckDir, MakeDir, MakeDirFails, SaveProcInfo, Return,
       DereferenceNull, NewFails, LockFails, MakeFails,
       MakeKeyVariableFails, NewFromKeyTimesOut, NewFromKeyFails, SaveProcInfoFails,
       GiveUpSaving, DeleteBegin, DeleteFails, CheckIfMemCanBeFreedFails, DeleteStep,
       DeleteLockNew, DeleteLockFromKey, DeleteProcInfo, Free, DeleteReturn, Crash,
       TakeNew, TakeFromKey, Unlock, Only, memory
  <2>. QED
    BY <2>1, <2>2
<1>3. pc[p] \notin {"null", "segfault"}
  BY <1>1 DEF Step, Begin, NewStep, LockNew, LockFromKey, CheckAllocated, Make,
     MakeKeyVariable, NewFromKey, CheckDir, MakeDir, MakeDirFails, SaveProcInfo, Return,
     DereferenceNull, NewFails, LockFails, CheckAllocatedFails, MakeFails,
     MakeKeyVariableFails, NewFromKeyTimesOut, NewFromKeyFails, SaveProcInfoFails,
     GiveUpSaving, DeleteBegin, DeleteFails, DeleteLockFails, CheckIfMemCanBeFreedFails,
     DeleteStep, DeleteLockNew, DeleteLockFromKey, DeleteProcInfo, CheckIfMemCanBeFreed,
     Free, DeleteReturn, Crash, TakeNew, TakeFromKey, Unlock, Only, Goto, Types, Alive
<1>4. Failed = {}
  BY <1>3, Others DEF Fine, Failed
<1>5. Going(p)
  <2>1. ~MakeDirFails(p) /\ ~MakeFails(p) /\ ~MakeKeyVariableFails(p) /\ ~DereferenceNull(p)
    BY <1>1 DEF MakeDirFails, MakeFails, MakeKeyVariableFails, DereferenceNull,
       GiveUpSaving, Goto, Types
  <2>2. ~NewFromKeyTimesOut(p) /\ ~NewFromKeyFails(p) /\ ~SaveProcInfoFails(p)
    BY <1>1 DEF NewFromKeyTimesOut, NewFromKeyFails, SaveProcInfoFails, GiveUpSaving, Only,
       Goto, Types
  <2>3. ~CheckAllocatedFails(p) /\ ~DeleteLockFails(p) /\ ~CheckIfMemCanBeFreedFails(p)
    BY <1>1 DEF CheckAllocatedFails, DeleteLockFails, CheckIfMemCanBeFreedFails
  <2>. QED
    BY <2>1, <2>2, <2>3 DEF Step, NewStep, NewFails, DeleteStep, DeleteFails, Going, Passing
<1>. QED
  BY <1>1, <1>2, <1>4, <1>5 DEF Fine

\* Such a step is a step.
LEMMA GoingSteps ==
  ASSUME NEW p \in Processes, Going(p)
  PROVE  Step(p)
BY DEF Going, Passing, Step, NewStep, NewFails, DeleteStep

(***************************************************************************)
(* The locks.                                                              *)
(***************************************************************************)
\* Nobody takes a lock that is held, or releases that of another.
LEMMA LockedStep ==
  ASSUME Types, Locked, NEW p \in Processes, Going(p), pc'[p] \notin {"null", "segfault"}
  PROVE  Locked'
<1>1. /\ PrefixOf[p] \in Prefixes /\ pc[p] \in PCs
      /\ \A q \in Processes : PrefixOf[q] \in Prefixes /\ q # "free"
  BY Names, SharedMemoryAssumption DEF Types, SharedMemoryAssumption
<1>2. \A q \in Processes \ {p} : (HoldsNew(q)' <=> HoldsNew(q))
                                 /\ (HoldsFromKey(q)' <=> HoldsFromKey(q))
  BY Others, GoingSteps DEF HoldsNew, HoldsFromKey
<1>0. \A q \in Processes :
        pc'[q] \in {"lock_new", "check_allocated", "get", "make_key"} => q \in Makers
  <2>1. \A q \in Processes \ {p} :
          pc'[q] \in {"lock_new", "check_allocated", "get", "make_key"} => q \in Makers
    BY Others, GoingSteps DEF Locked
  <2>2. ASSUME pc'[p] \in {"lock_new", "check_allocated", "get", "make_key"}
        PROVE  p \in Makers
    <3>1. CASE Begin(p)
      BY <1>1, <2>2, <3>1 DEF Begin, Goto, Types
    <3>2. CASE ~Begin(p)
      <4>1. pc[p] \in {"lock_new", "check_allocated", "get"}
        <5>1. CASE LockNew(p) \/ CheckAllocated(p)
          BY <5>1 DEF LockNew, CheckAllocated, TakeNew, Only, Goto
        <5>3. CASE Passing(p) /\ ~LockNew(p) /\ ~CheckAllocated(p)
          <6>1. pc'[p] \in {"from_key", "out", "null", "save", "make_dir", "in", "delete_lock",
                            "delete_lock_2", "delete_info"}
            BY <1>1, <3>2, <5>3 DEF Passing, LockFromKey, LockFails, CheckDir, Return,
               DeleteBegin, DeleteLockNew, DeleteLockFromKey, TakeNew, TakeFromKey, Unlock,
               Only, Goto, Types
          <6>. QED
            BY <2>2, <6>1
        <5>2. CASE ~Passing(p)
          <6>1. \/ pc[p] = "get"
                \/ pc'[p] \in {"check_dir", "null", "save", "unlock", "can_free", "free",
                               "delete_unlock", "out", "segfault", "dead"}
            BY <1>1, <5>2 DEF Going, Make, MakeKeyVariable, NewFromKey, MakeDir,
               SaveProcInfo, DeleteProcInfo, CheckIfMemCanBeFreed, Free, DeleteReturn,
               Crash, Goto, Types
          <6>. QED
            BY <2>2, <6>1
        <5>. QED
          BY <5>1, <5>2, <5>3
      <4>. QED
        BY <4>1 DEF Locked
    <3>. QED
      BY <3>1, <3>2
  <2>. QED
    BY <2>1, <2>2
<1>3. CASE Return(p) \/ DeleteReturn(p)
  <2>1. /\ pc'[p] \in {"in", "out"} /\ newlock' = Unlocked(newlock, p)
        /\ fromkeylock' = Unlocked(fromkeylock, p)
    BY <1>1, <1>3 DEF Return, DeleteReturn, Unlock, Goto, Types
  <2>2. ~HoldsNew(p)' /\ ~HoldsFromKey(p)'
    BY <2>1 DEF HoldsNew, HoldsFromKey, Deleting, Saving
  <2>. QED
    BY <1>0, <1>1, <1>2, <2>1, <2>2 DEF Locked, Unlocked, Types
<1>4. CASE LockNew(p) \/ DeleteLockNew(p)
  <2>1. /\ newlock[PrefixOf[p]] = "free" /\ fromkeylock' = fromkeylock
        /\ newlock' = [newlock EXCEPT ![PrefixOf[p]] = p]
        /\ pc'[p] \in {"check_allocated", "delete_lock_2"}
    BY <1>4 DEF LockNew, DeleteLockNew, TakeNew, Goto, Types
  <2>2. ~HoldsFromKey(p)'
    BY <2>1 DEF HoldsFromKey, Deleting, Saving
  <2>. QED
    BY <1>0, <1>1, <1>2, <2>1, <2>2 DEF Locked, Types
<1>5. CASE LockFromKey(p) \/ DeleteLockFromKey(p)
  <2>1. /\ fromkeylock[PrefixOf[p]] = "free" /\ newlock' = newlock
        /\ fromkeylock' = [fromkeylock EXCEPT ![PrefixOf[p]] = p]
        /\ \/ pc[p] = "lock_from_key" /\ pc'[p] = "from_key"
           \/ pc[p] = "delete_lock_2" /\ pc'[p] = "delete_info"
    BY <1>5 DEF LockFromKey, DeleteLockFromKey, TakeFromKey, Goto, Types
  <2>2. HoldsNew(p)' => HoldsNew(p)
    BY <2>1 DEF HoldsNew, Deleting, Saving
  <2>. QED
    BY <1>0, <1>1, <1>2, <2>1, <2>2 DEF Locked, Types
<1>6. CASE /\ ~Return(p) /\ ~DeleteReturn(p) /\ ~LockNew(p) /\ ~DeleteLockNew(p)
           /\ ~LockFromKey(p) /\ ~DeleteLockFromKey(p)
  <2>1. UNCHANGED <<newlock, fromkeylock>>
    BY <1>6 DEF Going, Passing, Begin, LockFails, CheckAllocated, Make, MakeKeyVariable,
       NewFromKey, CheckDir, MakeDir, SaveProcInfo, DeleteBegin, DeleteProcInfo,
       CheckIfMemCanBeFreed, Free, Crash, Only, locks
  <2>2. CASE Begin(p) \/ LockFails(p) \/ Crash(p) \/ DeleteBegin(p)
    <3>1. \/ pc'[p] \in {"lock_new", "dead", "delete_lock", "out"}
          \/ pc'[p] = "lock_from_key" /\ p \notin Makers
      BY <1>1, <2>2 DEF Begin, LockFails, Crash, DeleteBegin, Only, Goto, Types
    <3>. QED
      BY <1>0, <1>2, <2>1, <3>1 DEF Locked, HoldsNew, HoldsFromKey, Deleting, Saving
  <2>3. CASE \/ CheckAllocated(p) \/ Make(p) \/ MakeKeyVariable(p) \/ NewFromKey(p)
             \/ CheckDir(p) \/ MakeDir(p) \/ SaveProcInfo(p)
    <3>1. \/ pc[p] = "check_allocated" /\ pc'[p] = "get"
          \/ pc[p] = "check_allocated" /\ pc'[p] = "lock_from_key"
          \/ pc[p] = "get" /\ pc'[p] = "make_key"
          \/ pc[p] = "make_key" /\ pc'[p] = "check_dir" /\ p \in Makers
          \/ pc[p] = "from_key" /\ pc'[p] = "check_dir"
          \/ pc[p] \in Saving /\ pc'[p] \in Saving
      BY <1>1, <2>3 DEF CheckAllocated, Make, MakeKeyVariable, NewFromKey,
         CheckDir, MakeDir, SaveProcInfo, Only, Goto, Types, Locked, Saving
    <3>2. (HoldsNew(p)' => HoldsNew(p)) /\ (HoldsFromKey(p)' => HoldsFromKey(p))
      BY <3>1 DEF HoldsNew, HoldsFromKey, Deleting, Saving
    <3>. QED
      BY <1>0, <1>2, <2>1, <3>2 DEF Locked
  <2>4. CASE DeleteProcInfo(p) \/ CheckIfMemCanBeFreed(p) \/ Free(p)
    <3>1. pc[p] \in Deleting /\ pc'[p] \in Deleting
      BY <1>1, <2>4 DEF DeleteProcInfo, CheckIfMemCanBeFreed, Free, Goto, Types, Deleting
    <3>. QED
      BY <1>0, <1>2, <2>1, <3>1 DEF Locked, HoldsNew, HoldsFromKey, Saving
  <2>. QED
    BY <1>6, <2>2, <2>3, <2>4 DEF Going, Passing
<1>. QED
  BY <1>3, <1>4, <1>5, <1>6

(***************************************************************************)
(* Who can be where at the same time.                                      *)
(***************************************************************************)
\* Who holds the lock of "new" is the only one, and who deletes holds both.
LEMMA Alone ==
  ASSUME Locked, NEW p \in Processes, NEW q \in Processes, q # p,
         PrefixOf[q] = PrefixOf[p]
  PROVE  /\ HoldsNew(p) => ~HoldsNew(q)
         /\ pc[p] \in Deleting =>
              /\ pc[q] \notin Saving \cup Deleting \cup {"delete_lock_2", "get", "make_key"}
BY DEF Locked, HoldsNew, HoldsFromKey, Deleting

\* What depends on where a process is stays so while only others move and what it
\* looks at stays.
LEMMA SteadyShares ==
  ASSUME Types, Shares, Listed, NEW p \in Processes, Step(p),
         UNCHANGED <<keyvar, infos, segment>>
  PROVE  \A q \in Processes \ {p} :
           /\ Attached(q)' => /\ keyvar'[PrefixOf[q]] # 0 /\ addr'[q] # 0
                              /\ segment'[keyvar'[PrefixOf[q]]] = addr'[q]
           /\ pc'[q] \in {"get", "make_key"} => keyvar'[PrefixOf[q]] = 0
           /\ pc'[q] = "make_key" => addr'[q] # 0 /\ segment'[RandomKey[q]] = addr'[q]
           /\ pc'[q] \in {"unlock", "in", "delete_lock", "delete_lock_2", "delete_info"} =>
                q \in infos'[PrefixOf[q]]
           /\ pc'[q] = "free" => infos'[PrefixOf[q]] = {}
BY Others DEF Shares, Listed, Attached

\* Passing by changes nothing that must fit together.
LEMMA PassingGood ==
  ASSUME Types, Locked, Good, NEW p \in Processes, Step(p), Passing(p),
         pc'[p] \notin {"null", "segfault"}
  PROVE  Good'
<1>1. /\ PrefixOf[p] \in Prefixes /\ pc[p] \in PCs
      /\ \A q \in Processes : PrefixOf[q] \in Prefixes /\ q # "free"
  BY Names, SharedMemoryAssumption DEF Types, SharedMemoryAssumption
<1>2. /\ UNCHANGED <<addr, keyvar, dir, infos, segment, made>>
      /\ \/ /\ pc[p] = "out" /\ pc'[p] \in {"lock_new", "lock_from_key"}
         \/ /\ pc[p] = "lock_new" /\ pc'[p] \in {"check_allocated", "out"}
         \/ /\ pc[p] = "lock_from_key" /\ pc'[p] \in {"from_key", "out"}
         \/ /\ pc[p] = "check_allocated" /\ pc'[p] = "lock_from_key"
         \/ /\ pc[p] = "check_allocated" /\ pc'[p] = "get" /\ keyvar[PrefixOf[p]] = 0
         \/ /\ pc[p] = "check_dir" /\ pc'[p] = "make_dir"
         \/ /\ pc[p] = "check_dir" /\ pc'[p] = "save" /\ dir[PrefixOf[p]]
         \/ /\ pc[p] = "unlock" /\ pc'[p] = "in"
         \/ /\ pc[p] = "in" /\ pc'[p] = "delete_lock"
         \/ /\ pc[p] = "delete_lock" /\ pc'[p] = "delete_lock_2"
         \/ /\ pc[p] = "delete_lock_2" /\ pc'[p] = "delete_info"
  BY <1>1 DEF Passing, Begin, LockNew, LockFromKey, LockFails, CheckAllocated, CheckDir, Return,
     DeleteBegin, DeleteLockNew, DeleteLockFromKey, TakeNew, TakeFromKey, Unlock, Only,
     Goto, Types, files, memory
<1>3. Shares' /\ Listed'
  <2>1. /\ Attached(p)' => Attached(p)
        /\ pc'[p] \in {"get", "make_key"} => keyvar'[PrefixOf[p]] = 0 /\ pc'[p] # "make_key"
        /\ pc'[p] \in {"unlock", "in", "delete_lock", "delete_lock_2", "delete_info"} =>
             p \in infos[PrefixOf[p]]
        /\ pc'[p] # "free"
    BY <1>2 DEF Good, Listed, Attached, Saving
  <2>. QED
    BY <1>2, <2>1, SteadyShares DEF Good, Shares, Listed
<1>4. Keyed'
  <2>1. \A q \in Processes : pc'[q] = "make_key" => pc[q] = "make_key"
    BY <1>2, Others
  <2>. QED
    BY <1>2, <2>1 DEF Good, Keyed
<1>5. \/ /\ UNCHANGED <<newlock, fromkeylock>>
      \/ /\ newlock[PrefixOf[p]] = "free" /\ fromkeylock' = fromkeylock
         /\ newlock' = [newlock EXCEPT ![PrefixOf[p]] = p]
      \/ /\ fromkeylock[PrefixOf[p]] = "free" /\ newlock' = newlock
         /\ fromkeylock' = [fromkeylock EXCEPT ![PrefixOf[p]] = p]
      \/ /\ newlock' = Unlocked(newlock, p) /\ fromkeylock' = Unlocked(fromkeylock, p)
         /\ pc[p] = "unlock"
  BY DEF Passing, Begin, LockNew, LockFromKey, LockFails, CheckAllocated, CheckDir, Return,
     DeleteBegin, DeleteLockNew, DeleteLockFromKey, TakeNew, TakeFromKey, Unlock, Only,
     Goto, locks
<1>6. Found'
  <2>1. ASSUME NEW k \in Keys, Orphan(k) PROVE Orphan(k)'
    <3>1. PICK q \in Processes : /\ RandomKey[q] = k /\ newlock[PrefixOf[q]] = q
                                 /\ pc[q] \in {"make_key", "dead"}
      BY <2>1 DEF Orphan
    <3>2. q # p /\ q # "free" /\ pc'[q] = pc[q]
      BY <1>1, <1>2, <3>1, Others
    <3>3. newlock'[PrefixOf[q]] = q
      BY <1>1, <1>5, <3>1, <3>2 DEF Types, Unlocked
    <3>. QED
      BY <3>1, <3>2, <3>3 DEF Orphan
  <2>. QED
    BY <1>2, <2>1 DEF Good, Found
<1>7. Filed'
  <2>1. ASSUME NEW f \in Prefixes, infos[f] = {}
        PROVE  /\ newlock[f] # "free" => newlock'[f] # "free"
               /\ fromkeylock[f] # "free" => fromkeylock'[f] # "free"
    <3>1. CASE pc[p] # "unlock"
      BY <1>1, <1>5, <3>1 DEF Types
    <3>2. CASE pc[p] = "unlock"
      <4>1. PrefixOf[p] # f
        BY <2>1, <3>2 DEF Good, Listed
      <4>2. newlock[f] # p /\ fromkeylock[f] # p
        BY <1>1, <4>1 DEF Locked
      <4>. QED
        BY <1>1, <1>5, <3>2, <4>1, <4>2 DEF Types, Unlocked
    <3>. QED
      BY <3>1, <3>2
  <2>2. ASSUME NEW q \in Processes
        PROVE  /\ pc'[q] = "save" => dir'[PrefixOf[q]]
               /\ pc'[q] = "delete_unlock" =>
                    /\ keyvar'[PrefixOf[q]] # 0 => infos'[PrefixOf[q]] # {}
                    /\ dir'[PrefixOf[q]] => infos'[PrefixOf[q]] # {}
    <3>1. CASE q # p
      BY <1>2, <3>1, Others DEF Good, Filed
    <3>2. CASE q = p
      BY <1>2, <3>2
    <3>. QED
      BY <3>1, <3>2
  <2>. QED
    BY <1>2, <2>1, <2>2 DEF Good, Filed
<1>. QED
  BY <1>3, <1>4, <1>6, <1>7 DEF Good

(***************************************************************************)
(* The steps of aipc_sharedmem_new that change something.                  *)
(***************************************************************************)
\* aipc_sharedmem_new_make: a segment that nobody else is attached to, or one that
\* the key finds.
LEMMA MakeGood ==
  ASSUME Types, Locked, Good, NEW p \in Processes, Step(p), Make(p), wrong' = {}
  PROVE  Good'
<1>1. /\ PrefixOf[p] \in Prefixes /\ RandomKey[p] \in Keys
      /\ \A q \in Processes : PrefixOf[q] \in Prefixes /\ RandomKey[q] \in Keys
  BY Names
<1>2. /\ pc[p] = "get" /\ pc'[p] = "make_key"
      /\ UNCHANGED <<newlock, fromkeylock, keyvar, dir, infos>>
      /\ addr'[p] = segment'[RandomKey[p]]
  BY DEF Make, Goto, locks, files, Types
<1>3. /\ \A k \in Keys \ {RandomKey[p]} : segment'[k] = segment[k]
      /\ segment[RandomKey[p]] = 0
      /\ segment'[RandomKey[p]] = made + 1 /\ made' = made + 1
  BY <1>1 DEF Make, Types
<1>4. newlock[PrefixOf[p]] = p /\ keyvar[PrefixOf[p]] = 0
  BY <1>2 DEF Locked, HoldsNew, Good, Shares
<1>5. \A k \in Keys : segment[k] # 0 => segment'[k] = segment[k]
  BY <1>3
<1>6. Shares' /\ Listed'
  <2>1. \A q \in Processes : keyvar[PrefixOf[q]] \in Keys \cup {0}
    BY <1>1 DEF Types
  <2>2. \A q \in Processes \ {p} :
           /\ Attached(q)' => /\ keyvar'[PrefixOf[q]] # 0 /\ addr'[q] # 0
                              /\ segment'[keyvar'[PrefixOf[q]]] = addr'[q]
           /\ pc'[q] \in {"get", "make_key"} => keyvar'[PrefixOf[q]] = 0
           /\ pc'[q] = "make_key" => addr'[q] # 0 /\ segment'[RandomKey[q]] = addr'[q]
    BY <1>1, <1>2, <1>5, <2>1, Others DEF Good, Shares, Attached
  <2>3. ~Attached(p)' /\ keyvar'[PrefixOf[p]] = 0 /\ addr'[p] # 0
    BY <1>2, <1>3, <1>4 DEF Attached, Saving, Types
  <2>4. Shares'
    BY <1>2, <2>2, <2>3 DEF Shares
  <2>5. Listed'
    BY <1>2, Others DEF Good, Listed
  <2>. QED
    BY <2>4, <2>5
<1>7. Keyed'
  <2>1. \A k \in Keys : segment'[k] <= made'
    BY <1>1, <1>3 DEF Good, Keyed, Types
  <2>2. \A k, l \in Keys : segment'[k] = segment'[l] /\ segment'[k] # 0 => k = l
    BY <1>1, <1>3 DEF Good, Keyed, Types
  <2>3. \A f \in Prefixes : keyvar'[f] # 0 => segment'[keyvar'[f]] # 0
    BY <1>2, <1>5 DEF Good, Keyed, Types
  <2>4. \A f \in Prefixes : keyvar[f] # RandomKey[p]
    BY <1>1, <1>3, SharedMemoryAssumption DEF Good, Keyed, SharedMemoryAssumption
  <2>5. \A q \in Processes \ {p} : pc[q] = "make_key" => RandomKey[q] # RandomKey[p]
    BY <1>3 DEF Good, Shares
  <2>6. \A q \in Processes \ {p} : pc'[q] = pc[q]
    BY Others
  <2>. QED
    BY <1>2, <2>1, <2>2, <2>3, <2>4, <2>5, <2>6 DEF Good, Keyed
<1>8. Found'
  <2>1. Orphan(RandomKey[p])'
    BY <1>2, <1>4 DEF Orphan
  <2>2. \A k \in Keys : Orphan(k) => Orphan(k)'
    BY <1>2, Others DEF Orphan
  <2>. QED
    BY <1>2, <1>3, <2>1, <2>2 DEF Good, Found
<1>9. Filed'
  BY <1>2, Others DEF Good, Filed
<1>. QED
  BY <1>6, <1>7, <1>8, <1>9 DEF Good

\* The key becomes known, while nobody else of the prefix is attached.
LEMMA MakeKeyVariableGood ==
  ASSUME Types, Locked, Good, NEW p \in Processes, Step(p), MakeKeyVariable(p)
  PROVE  Good'
<1>1. /\ PrefixOf[p] \in Prefixes /\ RandomKey[p] \in Keys /\ RandomKey[p] # 0
      /\ p # "free"
      /\ \A q \in Processes : PrefixOf[q] \in Prefixes /\ RandomKey[q] \in Keys
  BY Names, SharedMemoryAssumption DEF SharedMemoryAssumption
<1>2. /\ pc[p] = "make_key" /\ pc'[p] = "check_dir"
      /\ UNCHANGED <<newlock, fromkeylock, dir, infos, segment, made, addr>>
      /\ keyvar' = [keyvar EXCEPT ![PrefixOf[p]] = RandomKey[p]]
  BY DEF MakeKeyVariable, Goto, locks, memory, Types
<1>3. /\ newlock[PrefixOf[p]] = p /\ keyvar[PrefixOf[p]] = 0
      /\ addr[p] # 0 /\ segment[RandomKey[p]] = addr[p]
  BY <1>2 DEF Locked, HoldsNew, Good, Shares
<1>4. /\ keyvar'[PrefixOf[p]] = RandomKey[p]
      /\ \A f \in Prefixes \ {PrefixOf[p]} : keyvar'[f] = keyvar[f]
  BY <1>1, <1>2 DEF Types
<1>5. \A q \in Processes \ {p} : PrefixOf[q] = PrefixOf[p] =>
        ~Attached(q) /\ pc[q] \notin {"get", "make_key", "delete_unlock"}
  <2>. SUFFICES ASSUME NEW q \in Processes, q # p, PrefixOf[q] = PrefixOf[p]
                PROVE  ~Attached(q) /\ pc[q] \notin {"get", "make_key", "delete_unlock"}
    OBVIOUS
  <2>1. HoldsNew(p)
    BY <1>2 DEF HoldsNew
  <2>2. ~HoldsNew(q)
    BY <2>1, Alone
  <2>3. ~Attached(q)
    BY <1>3 DEF Good, Shares
  <2>. QED
    BY <2>2, <2>3 DEF HoldsNew, Deleting
<1>6. Shares'
  <2>1. ASSUME NEW q \in Processes, q # p
        PROVE  /\ Attached(q)' => /\ keyvar'[PrefixOf[q]] # 0 /\ addr'[q] # 0
                                  /\ segment'[keyvar'[PrefixOf[q]]] = addr'[q]
               /\ pc'[q] \in {"get", "make_key"} => keyvar'[PrefixOf[q]] = 0
               /\ pc'[q] = "make_key" => addr'[q] # 0 /\ segment'[RandomKey[q]] = addr'[q]
    <3>1. pc'[q] = pc[q] /\ addr'[q] = addr[q] /\ (Attached(q)' <=> Attached(q))
      BY <2>1, Others DEF Attached
    <3>2. CASE PrefixOf[q] = PrefixOf[p]
      BY <1>5, <2>1, <3>1, <3>2
    <3>3. CASE PrefixOf[q] # PrefixOf[p]
      <4>1. keyvar'[PrefixOf[q]] = keyvar[PrefixOf[q]]
        BY <1>1, <1>4, <3>3
      <4>. QED
        BY <1>2, <3>1, <4>1 DEF Good, Shares
    <3>. QED
      BY <3>2, <3>3
  <2>2. /\ keyvar'[PrefixOf[p]] # 0 /\ addr'[p] # 0 /\ segment'[keyvar'[PrefixOf[p]]] = addr'[p]
        /\ pc'[p] \notin {"get", "make_key"}
    BY <1>1, <1>2, <1>3, <1>4
  <2>. QED
    BY <2>1, <2>2 DEF Shares
<1>7. Listed'
  BY <1>2, Others DEF Good, Listed
<1>8. Keyed'
  <2>1. \A f \in Prefixes : keyvar'[f] # 0 => segment'[keyvar'[f]] # 0
    BY <1>2, <1>3, <1>4 DEF Good, Keyed
  <2>2. \A f, g \in Prefixes : keyvar'[f] = keyvar'[g] /\ keyvar'[f] # 0 => f = g
    BY <1>2, <1>4 DEF Good, Keyed
  <2>3. \A q \in Processes : pc'[q] = "make_key" => q # p /\ pc[q] = "make_key"
    BY <1>2, Others
  <2>4. \A q \in Processes : pc'[q] = "make_key" =>
          /\ \A f \in Prefixes : keyvar'[f] # RandomKey[q]
          /\ \A o \in Processes : pc'[o] = "make_key" /\ RandomKey[o] = RandomKey[q] => o = q
    BY <1>2, <1>4, <2>3 DEF Good, Keyed
  <2>. QED
    BY <1>2, <2>1, <2>2, <2>4 DEF Good, Keyed
<1>9. Found'
  <2>1. ASSUME NEW k \in Keys, k # RandomKey[p], Orphan(k) PROVE Orphan(k)'
    BY <1>2, <2>1, Others DEF Orphan
  <2>2. \A k \in Keys : (\E f \in Prefixes : keyvar[f] = k) =>
                           \E f \in Prefixes : keyvar'[f] = k
    BY <1>3, <1>4, SharedMemoryAssumption DEF SharedMemoryAssumption
  <2>. QED
    BY <1>1, <1>2, <1>4, <2>1, <2>2 DEF Good, Found
<1>10. Filed'
  <2>1. ASSUME NEW f \in Prefixes
        PROVE  /\ infos'[f] # {} => keyvar'[f] # 0 /\ dir'[f]
               /\ keyvar'[f] # 0 /\ infos'[f] = {} => newlock'[f] # "free"
               /\ dir'[f] /\ infos'[f] = {} => newlock'[f] # "free" \/ fromkeylock'[f] # "free"
    BY <1>1, <1>2, <1>3, <1>4 DEF Good, Filed
  <2>2. ASSUME NEW q \in Processes
        PROVE  /\ pc'[q] = "save" => dir'[PrefixOf[q]]
               /\ pc'[q] = "delete_unlock" =>
                    /\ keyvar'[PrefixOf[q]] # 0 => infos'[PrefixOf[q]] # {}
                    /\ dir'[PrefixOf[q]] => infos'[PrefixOf[q]] # {}
    <3>1. CASE q # p
      BY <1>1, <1>2, <1>4, <1>5, <3>1, Others DEF Good, Filed
    <3>2. CASE q = p
      BY <1>2, <3>2
    <3>. QED
      BY <3>1, <3>2
  <2>. QED
    BY <2>1, <2>2 DEF Filed
<1>. QED
  BY <1>6, <1>7, <1>8, <1>9, <1>10 DEF Good

\* A process that looks the segment up finds it.
LEMMA NewFromKeyGood ==
  ASSUME Types, Locked, Good, NEW p \in Processes, Step(p), NewFromKey(p)
  PROVE  Good'
<1>1. PrefixOf[p] \in Prefixes
  BY Names
<1>2. /\ keyvar[PrefixOf[p]] # 0 /\ pc[p] = "from_key"
      /\ UNCHANGED <<newlock, fromkeylock, keyvar, dir, infos, segment, made>>
      /\ addr'[p] = segment[keyvar[PrefixOf[p]]]
      /\ pc'[p] = IF segment[keyvar[PrefixOf[p]]] = 0 THEN "null" ELSE "check_dir"
  BY DEF NewFromKey, Goto, locks, files, memory, Types
<1>3. segment[keyvar[PrefixOf[p]]] # 0
  BY <1>1, <1>2 DEF Good, Keyed
<1>4. pc'[p] = "check_dir"
  BY <1>2, <1>3
<1>5. Shares' /\ Listed'
  <2>1. /\ keyvar'[PrefixOf[p]] # 0 /\ addr'[p] # 0
        /\ segment'[keyvar'[PrefixOf[p]]] = addr'[p]
        /\ pc'[p] = "check_dir"
    BY <1>2, <1>3, <1>4
  <2>. QED
    BY <1>2, <2>1, SteadyShares DEF Good, Shares, Listed
<1>6. Keyed'
  <2>1. \A q \in Processes : pc'[q] = "make_key" => pc[q] = "make_key"
    BY <1>2, Others
  <2>. QED
    BY <1>2, <2>1 DEF Good, Keyed
<1>7. Found'
  <2>1. \A k \in Keys : Orphan(k) => Orphan(k)'
    BY <1>2, Others DEF Orphan
  <2>. QED
    BY <1>2, <2>1 DEF Good, Found
<1>8. Filed'
  <2>1. \A q \in Processes : pc'[q] \in {"save", "delete_unlock"} => pc'[q] = pc[q]
    BY <1>4, Others
  <2>. QED
    BY <1>2, <2>1 DEF Good, Filed
<1>. QED
  BY <1>5, <1>6, <1>7, <1>8 DEF Good

\* SHM_saveProcInfo makes the directory, with one of the locks in its hand.
LEMMA DirGood ==
  ASSUME Types, Locked, Good, NEW p \in Processes, Step(p), MakeDir(p)
  PROVE  Good'
<1>1. PrefixOf[p] \in Prefixes /\ p # "free" /\ \A q \in Processes : PrefixOf[q] \in Prefixes
  BY Names, SharedMemoryAssumption DEF SharedMemoryAssumption
<1>2. /\ pc[p] = "make_dir" /\ pc'[p] = "save"
      /\ UNCHANGED <<newlock, fromkeylock, keyvar, infos, segment, made, addr>>
      /\ dir' = [dir EXCEPT ![PrefixOf[p]] = TRUE]
  BY DEF MakeDir, Goto, locks, memory, Types
<1>3. newlock[PrefixOf[p]] = p \/ fromkeylock[PrefixOf[p]] = p
  BY <1>2 DEF Locked, HoldsNew, HoldsFromKey, Saving
<1>4. /\ dir'[PrefixOf[p]]
      /\ \A f \in Prefixes \ {PrefixOf[p]} : dir'[f] = dir[f]
  BY <1>1, <1>2 DEF Types
<1>5. Shares' /\ Listed'
  <2>1. Attached(p)
    BY <1>2 DEF Attached, Saving
  <2>. QED
    BY <1>2, <2>1, SteadyShares DEF Good, Shares, Listed
<1>6. Keyed'
  <2>1. \A q \in Processes : pc'[q] = "make_key" => pc[q] = "make_key"
    BY <1>2, Others
  <2>. QED
    BY <1>2, <2>1 DEF Good, Keyed
<1>7. Found'
  <2>1. \A k \in Keys : Orphan(k) => Orphan(k)'
    BY <1>2, Others DEF Orphan
  <2>. QED
    BY <1>2, <2>1 DEF Good, Found
<1>8. Filed'
  <2>1. ASSUME NEW f \in Prefixes
        PROVE  /\ infos'[f] # {} => keyvar'[f] # 0 /\ dir'[f]
               /\ keyvar'[f] # 0 /\ infos'[f] = {} => newlock'[f] # "free"
               /\ dir'[f] /\ infos'[f] = {} => newlock'[f] # "free" \/ fromkeylock'[f] # "free"
    BY <1>1, <1>2, <1>3, <1>4 DEF Good, Filed
  <2>2. ASSUME NEW q \in Processes
        PROVE  /\ pc'[q] = "save" => dir'[PrefixOf[q]]
               /\ pc'[q] = "delete_unlock" =>
                    /\ keyvar'[PrefixOf[q]] # 0 => infos'[PrefixOf[q]] # {}
                    /\ dir'[PrefixOf[q]] => infos'[PrefixOf[q]] # {}
    <3>1. CASE q # p
      <4>1. pc'[q] = pc[q]
        BY <3>1, Others
      <4>2. CASE PrefixOf[q] = PrefixOf[p]
        <5>1. pc[q] # "delete_unlock"
          BY <1>2, <3>1, <4>2, Alone DEF Deleting, Saving
        <5>. QED
          BY <1>4, <4>1, <4>2, <5>1
      <4>3. CASE PrefixOf[q] # PrefixOf[p]
        BY <1>1, <1>2, <1>4, <4>1, <4>3 DEF Good, Filed
      <4>. QED
        BY <4>2, <4>3
    <3>2. CASE q = p
      BY <1>2, <1>4, <3>2
    <3>. QED
      BY <3>1, <3>2
  <2>. QED
    BY <2>1, <2>2 DEF Filed
<1>. QED
  BY <1>5, <1>6, <1>7, <1>8 DEF Good

(***************************************************************************)
(* The steps that change who is known to use a segment.                    *)
(***************************************************************************)
\* What the informations of a prefix do not touch.
LEMMA InfosLeave ==
  ASSUME Types, Locked, Good, NEW p \in Processes, Step(p), pc'[p] # "dead",
         pc[p] \notin {"make_key", "dead"}, UNCHANGED <<newlock, keyvar, segment, made, addr>>,
         pc[p] \in {"save", "delete_info", "can_free"},
         pc'[p] \in {"unlock", "can_free", "free", "delete_unlock"}
  PROVE  Shares' /\ Keyed' /\ Found'
<1>1. Shares'
  <2>1. Attached(p) /\ pc'[p] \notin {"get", "make_key"}
    BY DEF Attached, Saving
  <2>2. \A q \in Processes \ {p} : pc'[q] = pc[q] /\ (Attached(q)' <=> Attached(q))
    BY Others DEF Attached
  <2>. QED
    BY <2>1, <2>2 DEF Good, Shares
<1>2. Keyed'
  <2>1. \A q \in Processes : pc'[q] = "make_key" => pc[q] = "make_key"
    BY Others
  <2>. QED
    BY <2>1 DEF Good, Keyed
<1>3. Found'
  <2>1. \A k \in Keys : Orphan(k) => Orphan(k)'
    BY Others DEF Orphan
  <2>. QED
    BY <2>1 DEF Good, Found
<1>. QED
  BY <1>1, <1>2, <1>3

\* SHM_saveProcInfo leaves the file in a directory that is there.
LEMMA SaveProcInfoGood ==
  ASSUME Types, Locked, Good, NEW p \in Processes, Step(p), SaveProcInfo(p)
  PROVE  Good'
<1>1. PrefixOf[p] \in Prefixes /\ p # "free" /\ \A q \in Processes : PrefixOf[q] \in Prefixes
  BY Names, SharedMemoryAssumption DEF SharedMemoryAssumption
<1>2. /\ pc[p] = "save" /\ pc'[p] = "unlock"
      /\ UNCHANGED <<newlock, fromkeylock, keyvar, dir, segment, made, addr>>
      /\ infos' = [infos EXCEPT ![PrefixOf[p]] = @ \cup {p}]
  BY DEF SaveProcInfo, Goto, locks, memory, Types
<1>3. /\ infos'[PrefixOf[p]] = infos[PrefixOf[p]] \cup {p}
      /\ \A f \in Prefixes \ {PrefixOf[p]} : infos'[f] = infos[f]
  BY <1>1, <1>2 DEF Types
<1>4. keyvar[PrefixOf[p]] # 0 /\ dir[PrefixOf[p]]
  BY <1>2 DEF Good, Shares, Filed, Attached, Saving
<1>5. Shares' /\ Keyed' /\ Found'
  BY <1>2, InfosLeave
<1>6. \A q \in Processes \ {p} :
        pc'[q] = pc[q] /\ (PrefixOf[q] = PrefixOf[p] => pc[q] # "free")
  <2>1. \A q \in Processes \ {p} : PrefixOf[q] = PrefixOf[p] => pc[q] # "free"
    BY <1>2, Alone DEF Deleting, Saving
  <2>. QED
    BY <2>1, Others
<1>7. Listed'
  <2>1. ASSUME NEW q \in Processes
        PROVE  /\ pc'[q] \in {"unlock", "in", "delete_lock", "delete_lock_2", "delete_info"} =>
                    q \in infos'[PrefixOf[q]]
               /\ pc'[q] = "free" => infos'[PrefixOf[q]] = {}
    <3>1. CASE q # p
      BY <1>1, <1>3, <1>6, <3>1 DEF Good, Listed
    <3>2. CASE q = p
      BY <1>2, <1>3, <3>2
    <3>. QED
      BY <3>1, <3>2
  <2>. QED
    BY <2>1 DEF Listed
<1>8. Filed'
  <2>1. ASSUME NEW f \in Prefixes
        PROVE  /\ infos'[f] # {} => keyvar'[f] # 0 /\ dir'[f]
               /\ keyvar'[f] # 0 /\ infos'[f] = {} => newlock'[f] # "free"
               /\ dir'[f] /\ infos'[f] = {} => newlock'[f] # "free" \/ fromkeylock'[f] # "free"
    BY <1>1, <1>2, <1>3, <1>4 DEF Good, Filed
  <2>2. ASSUME NEW q \in Processes
        PROVE  /\ pc'[q] = "save" => dir'[PrefixOf[q]]
               /\ pc'[q] = "delete_unlock" =>
                    /\ keyvar'[PrefixOf[q]] # 0 => infos'[PrefixOf[q]] # {}
                    /\ dir'[PrefixOf[q]] => infos'[PrefixOf[q]] # {}
    <3>1. infos[PrefixOf[q]] # {} => infos'[PrefixOf[q]] # {}
      BY <1>1, <1>3
    <3>. QED
      BY <1>2, <1>6, <3>1 DEF Good, Filed
  <2>. QED
    BY <2>1, <2>2 DEF Filed
<1>. QED
  BY <1>5, <1>7, <1>8 DEF Good

\* A delete takes its own file back, with both locks in its hand.
LEMMA DeleteProcInfoGood ==
  ASSUME Types, Locked, Good, NEW p \in Processes, Step(p), DeleteProcInfo(p)
  PROVE  Good'
<1>1. PrefixOf[p] \in Prefixes /\ p # "free" /\ \A q \in Processes : PrefixOf[q] \in Prefixes
  BY Names, SharedMemoryAssumption DEF SharedMemoryAssumption
<1>2. /\ pc[p] = "delete_info" /\ pc'[p] = "can_free"
      /\ UNCHANGED <<newlock, fromkeylock, keyvar, dir, segment, made, addr>>
      /\ infos' = [infos EXCEPT ![PrefixOf[p]] = @ \ {p}]
  BY DEF DeleteProcInfo, Goto, locks, memory, Types
<1>3. /\ infos'[PrefixOf[p]] = infos[PrefixOf[p]] \ {p}
      /\ \A f \in Prefixes \ {PrefixOf[p]} : infos'[f] = infos[f]
  BY <1>1, <1>2 DEF Types
<1>4. newlock[PrefixOf[p]] = p
  BY <1>2 DEF Locked, HoldsNew, Deleting
<1>5. Shares' /\ Keyed' /\ Found'
  BY <1>2, InfosLeave
<1>6. \A q \in Processes \ {p} :
        pc'[q] = pc[q] /\ (PrefixOf[q] = PrefixOf[p] => pc[q] \notin {"free", "delete_unlock"})
  <2>1. \A q \in Processes \ {p} :
          PrefixOf[q] = PrefixOf[p] => pc[q] \notin {"free", "delete_unlock"}
    BY <1>2, Alone DEF Deleting, Saving
  <2>. QED
    BY <2>1, Others
<1>7. Listed'
  <2>1. ASSUME NEW q \in Processes
        PROVE  /\ pc'[q] \in {"unlock", "in", "delete_lock", "delete_lock_2", "delete_info"} =>
                    q \in infos'[PrefixOf[q]]
               /\ pc'[q] = "free" => infos'[PrefixOf[q]] = {}
    <3>1. CASE q # p
      BY <1>1, <1>3, <1>6, <3>1 DEF Good, Listed
    <3>2. CASE q = p
      BY <1>2, <3>2
    <3>. QED
      BY <3>1, <3>2
  <2>. QED
    BY <2>1 DEF Listed
<1>8. Filed'
  <2>1. ASSUME NEW f \in Prefixes
        PROVE  /\ infos'[f] # {} => keyvar'[f] # 0 /\ dir'[f]
               /\ keyvar'[f] # 0 /\ infos'[f] = {} => newlock'[f] # "free"
               /\ dir'[f] /\ infos'[f] = {} => newlock'[f] # "free" \/ fromkeylock'[f] # "free"
    BY <1>1, <1>2, <1>3, <1>4 DEF Good, Filed
  <2>2. ASSUME NEW q \in Processes
        PROVE  /\ pc'[q] = "save" => dir'[PrefixOf[q]]
               /\ pc'[q] = "delete_unlock" =>
                    /\ keyvar'[PrefixOf[q]] # 0 => infos'[PrefixOf[q]] # {}
                    /\ dir'[PrefixOf[q]] => infos'[PrefixOf[q]] # {}
    BY <1>1, <1>2, <1>3, <1>6 DEF Good, Filed
  <2>. QED
    BY <2>1, <2>2 DEF Filed
<1>. QED
  BY <1>5, <1>7, <1>8 DEF Good

\* Who looks for other users frees only when there is none that lives.
LEMMA CheckIfMemCanBeFreedGood ==
  ASSUME Types, Locked, Good, NEW p \in Processes, Step(p), CheckIfMemCanBeFreed(p),
         wrong' = {}
  PROVE  Good'
<1>1. PrefixOf[p] \in Prefixes /\ p # "free" /\ \A q \in Processes : PrefixOf[q] \in Prefixes
  BY Names, SharedMemoryAssumption DEF SharedMemoryAssumption
<1>2. PICK dead \in SUBSET infos[PrefixOf[p]] :
        /\ Goto(p, "can_free", IF infos[PrefixOf[p]] = dead THEN "free" ELSE "delete_unlock")
        /\ \E gone \in SUBSET dead :
             /\ infos[PrefixOf[p]] = dead => gone = dead
             /\ infos' = [infos EXCEPT ![PrefixOf[p]] = @ \ gone]
             /\ wrong' = IF \E q \in gone : Alive(q) THEN wrong \cup {"read"} ELSE wrong
        /\ UNCHANGED <<rounds, addr, locks, keyvar, dir, segment, made>>
  BY DEF CheckIfMemCanBeFreed
<1>3. PICK gone \in SUBSET dead :
        /\ infos[PrefixOf[p]] = dead => gone = dead
        /\ infos' = [infos EXCEPT ![PrefixOf[p]] = @ \ gone]
        /\ \A q \in gone : ~Alive(q)
  BY <1>2
<1>11. /\ pc[p] = "can_free"
       /\ pc'[p] = IF infos[PrefixOf[p]] = dead THEN "free" ELSE "delete_unlock"
       /\ UNCHANGED <<newlock, fromkeylock, keyvar, dir, segment, made, addr>>
  BY <1>2 DEF Goto, locks, Types
<1>4. /\ infos'[PrefixOf[p]] = infos[PrefixOf[p]] \ gone
      /\ \A f \in Prefixes \ {PrefixOf[p]} : infos'[f] = infos[f]
  BY <1>1, <1>3 DEF Types
<1>5. infos'[PrefixOf[p]] = {} <=> infos[PrefixOf[p]] = dead
  BY <1>3, <1>4
<1>6. newlock[PrefixOf[p]] = p
  BY <1>11 DEF Locked, HoldsNew, Deleting
<1>7. Shares' /\ Keyed' /\ Found'
  BY <1>11, InfosLeave
<1>8. \A q \in Processes \ {p} :
        pc'[q] = pc[q] /\ (PrefixOf[q] = PrefixOf[p] => pc[q] \notin {"free", "delete_unlock"})
  <2>1. \A q \in Processes \ {p} :
          PrefixOf[q] = PrefixOf[p] => pc[q] \notin {"free", "delete_unlock"}
    BY <1>11, Alone DEF Deleting, Saving
  <2>. QED
    BY <2>1, Others
<1>9. Listed'
  <2>1. ASSUME NEW q \in Processes
        PROVE  /\ pc'[q] \in {"unlock", "in", "delete_lock", "delete_lock_2", "delete_info"} =>
                    q \in infos'[PrefixOf[q]]
               /\ pc'[q] = "free" => infos'[PrefixOf[q]] = {}
    <3>1. CASE q # p /\ PrefixOf[q] = PrefixOf[p]
      <4>1. pc[q] \in {"unlock", "in", "delete_lock", "delete_lock_2", "delete_info"} =>
              q \notin gone
        BY <1>3 DEF Alive
      <4>. QED
        BY <1>4, <1>8, <3>1, <4>1 DEF Good, Listed
    <3>2. CASE q # p /\ PrefixOf[q] # PrefixOf[p]
      BY <1>1, <1>4, <1>8, <3>2 DEF Good, Listed
    <3>3. CASE q = p
      BY <1>11, <1>5, <3>3
    <3>. QED
      BY <3>1, <3>2, <3>3
  <2>. QED
    BY <2>1 DEF Listed
<1>10. Filed'
  <2>1. ASSUME NEW f \in Prefixes
        PROVE  /\ infos'[f] # {} => keyvar'[f] # 0 /\ dir'[f]
               /\ keyvar'[f] # 0 /\ infos'[f] = {} => newlock'[f] # "free"
               /\ dir'[f] /\ infos'[f] = {} => newlock'[f] # "free" \/ fromkeylock'[f] # "free"
    <3>1. CASE f = PrefixOf[p]
      BY <1>1, <1>11, <1>4, <1>6, <3>1 DEF Good, Filed
    <3>2. CASE f # PrefixOf[p]
      BY <1>1, <1>11, <1>4, <3>2 DEF Good, Filed
    <3>. QED
      BY <3>1, <3>2
  <2>2. ASSUME NEW q \in Processes
        PROVE  /\ pc'[q] = "save" => dir'[PrefixOf[q]]
               /\ pc'[q] = "delete_unlock" =>
                    /\ keyvar'[PrefixOf[q]] # 0 => infos'[PrefixOf[q]] # {}
                    /\ dir'[PrefixOf[q]] => infos'[PrefixOf[q]] # {}
    <3>1. CASE q = p
      BY <1>11, <1>5, <3>1
    <3>2. CASE q # p
      BY <1>1, <1>11, <1>4, <1>8, <3>2 DEF Good, Filed
    <3>. QED
      BY <3>1, <3>2
  <2>. QED
    BY <2>1, <2>2 DEF Filed
<1>. QED
  BY <1>7, <1>9, <1>10 DEF Good

(***************************************************************************)
(* Freeing.                                                                *)
(***************************************************************************)
\* The segment is freed under nobody: whoever else uses it would be known to.
LEMMA FreeGood ==
  ASSUME Types, Locked, Good, NEW p \in Processes, Step(p), Free(p)
  PROVE  Good'
<1>1. /\ PrefixOf[p] \in Prefixes /\ p # "free" /\ 0 \notin Keys
      /\ \A q \in Processes : PrefixOf[q] \in Prefixes /\ RandomKey[q] \in Keys
      /\ \A f \in Prefixes : keyvar[f] \in Keys \cup {0}
  BY Names, SharedMemoryAssumption DEF SharedMemoryAssumption, Types
<1>. DEFINE own == PrefixOf[p]
            key == keyvar[own]
<1>2. /\ pc[p] = "free" /\ pc'[p] = "delete_unlock" /\ own \in Prefixes
      /\ UNCHANGED <<newlock, fromkeylock, infos, made, addr>>
      /\ keyvar' = [keyvar EXCEPT ![own] = 0]
      /\ dir' = [dir EXCEPT ![own] = infos[own] # {}]
      /\ segment' = [k \in Keys |-> IF segment[k] = addr[p] THEN 0 ELSE segment[k]]
  BY <1>1 DEF Free, Goto, locks, Types, Removed
<1>3. /\ key \in Keys /\ key # 0 /\ addr[p] # 0 /\ segment[key] = addr[p] /\ infos[own] = {}
  BY <1>1, <1>2 DEF Good, Shares, Listed, Attached
<1>4. /\ keyvar'[own] = 0 /\ dir'[own] = FALSE
      /\ \A f \in Prefixes \ {own} : keyvar'[f] = keyvar[f] /\ dir'[f] = dir[f]
  BY <1>1, <1>2, <1>3 DEF Types
<1>5. \A k \in Keys : segment'[k] = IF k = key THEN 0 ELSE segment[k]
  BY <1>2, <1>3 DEF Good, Keyed
<1>6. \A q \in Processes : pc[q] = "make_key" => RandomKey[q] # key
  BY <1>2 DEF Good, Keyed
<1>7. \A f \in Prefixes \ {own} : keyvar[f] # key
  BY <1>2, <1>3 DEF Good, Keyed
<1>8. \A q \in Processes \ {p} : PrefixOf[q] = own =>
        ~Attached(q) /\ pc[q] \notin {"get", "make_key", "delete_unlock", "unlock", "delete_info"}
  <2>. SUFFICES ASSUME NEW q \in Processes, q # p, PrefixOf[q] = own
                PROVE  ~Attached(q)
                       /\ pc[q] \notin {"get", "make_key", "delete_unlock", "unlock", "delete_info"}
    OBVIOUS
  <2>1. pc[q] \notin Saving \cup Deleting \cup {"delete_lock_2", "get", "make_key"}
    BY <1>2, Alone DEF Deleting
  <2>2. pc[q] \notin {"in", "delete_lock"}
    BY <1>3 DEF Good, Listed
  <2>. QED
    BY <2>1, <2>2 DEF Attached, Saving, Deleting
<1>9. Shares'
  <2>1. ASSUME NEW q \in Processes, q # p
        PROVE  /\ Attached(q)' => /\ keyvar'[PrefixOf[q]] # 0 /\ addr'[q] # 0
                                  /\ segment'[keyvar'[PrefixOf[q]]] = addr'[q]
               /\ pc'[q] \in {"get", "make_key"} => keyvar'[PrefixOf[q]] = 0
               /\ pc'[q] = "make_key" => addr'[q] # 0 /\ segment'[RandomKey[q]] = addr'[q]
    <3>1. pc'[q] = pc[q] /\ addr'[q] = addr[q] /\ (Attached(q)' <=> Attached(q))
      BY <2>1, Others DEF Attached
    <3>2. CASE PrefixOf[q] = own
      BY <1>8, <2>1, <3>1, <3>2
    <3>3. CASE PrefixOf[q] # own
      <4>1. /\ keyvar'[PrefixOf[q]] = keyvar[PrefixOf[q]] /\ keyvar[PrefixOf[q]] # key
            /\ pc[q] = "make_key" => RandomKey[q] # key
        BY <1>1, <1>4, <1>6, <1>7, <3>3
      <4>. QED
        BY <1>1, <1>5, <3>1, <4>1 DEF Good, Shares
    <3>. QED
      BY <3>2, <3>3
  <2>2. ~Attached(p)' /\ pc'[p] \notin {"get", "make_key"}
    BY <1>2 DEF Attached, Saving
  <2>. QED
    BY <2>1, <2>2 DEF Shares
<1>10. Listed'
  <2>1. pc'[p] \notin {"unlock", "in", "delete_lock", "delete_lock_2", "delete_info", "free"}
    BY <1>2
  <2>2. \A q \in Processes \ {p} : pc'[q] = pc[q]
    BY Others
  <2>. QED
    BY <1>2, <2>1, <2>2 DEF Good, Listed
<1>11. Keyed'
  <2>1. \A k \in Keys : segment'[k] <= made'
    <3>1. \A k \in Keys : segment'[k] = 0 \/ segment'[k] = segment[k]
      BY <1>5
    <3>. QED
      BY <1>2, <3>1 DEF Good, Keyed, Types
  <2>2. \A k, l \in Keys : segment'[k] = segment'[l] /\ segment'[k] # 0 => k = l
    BY <1>5 DEF Good, Keyed
  <2>3. \A f \in Prefixes : keyvar'[f] # 0 => segment'[keyvar'[f]] # 0
    BY <1>1, <1>4, <1>5, <1>7 DEF Good, Keyed
  <2>4. \A f, g \in Prefixes : keyvar'[f] = keyvar'[g] /\ keyvar'[f] # 0 => f = g
    BY <1>4 DEF Good, Keyed
  <2>5. \A q \in Processes : pc'[q] = "make_key" => pc[q] = "make_key"
    BY <1>2, Others
  <2>6. \A q \in Processes : pc'[q] = "make_key" =>
          /\ \A f \in Prefixes : keyvar'[f] # RandomKey[q]
          /\ \A o \in Processes : pc'[o] = "make_key" /\ RandomKey[o] = RandomKey[q] => o = q
    BY <1>1, <1>4, <2>5 DEF Good, Keyed
  <2>. QED
    BY <2>1, <2>2, <2>3, <2>4, <2>6 DEF Keyed
<1>12. Found'
  <2>1. ASSUME NEW k \in Keys, Orphan(k) PROVE Orphan(k)'
    <3>1. PICK q \in Processes : /\ RandomKey[q] = k /\ newlock[PrefixOf[q]] = q
                                 /\ pc[q] \in {"make_key", "dead"}
      BY <2>1 DEF Orphan
    <3>2. pc'[q] = pc[q]
      BY <1>2, <3>1, Others
    <3>. QED
      BY <1>2, <3>1, <3>2 DEF Orphan
  <2>2. ASSUME NEW k \in Keys, segment'[k] # 0
        PROVE  Orphan(k)' \/ \E f \in Prefixes : keyvar'[f] = k
    <3>1. k # key /\ segment[k] # 0
      BY <1>5, <2>2
    <3>2. CASE Orphan(k)
      BY <2>1, <3>2
    <3>3. CASE ~Orphan(k)
      <4>1. PICK f \in Prefixes : keyvar[f] = k
        BY <3>1, <3>3 DEF Good, Found
      <4>2. keyvar'[f] = k
        BY <1>4, <3>1, <4>1
      <4>. QED
        BY <4>2
    <3>. QED
      BY <3>2, <3>3
  <2>. QED
    BY <2>2 DEF Found
<1>13. Filed'
  <2>1. ASSUME NEW f \in Prefixes
        PROVE  /\ infos'[f] # {} => keyvar'[f] # 0 /\ dir'[f]
               /\ keyvar'[f] # 0 /\ infos'[f] = {} => newlock'[f] # "free"
               /\ dir'[f] /\ infos'[f] = {} => newlock'[f] # "free" \/ fromkeylock'[f] # "free"
    BY <1>2, <1>3, <1>4 DEF Good, Filed
  <2>2. ASSUME NEW q \in Processes
        PROVE  /\ pc'[q] = "save" => dir'[PrefixOf[q]]
               /\ pc'[q] = "delete_unlock" =>
                    /\ keyvar'[PrefixOf[q]] # 0 => infos'[PrefixOf[q]] # {}
                    /\ dir'[PrefixOf[q]] => infos'[PrefixOf[q]] # {}
    <3>1. CASE q = p
      BY <1>2, <1>4, <3>1
    <3>2. CASE q # p /\ PrefixOf[q] = own
      <4>1. pc'[q] = pc[q] /\ pc[q] \notin {"save", "delete_unlock"}
        BY <1>8, <3>2, Others DEF Attached, Saving
      <4>. QED
        BY <4>1
    <3>3. CASE q # p /\ PrefixOf[q] # own
      <4>1. pc'[q] = pc[q]
        BY <3>3, Others
      <4>. QED
        BY <1>1, <1>2, <1>4, <3>3, <4>1 DEF Good, Filed
    <3>. QED
      BY <3>1, <3>2, <3>3
  <2>. QED
    BY <2>1, <2>2 DEF Filed
<1>. QED
  BY <1>9, <1>10, <1>11, <1>12, <1>13 DEF Good

\* Letting both locks go leaves nothing half freed.
LEMMA DeleteReturnGood ==
  ASSUME Types, Locked, Good, NEW p \in Processes, Step(p), DeleteReturn(p)
  PROVE  Good'
<1>1. /\ PrefixOf[p] \in Prefixes /\ \A q \in Processes : PrefixOf[q] \in Prefixes /\ q # "free"
  BY Names, SharedMemoryAssumption DEF SharedMemoryAssumption
<1>2. /\ pc[p] = "delete_unlock" /\ pc'[p] \in {"out", "segfault"}
      /\ UNCHANGED <<keyvar, dir, infos, segment, made>>
      /\ newlock' = Unlocked(newlock, p) /\ fromkeylock' = Unlocked(fromkeylock, p)
  BY DEF DeleteReturn, Goto, files, memory, Types
<1>3. \A q \in Processes \ {p} : pc'[q] = pc[q]
  BY Others
<1>4. Shares' /\ Listed'
  <2>1. ~Attached(p)'
    BY <1>2 DEF Attached, Saving
  <2>. QED
    BY <1>2, <2>1, SteadyShares DEF Shares, Listed, Good
<1>5. Keyed'
  BY <1>2, <1>3 DEF Good, Keyed
<1>6. Found'
  <2>1. ASSUME NEW k \in Keys, Orphan(k) PROVE Orphan(k)'
    <3>1. PICK q \in Processes : /\ RandomKey[q] = k /\ newlock[PrefixOf[q]] = q
                                 /\ pc[q] \in {"make_key", "dead"}
      BY <2>1 DEF Orphan
    <3>2. q # p
      BY <1>2, <3>1
    <3>3. pc'[q] = pc[q] /\ newlock'[PrefixOf[q]] = q
      BY <1>1, <1>2, <1>3, <3>1, <3>2 DEF Unlocked
    <3>. QED
      BY <3>1, <3>3 DEF Orphan
  <2>. QED
    BY <1>2, <2>1 DEF Good, Found
<1>7. Filed'
  <2>1. ASSUME NEW f \in Prefixes
        PROVE  /\ infos'[f] # {} => keyvar'[f] # 0 /\ dir'[f]
               /\ keyvar'[f] # 0 /\ infos'[f] = {} => newlock'[f] # "free"
               /\ dir'[f] /\ infos'[f] = {} => newlock'[f] # "free" \/ fromkeylock'[f] # "free"
    <3>1. CASE f = PrefixOf[p]
      BY <1>2, <3>1 DEF Good, Filed
    <3>2. CASE f # PrefixOf[p]
      <4>1. newlock[f] # p /\ fromkeylock[f] # p
        BY <1>1, <3>2 DEF Locked
      <4>2. newlock'[f] = newlock[f] /\ fromkeylock'[f] = fromkeylock[f]
        BY <1>2, <4>1 DEF Unlocked
      <4>. QED
        BY <1>2, <4>2 DEF Good, Filed
    <3>. QED
      BY <3>1, <3>2
  <2>. QED
    BY <1>2, <1>3, <2>1 DEF Good, Filed
<1>. QED
  BY <1>4, <1>5, <1>6, <1>7 DEF Good

\* A process that dies leaves its locks and files.
LEMMA CrashGood ==
  ASSUME Types, Locked, Good, NEW p \in Processes, Step(p), Crash(p)
  PROVE  Good'
<1>1. /\ pc'[p] = "dead" /\ UNCHANGED <<newlock, fromkeylock, keyvar, dir, infos, segment, made>>
  BY DEF Crash, locks, files, memory, Types
<1>2. Shares' /\ Listed'
  <2>1. ~Attached(p)'
    BY <1>1 DEF Attached, Saving
  <2>. QED
    BY <1>1, <2>1, SteadyShares DEF Shares, Listed, Good
<1>3. Keyed'
  <2>1. \A q \in Processes : pc'[q] = "make_key" => pc[q] = "make_key"
    BY <1>1, Others
  <2>. QED
    BY <1>1, <2>1 DEF Good, Keyed
<1>4. Found'
  <2>1. \A k \in Keys : Orphan(k) => Orphan(k)'
    BY <1>1, Others DEF Orphan
  <2>. QED
    BY <1>1, <2>1 DEF Good, Found
<1>5. Filed'
  BY <1>1, Others DEF Good, Filed
<1>. QED
  BY <1>2, <1>3, <1>4, <1>5 DEF Good

(***************************************************************************)
(* The theorems.                                                           *)
(***************************************************************************)
\* Every step of a process keeps the inductive invariant.
LEMMA InvStep ==
  ASSUME Inv, NEW p \in Processes, Step(p)
  PROVE  Inv'
<1>1. Types'
  BY TypesStep DEF Inv
<1>2. ASSUME Fine' PROVE Locked' /\ Good'
  <2>1. Types /\ Locked /\ Good /\ Going(p)
    BY <1>2, StillFine DEF Inv
  <2>2. pc'[p] \notin {"null", "segfault"} /\ wrong' = {}
    BY <1>2 DEF Fine, Failed
  <2>3. Locked'
    BY <2>1, <2>2, LockedStep
  <2>4. CASE Passing(p)
    BY <2>1, <2>2, <2>3, <2>4, PassingGood
  <2>5. CASE Make(p) \/ MakeKeyVariable(p) \/ NewFromKey(p) \/ MakeDir(p) \/ SaveProcInfo(p)
    BY <2>1, <2>2, <2>3, <2>5, MakeGood, MakeKeyVariableGood, NewFromKeyGood, DirGood,
       SaveProcInfoGood
  <2>6. CASE \/ DeleteProcInfo(p) \/ CheckIfMemCanBeFreed(p) \/ Free(p) \/ DeleteReturn(p)
             \/ Crash(p)
    BY <2>1, <2>2, <2>3, <2>6, DeleteProcInfoGood, CheckIfMemCanBeFreedGood, FreeGood,
       DeleteReturnGood, CrashGood
  <2>. QED
    BY <2>1, <2>4, <2>5, <2>6 DEF Going
<1>. QED
  BY <1>1, <1>2 DEF Inv

\* As long as everything is fine, everything fits together.
LEMMA AlwaysInv == Spec => []Inv
<1>1. Init => Inv
  <2>. SUFFICES ASSUME Init PROVE Inv
    OBVIOUS
  <2>1. Types
    BY DEF Init, Types, PCs
  <2>2. Locked
    BY Names DEF Init, Locked, HoldsNew, HoldsFromKey, Deleting, Saving
  <2>3. Shares /\ Listed
    BY DEF Init, Shares, Listed, Attached, Saving
  <2>4. Keyed /\ Found /\ Filed
    BY Names DEF Init, Keyed, Found, Filed
  <2>. QED
    BY <2>1, <2>2, <2>3, <2>4 DEF Inv, Good
<1>2. Inv /\ [Next]_shmVars => Inv'
  <2>. SUFFICES ASSUME Inv, [Next]_shmVars PROVE Inv'
    OBVIOUS
  <2>1. CASE Next
    <3>1. PICK p \in Processes : Step(p)
      BY <2>1 DEF Next, Step
    <3>. QED
      BY <3>1, InvStep
  <2>2. CASE UNCHANGED shmVars
    <3>1. UNCHANGED <<pc, rounds, addr, newlock, fromkeylock, keyvar, dir, infos, segment,
                      made, wrong>>
      BY <2>2 DEF shmVars, locks, files, memory
    <3>2. Types' /\ (Fine' => Fine)
      BY <3>1 DEF Inv, Types, Fine, Failed
    <3>3. ASSUME Fine' PROVE Locked' /\ Good'
      <4>1. Locked'
        BY <3>1, <3>2, <3>3 DEF Inv, Locked, HoldsNew, HoldsFromKey
      <4>2. Shares /\ Listed => Shares' /\ Listed'
        BY <3>1 DEF Shares, Listed, Attached
      <4>3. Keyed /\ Found /\ Filed => Keyed' /\ Found' /\ Filed'
        BY <3>1 DEF Keyed, Found, Filed, Orphan
      <4>. QED
        BY <3>2, <3>3, <4>1, <4>2, <4>3 DEF Inv, Good
    <3>. QED
      BY <3>2, <3>3 DEF Inv
  <2>. QED
    BY <2>1, <2>2
<1>. QED
  BY <1>1, <1>2, PTL DEF Spec

\* The users of one prefix share one segment, which the prefix's key finds: a delete
\* frees it under nobody, and nobody joins one that is being freed, for any number of
\* processes and prefixes, whoever of them dies wherever, whatever keys random() draws
\* until one of them finds a segment that is there, and whatever calls fail until one
\* goes unnoticed or leaves aipc_sharedmem_new half-way (sharedmem.c:245-258).
THEOREM AlwaysUsersShare ==
  Spec => []UsersShare
<1>1. Inv => UsersShare
  <2>. SUFFICES ASSUME Inv, Fine, NEW p \in Processes, Using(p)
                PROVE  /\ keyvar[PrefixOf[p]] # 0 /\ segment[keyvar[PrefixOf[p]]] = addr[p]
                       /\ \A q \in Processes :
                            Using(q) /\ PrefixOf[q] = PrefixOf[p] => addr[q] = addr[p]
    BY DEF UsersShare
  <2>1. \A q \in Processes : Using(q) => Attached(q)
    BY DEF Using, Attached
  <2>. QED
    BY <2>1 DEF Inv, Good, Shares
<1>. QED
  BY <1>1, AlwaysInv, PTL

\* Between operations a prefix has its segment, its key and its directory exactly as
\* long as the directory names a user: a delete frees all three or none, although users
\* have died and the check may take some of them for living (sharedmem_procinfo.c:91).
THEOREM AlwaysKeyMatchesInfos ==
  Spec => []KeyMatchesInfos
<1>1. Inv => KeyMatchesInfos
  <2>. SUFFICES ASSUME Inv, Fine,
                       \A f \in Prefixes : newlock[f] = "free" /\ fromkeylock[f] = "free"
                PROVE  /\ \A f \in Prefixes :
                            (keyvar[f] # 0 <=> infos[f] # {}) /\ (dir[f] <=> infos[f] # {})
                       /\ \A k \in Keys : segment[k] # 0 <=> \E f \in Prefixes : keyvar[f] = k
    BY DEF KeyMatchesInfos
  <2>1. Types /\ Good
    BY DEF Inv
  <2>2. \A f \in Prefixes : (keyvar[f] # 0 <=> infos[f] # {}) /\ (dir[f] <=> infos[f] # {})
    BY <2>1 DEF Good, Filed
  <2>3. \A k \in Keys : ~Orphan(k)
    BY Names, SharedMemoryAssumption DEF Orphan, SharedMemoryAssumption
  <2>4. \A k \in Keys : segment[k] # 0 => \E f \in Prefixes : keyvar[f] = k
    BY <2>1, <2>3 DEF Good, Found
  <2>5. \A k \in Keys : (\E f \in Prefixes : keyvar[f] = k) => segment[k] # 0
    BY <2>1, SharedMemoryAssumption DEF Good, Keyed, SharedMemoryAssumption
  <2>. QED
    BY <2>2, <2>4, <2>5
<1>. QED
  BY <1>1, AlwaysInv, PTL

\* Different prefixes are different memory, as sharedmem.h:60-61 promises, until shmget
\* finds the segment of a key that was drawn before: no other order of steps leads to
\* what MCSharedMemoryKeys shows.
THEOREM AlwaysPrefixesApart ==
  Spec => [](Fine => PrefixesApart)
<1>1. Inv => (Fine => PrefixesApart)
  <2>. SUFFICES ASSUME Inv, Fine, NEW p \in Processes, NEW q \in Processes,
                       Using(p), Using(q), PrefixOf[p] # PrefixOf[q], addr[p] = addr[q]
                PROVE  FALSE
    BY DEF PrefixesApart
  <2>1. Types /\ Good /\ Attached(p) /\ Attached(q)
    BY DEF Inv, Using, Attached
  <2>. DEFINE k == keyvar[PrefixOf[p]]
              l == keyvar[PrefixOf[q]]
  <2>2. k # 0 /\ l # 0 /\ segment[k] = addr[p] /\ segment[l] = addr[q] /\ addr[p] # 0
    BY <2>1 DEF Good, Shares
  <2>3. PrefixOf[p] \in Prefixes /\ PrefixOf[q] \in Prefixes /\ k \in Keys /\ l \in Keys
    BY <2>1, <2>2, Names DEF Types
  <2>4. k = l
    BY <2>1, <2>2, <2>3 DEF Good, Keyed
  <2>. QED
    BY <2>1, <2>2, <2>3, <2>4 DEF Good, Keyed
<1>. QED
  BY <1>1, AlwaysInv, PTL
=============================================================================
