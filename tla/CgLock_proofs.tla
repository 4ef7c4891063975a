--------------------------- MODULE CgLock_proofs ---------------------------
(***************************************************************************)
(* Proofs about CgLock for any set of threads and of data values: the      *)
(* inductive invariant LockInv, the exclusion it implies, the stability of *)
(* the data while the lock is held, and the refinement of ModeLock.        *)
(***************************************************************************)
EXTENDS CgLock, TLAPS

\* Initially nobody holds anything, which is what the pcs say.
LEMMA InitLockInv == Init => LockInv
  BY NoThreadAssumption DEF Init, LockInv, TypeOK, MutexPC, ReadPC, CallerPC

\* Every pthread call keeps the mutex and the rwlock in agreement with the
\* pcs of the threads.
LEMMA NextLockInv == LockInv /\ [Next]_vars => LockInv'
<1> SUFFICES ASSUME LockInv, [Next]_vars
             PROVE  LockInv'
  OBVIOUS
<1> USE NoThreadAssumption DEF LockInv, TypeOK, MutexPC, ReadPC, CallerPC, InCallPC, Goto
<1>1. ASSUME NEW t \in Threads, Inside(t)
      PROVE  LockInv'
  <2>1. CASE GetRead(t)
    BY <2>1 DEF GetRead, rd_lock
  <2>2. CASE GetWrite(t)
    BY <2>2 DEF GetWrite, wr_lock
  <2>3. CASE DropMutex(t)
    BY <2>3 DEF DropMutex, mutex_unlock
  <2> QED BY <1>1, <2>1, <2>2, <2>3 DEF Inside
<1>2. ASSUME NEW t \in Threads, Release(t)
      PROVE  LockInv'
  <2>1. CASE cg_uilock(t)
    BY <2>1 DEF cg_uilock, mutex_unlock
  <2>2. CASE cg_dlock(t)
    BY <2>2 DEF cg_dlock
  <2>3. CASE cg_runlock(t)
    BY <2>3 DEF cg_runlock, rw_unlock
  <2>4. CASE cg_wunlock(t)
    BY <2>4 DEF cg_wunlock, rw_unlock
  <2> QED BY <1>2, <2>1, <2>2, <2>3, <2>4 DEF Release
<1>3. ASSUME NEW t \in Threads, Acquire(t)
      PROVE  LockInv'
  <2>1. CASE cg_rlock(t)
    BY <2>1 DEF cg_rlock, mutex_lock
  <2>2. CASE cg_ilock(t)
    BY <2>2 DEF cg_ilock, mutex_lock
  <2>3. CASE cg_wlock(t)
    BY <2>3 DEF cg_wlock, mutex_lock
  <2> QED BY <1>3, <2>1, <2>2, <2>3 DEF Acquire
<1>4. ASSUME NEW t \in Threads, Change(t)
      PROVE  LockInv'
  <2>1. CASE cg_ulock(t)
    BY <2>1 DEF cg_ulock
  <2>2. CASE cg_dwlock(t)
    BY <2>2 DEF cg_dwlock, rw_unlock
  <2>3. CASE cg_dwilock(t)
    BY <2>3 DEF cg_dwilock, rw_unlock
  <2>4. CASE cg_ruwlock(t)
    BY <2>4 DEF cg_ruwlock, rw_unlock
  <2> QED BY <1>4, <2>1, <2>2, <2>3, <2>4 DEF Change
<1>5. ASSUME NEW t \in Threads, WriteData(t)
      PROVE  LockInv'
  BY <1>5 DEF WriteData
<1>6. CASE UNCHANGED vars
  BY <1>6 DEF vars
<1> QED
  BY <1>1, <1>2, <1>3, <1>4, <1>5, <1>6 DEF Next

\* LockInv holds in every reachable state, for every set of threads.
THEOREM LockInvariant == Spec => []LockInv
  BY InitLockInv, NextLockInv, PTL DEF Spec

\* Writers are alone and the intermediate variant has one holder, for every
\* set of threads.
THEOREM ExclusionHolds == Spec => []Exclusion
<1>1. LockInv => Exclusion
  BY NoThreadAssumption DEF LockInv, TypeOK, Exclusion, MutexPC, ReadPC
<1> QED
  BY <1>1, LockInvariant, PTL

---------------------------------------------------------------------------
\* What a thread has read stays true from its first to its last pthread call
\* on the lock: only a thread in "write" changes the data, and then nobody
\* else holds the mutex or reads (gen_stratum_work reads what it wrote after
\* cg_dwlock).
THEOREM DataHoldsStill == Spec => HoldsStill
<1> DEFINE Still == \A t \in Threads :
                      (pc[t] \notin {"idle", "ru_mu"} /\ data' # data) => pc[t] = "write"
<1>1. LockInv /\ [Next]_vars => [Still]_vars
  <2> SUFFICES ASSUME LockInv, Next, NEW t \in Threads,
                      pc[t] \notin {"idle", "ru_mu"}, data' # data
               PROVE  pc[t] = "write"
    BY DEF vars
  <2>1. PICK u \in Threads : WriteData(u)
    BY DEF Next, Inside, Release, Acquire, Change, GetRead, GetWrite, DropMutex,
           cg_uilock, cg_dlock, cg_runlock, cg_wunlock, cg_rlock, cg_ilock, cg_wlock,
           cg_ulock, cg_dwlock, cg_dwilock, cg_ruwlock
  <2>2. mutex = u /\ readers = {}
    BY <2>1, NoThreadAssumption DEF WriteData, LockInv, MutexPC
  <2>3. mutex = t \/ t \in readers
    BY DEF LockInv, TypeOK, CallerPC, InCallPC, MutexPC, ReadPC
  <2> QED BY <2>1, <2>2, <2>3 DEF WriteData
<1> QED
  BY <1>1, LockInvariant, PTL DEF Spec, HoldsStill

---------------------------------------------------------------------------
(***************************************************************************)
(* The refinement of ModeLock.  A thread that takes the mutex enters the   *)
(* intermediate mode; wr_lock and wr_unlock promote and demote it; giving  *)
(* up the mutex ends the mode or leaves a reader behind.                   *)
(***************************************************************************)

\* How the modes of all threads follow from the holders of the mutex and of
\* the rwlock, in a state of the invariant.
LEMMA ModeMeaning ==
  ASSUME LockInv, NEW t \in Threads
  PROVE  /\ (mode[t] = "write") <=> (writer = t)
         /\ (mode[t] = "inter") <=> (mutex = t /\ writer # t)
         /\ (mode[t] = "read") <=> (t \in readers /\ mutex # t /\ writer # t)
         /\ (mode[t] = "none") <=> (writer # t /\ mutex # t /\ t \notin readers)
  BY DEF mode, ModeOf

\* Every step of a cg_* function is a step of ModeLock or invisible to it.
LEMMA StepSimulation ==
  ASSUME LockInv, LockInv', [Next]_vars
  PROVE  [Abs!Next]_(Abs!vars)
<1> USE NoThreadAssumption
<1>1. ASSUME NEW t \in Threads, cg_rlock(t) \/ cg_ilock(t) \/ cg_wlock(t)
      PROVE  Abs!TakeInter(t)
  <2>1. mutex = NoThread /\ mutex' = t /\ readers' = readers /\ writer' = writer /\ data' = data
    BY <1>1 DEF cg_rlock, cg_ilock, cg_wlock, mutex_lock
  <2>2. pc[t] \in {"idle", "ru_mu"}
    BY <1>1 DEF cg_rlock, cg_ilock, cg_wlock
  <2>3. writer = NoThread /\ t \notin readers
    BY <2>1, <2>2 DEF LockInv, TypeOK, MutexPC, ReadPC
  <2>4. mode' = [mode EXCEPT ![t] = "inter"]
    BY <2>1, <2>3 DEF mode, ModeOf
  <2>5. mode[t] = "none" /\ \A u \in Threads : mode[u] \in {"none", "read"}
    BY <2>1, <2>3 DEF mode, ModeOf
  <2> QED BY <2>1, <2>4, <2>5 DEF Abs!TakeInter
<1>2. ASSUME NEW t \in Threads, GetWrite(t)
      PROVE  Abs!Promote(t)
  <2>1. /\ writer = NoThread /\ readers = {} /\ writer' = t
        /\ readers' = readers /\ mutex' = mutex /\ data' = data
    BY <1>2 DEF GetWrite, wr_lock
  <2>2. mutex = t
    BY <1>2 DEF GetWrite, LockInv, MutexPC
  <2>3. mode' = [mode EXCEPT ![t] = "write"]
    BY <2>1, <2>2 DEF mode, ModeOf
  <2>4. mode[t] = "inter" /\ \A u \in Threads : mode[u] # "read"
    BY <2>1, <2>2 DEF mode, ModeOf
  <2> QED BY <2>1, <2>3, <2>4 DEF Abs!Promote
<1>3. ASSUME NEW t \in Threads, cg_dwlock(t) \/ cg_dwilock(t) \/ cg_wunlock(t)
      PROVE  Abs!Demote(t)
  <2>1. pc[t] = "write" /\ mutex' = mutex /\ data' = data
    BY <1>3 DEF cg_dwlock, cg_dwilock, cg_wunlock
  <2>2. writer = t /\ mutex = t /\ readers = {}
    BY <2>1 DEF LockInv, MutexPC
  <2>3. readers' = {} /\ writer' = NoThread
    BY <1>3, <2>2 DEF cg_dwlock, cg_dwilock, cg_wunlock, rw_unlock
  <2>4. mode' = [mode EXCEPT ![t] = "inter"]
    BY <2>1, <2>2, <2>3 DEF mode, ModeOf
  <2> QED BY <2>1, <2>2, <2>4, ModeMeaning DEF Abs!Demote
<1>4. ASSUME NEW t \in Threads, cg_runlock(t) \/ cg_ruwlock(t)
      PROVE  Abs!DropRead(t)
  <2>1. pc[t] = "read" /\ mutex' = mutex /\ data' = data
    BY <1>4 DEF cg_runlock, cg_ruwlock
  <2>2. t \in readers /\ mutex # t /\ writer # t
    BY <2>1 DEF LockInv, MutexPC, ReadPC
  <2>3. readers' = readers \ {t} /\ writer' = writer
    BY <1>4, <2>2 DEF cg_runlock, cg_ruwlock, rw_unlock
  <2>4. mode' = [mode EXCEPT ![t] = "none"]
    BY <2>1, <2>2, <2>3 DEF mode, ModeOf
  <2> QED BY <2>1, <2>2, <2>4, ModeMeaning DEF Abs!DropRead
<1>5. ASSUME NEW t \in Threads, cg_uilock(t)
      PROVE  Abs!DropInter(t)
  <2>1. /\ pc[t] = "inter" /\ mutex = t /\ mutex' = NoThread
        /\ readers' = readers /\ writer' = writer /\ data' = data
    BY <1>5 DEF cg_uilock, mutex_unlock
  <2>2. t \notin readers /\ writer # t
    BY <2>1 DEF LockInv, ReadPC
  <2>3. mode' = [mode EXCEPT ![t] = "none"]
    BY <2>1, <2>2 DEF mode, ModeOf
  <2> QED BY <2>1, <2>2, <2>3, ModeMeaning DEF Abs!DropInter
<1>6. ASSUME NEW t \in Threads, DropMutex(t)
      PROVE  Abs!InterToRead(t) \/ Abs!DropInter(t)
  <2>1. /\ mutex = t /\ mutex' = NoThread
        /\ readers' = readers /\ writer' = writer /\ data' = data
    BY <1>6 DEF DropMutex, mutex_unlock
  <2>2. pc[t] \in {"rd_mu", "wu_mu"} /\ writer # t
    BY <1>6 DEF DropMutex, LockInv
  <2>3. mode[t] = "inter"
    BY <2>1, <2>2, ModeMeaning
  <2>4. CASE t \in readers
    <3>1. mode' = [mode EXCEPT ![t] = "read"]
      BY <2>1, <2>2, <2>4 DEF mode, ModeOf
    <3> QED BY <2>1, <2>3, <3>1 DEF Abs!InterToRead
  <2>5. CASE t \notin readers
    <3>1. mode' = [mode EXCEPT ![t] = "none"]
      BY <2>1, <2>2, <2>5 DEF mode, ModeOf
    <3> QED BY <2>1, <2>3, <3>1 DEF Abs!DropInter
  <2> QED BY <2>4, <2>5
<1>7. ASSUME NEW t \in Threads, WriteData(t)
      PROVE  Abs!Write(t)
  <2>1. mode' = mode /\ writer = t
    BY <1>7 DEF WriteData, LockInv, mode, ModeOf
  <2> QED BY <1>7, <2>1, ModeMeaning DEF WriteData, Abs!Write
<1>8. ASSUME NEW t \in Threads, GetRead(t) \/ cg_dlock(t) \/ cg_ulock(t)
      PROVE  UNCHANGED Abs!vars
  <2>1. pc[t] \in MutexPC /\ mutex' = mutex /\ data' = data /\ writer' = writer
    BY <1>8 DEF GetRead, cg_dlock, cg_ulock, rd_lock, MutexPC
  <2>2. mutex = t
    BY <2>1 DEF LockInv
  <2>3. readers' \ {t} = readers \ {t}
    BY <1>8 DEF GetRead, cg_dlock, cg_ulock, rd_lock
  <2>4. mode' = mode
    BY <2>1, <2>2, <2>3 DEF mode, ModeOf
  <2> QED BY <2>1, <2>4 DEF Abs!vars
<1>9. CASE UNCHANGED vars
  BY <1>9 DEF vars, Abs!vars, mode, ModeOf
<1> QED
  BY <1>1, <1>2, <1>3, <1>4, <1>5, <1>6, <1>7, <1>8, <1>9
     DEF Next, Inside, Release, Acquire, Change, Abs!Next

\* The cg_* functions implement the three-mode lock that their callers rely
\* on, for every set of threads.
THEOREM Refinement == Spec => ImplementsModeLock
<1>1. Init => Abs!Init
  BY NoThreadAssumption DEF Init, Abs!Init, mode, ModeOf
<1>2. LockInv /\ LockInv' /\ [Next]_vars => [Abs!Next]_(Abs!vars)
  BY StepSimulation
<1> QED
  BY <1>1, <1>2, LockInvariant, PTL DEF Spec, ImplementsModeLock, Abs!Spec

=============================================================================
