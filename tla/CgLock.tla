------------------------------ MODULE CgLock ------------------------------
(***************************************************************************)
(* cglock_t of miner.h: a pthread mutex and a pthread rwlock combined, and *)
(* the cg_* functions that take, promote, demote and release them.  Every  *)
(* pthread call is a step of its own.  A thread calls any cg_* function    *)
(* that is legal in the mode it holds, and a writer may change the data.   *)
(***************************************************************************)
EXTENDS Naturals

CONSTANTS
    Threads,    \* the threads that share the lock
    Values,     \* the values of the data the lock protects
    NoThread    \* "nobody holds it"

ASSUME NoThreadAssumption == NoThread \notin Threads

VARIABLES
    pc,         \* where each thread is
    mutex,      \* the holder of lock->mutex, or NoThread
    readers,    \* the threads that hold lock->rwlock for reading
    writer,     \* the holder of lock->rwlock for writing, or NoThread
    data        \* the data the lock protects

vars == <<pc, mutex, readers, writer, data>>

(***************************************************************************)
(* "idle", "read", "inter" and "write" are the modes in which the caller   *)
(* runs its own code.  The others are inside a cg_* function:              *)
(*   rl_rd   cg_rlock, before rd_lock         dl_rd  cg_dlock, before it   *)
(*   wl_wr   cg_wlock, before wr_lock         ul_wr  cg_ulock, before it   *)
(*   dw_rd   cg_dwlock, between wr_unlock and rd_lock                      *)
(*   rd_mu   read-locked, mutex still to be released                       *)
(*   ru_mu   cg_ruwlock, after rd_unlock, before its cg_wlock              *)
(*   wu_mu   cg_wunlock, after wr_unlock, before the mutex is released     *)
(***************************************************************************)
CallerPC == {"idle", "read", "inter", "write"}
InCallPC == {"rl_rd", "dl_rd", "wl_wr", "ul_wr", "dw_rd", "rd_mu", "ru_mu", "wu_mu"}

Goto(t, l) == pc' = [pc EXCEPT ![t] = l]

\* The pthread primitives. wr_lock and rd_lock wait as the rwlock does.
mutex_lock(t) ==
    /\ mutex = NoThread
    /\ mutex' = t

mutex_unlock(t) ==
    /\ mutex = t
    /\ mutex' = NoThread

rd_lock(t) ==
    /\ writer = NoThread
    /\ readers' = readers \cup {t}
    /\ UNCHANGED writer

wr_lock(t) ==
    /\ writer = NoThread
    /\ readers = {}
    /\ writer' = t
    /\ UNCHANGED readers

rw_unlock(t) ==
    /\ t \in readers \/ writer = t
    /\ readers' = readers \ {t}
    /\ writer' = IF writer = t THEN NoThread ELSE writer

---------------------------------------------------------------------------
TypeOK ==
    /\ pc \in [Threads -> CallerPC \cup InCallPC]
    /\ mutex \in Threads \cup {NoThread}
    /\ readers \subseteq Threads
    /\ writer \in Threads \cup {NoThread}
    /\ data \in Values

Init ==
    /\ pc = [t \in Threads |-> "idle"]
    /\ mutex = NoThread
    /\ readers = {}
    /\ writer = NoThread
    /\ data \in Values

\* Mutant: a read lock that bypasses the mutex.
cg_rlock_bypass(t) ==
    /\ pc[t] = "idle" /\ Goto(t, "read")
    /\ rd_lock(t)
    /\ UNCHANGED <<mutex, data>>

\* cg_rlock: mutex_lock; rd_lock; mutex_unlock
cg_rlock(t) ==
    /\ pc[t] = "idle" /\ Goto(t, "rl_rd")
    /\ mutex_lock(t)
    /\ UNCHANGED <<readers, writer, data>>

\* cg_ilock: mutex_lock
cg_ilock(t) ==
    /\ pc[t] = "idle" /\ Goto(t, "inter")
    /\ mutex_lock(t)
    /\ UNCHANGED <<readers, writer, data>>

\* cg_wlock: mutex_lock; wr_lock.  cg_ruwlock goes on with it.
cg_wlock(t) ==
    /\ pc[t] \in {"idle", "ru_mu"} /\ Goto(t, "wl_wr")
    /\ mutex_lock(t)
    /\ UNCHANGED <<readers, writer, data>>

\* Mutant: a promotion that does not wait for the readers.
cg_ulock_eager(t) ==
    /\ pc[t] = "inter" /\ Goto(t, "write")
    /\ UNCHANGED <<mutex, readers, writer, data>>

\* cg_ulock: wr_lock, called in the intermediate mode
cg_ulock(t) ==
    /\ pc[t] = "inter" /\ Goto(t, "ul_wr")
    /\ UNCHANGED <<mutex, readers, writer, data>>

\* cg_uilock: mutex_unlock
cg_uilock(t) ==
    /\ pc[t] = "inter" /\ Goto(t, "idle")
    /\ mutex_unlock(t)
    /\ UNCHANGED <<readers, writer, data>>

\* cg_dlock: rd_lock; mutex_unlock, called in the intermediate mode
cg_dlock(t) ==
    /\ pc[t] = "inter" /\ Goto(t, "dl_rd")
    /\ UNCHANGED <<mutex, readers, writer, data>>

\* Mutant: a downgrade that gives the mutex up with the write lock.
cg_dwlock_window(t) ==
    /\ pc[t] = "write" /\ Goto(t, "rl_rd")
    /\ rw_unlock(t)
    /\ mutex_unlock(t)
    /\ UNCHANGED data

\* cg_dwlock: wr_unlock; rd_lock; mutex_unlock
cg_dwlock(t) ==
    /\ pc[t] = "write" /\ Goto(t, "dw_rd")
    /\ rw_unlock(t)
    /\ UNCHANGED <<mutex, data>>

\* cg_dwilock: wr_unlock
cg_dwilock(t) ==
    /\ pc[t] = "write" /\ Goto(t, "inter")
    /\ rw_unlock(t)
    /\ UNCHANGED <<mutex, data>>

\* cg_runlock: rd_unlock
cg_runlock(t) ==
    /\ pc[t] = "read" /\ Goto(t, "idle")
    /\ rw_unlock(t)
    /\ UNCHANGED <<mutex, data>>

\* cg_ruwlock: rd_unlock, then cg_wlock
cg_ruwlock(t) ==
    /\ pc[t] = "read" /\ Goto(t, "ru_mu")
    /\ rw_unlock(t)
    /\ UNCHANGED <<mutex, data>>

\* cg_wunlock: wr_unlock; mutex_unlock
cg_wunlock(t) ==
    /\ pc[t] = "write" /\ Goto(t, "wu_mu")
    /\ rw_unlock(t)
    /\ UNCHANGED <<mutex, data>>

\* The rd_lock inside cg_rlock, cg_dlock and cg_dwlock
GetRead(t) ==
    /\ pc[t] \in {"rl_rd", "dl_rd", "dw_rd"} /\ Goto(t, "rd_mu")
    /\ rd_lock(t)
    /\ UNCHANGED <<mutex, data>>

\* The wr_lock inside cg_wlock and cg_ulock
GetWrite(t) ==
    /\ pc[t] \in {"wl_wr", "ul_wr"} /\ Goto(t, "write")
    /\ wr_lock(t)
    /\ UNCHANGED <<mutex, data>>

\* The mutex_unlock that ends cg_rlock, cg_dlock, cg_dwlock and cg_wunlock
DropMutex(t) ==
    /\ \/ pc[t] = "rd_mu" /\ Goto(t, "read")
       \/ pc[t] = "wu_mu" /\ Goto(t, "idle")
    /\ mutex_unlock(t)
    /\ UNCHANGED <<readers, writer, data>>

\* The caller's critical section: a writer changes what the lock protects.
WriteData(t) ==
    /\ pc[t] = "write"
    /\ data' \in Values
    /\ UNCHANGED <<pc, mutex, readers, writer>>

Inside(t) == GetRead(t) \/ GetWrite(t) \/ DropMutex(t)
Release(t) == cg_uilock(t) \/ cg_dlock(t) \/ cg_runlock(t) \/ cg_wunlock(t)
Acquire(t) == cg_rlock(t) \/ cg_ilock(t) \/ cg_wlock(t)
Change(t) == cg_ulock(t) \/ cg_dwlock(t) \/ cg_dwilock(t) \/ cg_ruwlock(t)

Next == \E t \in Threads :
    Inside(t) \/ Release(t) \/ Acquire(t) \/ Change(t) \/ WriteData(t)

Spec == Init /\ [][Next]_vars

(***************************************************************************)
(* A thread inside a cg_* function runs on when its pthread call can       *)
(* return.  The critical sections of cgminer are finite straight-line      *)
(* code, so no caller keeps a lock for ever, not even by promoting and     *)
(* demoting it over and over: hence strong fairness of its release.        *)
(* Nothing is assumed of the order in which pthreads serves the waiters of *)
(* the mutex, nor that anybody wants the lock.                             *)
(***************************************************************************)
Fairness == \A t \in Threads :
    /\ WF_vars(Inside(t))
    /\ SF_vars(Release(t))

FairSpec == Spec /\ Fairness

(***************************************************************************)
(* Which thread holds what, by its pc.  LockInv is the inductive           *)
(* invariant: the mutex and the rwlock agree with where the threads are,   *)
(* and a write lock is only ever held together with the mutex.             *)
(***************************************************************************)
MutexPC == {"inter", "write", "rl_rd", "dl_rd", "wl_wr", "ul_wr", "dw_rd", "rd_mu", "wu_mu"}
ReadPC == {"read", "rd_mu"}

\* The mutex is held by the thread whose pc says so, and by no other; the
\* read lock by those past rd_lock; the write lock by the one in "write",
\* and then nobody reads.
LockInv ==
    /\ TypeOK
    /\ \A t \in Threads : (mutex = t) <=> (pc[t] \in MutexPC)
    /\ \A t \in Threads : (t \in readers) <=> (pc[t] \in ReadPC)
    /\ \A t \in Threads : (writer = t) <=> (pc[t] = "write")
    /\ writer # NoThread => readers = {}

---------------------------------------------------------------------------
\* A thread that holds the mutex is in the intermediate mode until it also
\* holds the rwlock for writing; a reader that kept the mutex is still in it.
ModeOf(t) ==
    IF writer = t THEN "write"
    ELSE IF mutex = t THEN "inter"
    ELSE IF t \in readers THEN "read"
    ELSE "none"

mode == [t \in Threads |-> ModeOf(t)]

Abs == INSTANCE ModeLock
       WITH Threads <- Threads, Values <- Values, mode <- mode, data <- data

\* The cg_* functions implement the three-mode lock of ModeLock: every
\* pthread call is a step of it, or invisible to it.
ImplementsModeLock == Abs!Spec

\* A writer is alone: no other thread is in a critical section of any mode
\* while one is in "write", and at most one thread is in "inter".
Exclusion == \A t, u \in Threads : t # u =>
    /\ pc[t] = "write" => pc[u] \notin {"read", "inter", "write"}
    /\ pc[t] = "inter" => pc[u] # "inter"

\* From its first to its last pthread call on the lock, whatever mode it is
\* in and across cg_ulock, cg_dwlock, cg_dwilock and cg_dlock, a thread sees
\* no change of the data but its own: what a writer wrote is what it reads
\* after its downgrade (gen_stratum_work depends on it).  Only cg_ruwlock
\* may let another writer in.
HoldsStill == [][\A t \in Threads :
    (pc[t] \notin {"idle", "ru_mu"} /\ data' # data) => pc[t] = "write"]_vars

\* A writer that holds the mutex is not starved by readers: those that come
\* later queue on the mutex, and those already in leave.
WriterServed == \A t \in Threads : (pc[t] \in {"wl_wr", "ul_wr"}) ~> (pc[t] = "write")

=============================================================================
