----------------------------- MODULE ModeLock -----------------------------
(***************************************************************************)
(* What cgminer's cglock_t promises its callers (miner.h, the comments on  *)
(* the cg_* functions): a lock held in one of three modes.  Any number of  *)
(* threads may read.  One thread at a time may hold the intermediate       *)
(* variant, which coexists with readers and can be promoted to a write     *)
(* lock or demoted to a read lock.  A writer excludes everybody.  Every    *)
(* acquisition passes through the intermediate mode, which is what makes a *)
(* waiting writer hold back the readers that come after it.                *)
(***************************************************************************)
EXTENDS Naturals

CONSTANTS
    Threads,    \* the threads that share the lock
    Values      \* the values of the data the lock protects

VARIABLES
    mode,       \* the mode in which each thread holds the lock
    data        \* the data the lock protects

vars == <<mode, data>>

Modes == {"none", "read", "inter", "write"}

TypeOK ==
    /\ mode \in [Threads -> Modes]
    /\ data \in Values

Init ==
    /\ mode = [t \in Threads |-> "none"]
    /\ data \in Values

TakeInter(t) ==
    /\ mode[t] = "none"
    /\ \A u \in Threads : mode[u] \in {"none", "read"}
    /\ mode' = [mode EXCEPT ![t] = "inter"]
    /\ UNCHANGED data

DropInter(t) ==
    /\ mode[t] = "inter"
    /\ mode' = [mode EXCEPT ![t] = "none"]
    /\ UNCHANGED data

Promote(t) ==
    /\ mode[t] = "inter"
    /\ \A u \in Threads : mode[u] # "read"
    /\ mode' = [mode EXCEPT ![t] = "write"]
    /\ UNCHANGED data

Demote(t) ==
    /\ mode[t] = "write"
    /\ mode' = [mode EXCEPT ![t] = "inter"]
    /\ UNCHANGED data

InterToRead(t) ==
    /\ mode[t] = "inter"
    /\ mode' = [mode EXCEPT ![t] = "read"]
    /\ UNCHANGED data

DropRead(t) ==
    /\ mode[t] = "read"
    /\ mode' = [mode EXCEPT ![t] = "none"]
    /\ UNCHANGED data

Write(t) ==
    /\ mode[t] = "write"
    /\ data' \in Values
    /\ UNCHANGED mode

Next == \E t \in Threads :
    \/ TakeInter(t) \/ DropInter(t) \/ Promote(t) \/ Demote(t)
    \/ InterToRead(t) \/ DropRead(t) \/ Write(t)

Spec == Init /\ [][Next]_vars

=============================================================================
