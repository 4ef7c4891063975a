-------------------------- MODULE Failover_proofs --------------------------
(***************************************************************************)
(* Proofs about Failover for any number of pools: its types, and that the  *)
(* thread of an idle pool is always trying to bring it back.               *)
(***************************************************************************)
EXTENDS Failover, WellFoundedInduction, TLAPS

ThreadPC == {"test", "run", "restart", "died", "lpcheck", "lpsleep", "lplate", "waiting", "overslept"}

\* A thread that is trying to bring its pool back
Trying == {"test", "restart", "died"}

IdleInv == TypeOK /\ IdleIsRetried

\* A set of natural numbers that is not empty has a least one.
LEMMA Least ==
    ASSUME NEW S, S \subseteq Nat, S # {}
    PROVE  \E i \in S : \A j \in S : i <= j
<1> DEFINE R == OpToRel(<, Nat)
<1>1. IsWellFoundedOn(R, Nat)
  BY NatLessThanWellFounded
<1>2. PICK i \in S : \A j \in S : ~(<<j, i>> \in R)
  <2> HIDE DEF R
  <2> QED BY <1>1, WFMin
<1>3. \A j \in S : i <= j
  <2> TAKE j \in S
  <2>1. i \in Nat /\ j \in Nat
    OBVIOUS
  <2>2. ~(j < i)
    BY <1>2, <2>1 DEF OpToRel
  <2> QED BY <2>1, <2>2
<1> QED BY <1>3

\* switch_pools settles on a pool, whatever is usable.
LEMMA ChosenIsPool ==
    ASSUME NEW cur \in Pools, NEW pr \in [Pools -> Pools], NEW usable \in SUBSET Pools
    PROVE  Chosen(cur, pr, usable) \in Pools
<1> USE PoolsAssumption
<1>1. CASE usable = {}
  BY <1>1 DEF Chosen
<1>2. CASE usable # {} /\ pool_strategy' = "failover"
  <2> DEFINE S == {pr[p] : p \in usable}
  <2>1. S \subseteq Nat /\ S # {}
    <3>1. Pools \subseteq Nat
      BY DEF Pools
    <3>2. \A p \in usable : pr[p] \in Pools
      OBVIOUS
    <3> QED BY <1>2, <3>1, <3>2
  <2>2. PICK i \in S : \A j \in S : i <= j
    <3> HIDE DEF S
    <3> QED BY <2>1, Least
  <2>3. \E p \in usable : \A q \in usable : pr[p] <= pr[q]
    BY <2>2
  <2> QED BY <1>2, <2>3 DEF Chosen
<1>3. CASE usable # {} /\ pool_strategy' # "failover"
  <2> DEFINE next(i) == (cur + i) % total_pools
             ahead == {i \in 1 .. total_pools - 1 : next(i) \in usable}
             first == CHOOSE i \in ahead : \A j \in ahead : i <= j
  <2>1. CASE ahead = {}
    BY <1>3, <2>1 DEF Chosen
  <2>2. CASE ahead # {}
    <3>1. ahead \subseteq Nat
      OBVIOUS
    <3>2. \E i \in ahead : \A j \in ahead : i <= j
      <4> HIDE DEF ahead
      <4> QED BY <2>2, <3>1, Least
    <3>3. first \in ahead
      <4> HIDE DEF ahead
      <4> QED BY <3>2
    <3>4. next(first) \in usable
      <4> HIDE DEF first
      <4> QED BY <3>3
    <3>5. Chosen(cur, pr, usable) = next(first)
      BY <1>3, <2>2 DEF Chosen
    <3> QED BY <3>4, <3>5
  <2> QED BY <2>1, <2>2
<1> QED BY <1>1, <1>2, <1>3

\* What the broadcast on lp_cond does to the threads.
LEMMA BroadcastFacts ==
    ASSUME NEW th \in [Pools -> ThreadPC], BroadcastLp(th)
    PROVE  /\ thread' \in [Pools -> ThreadPC]
           /\ \A p \in Pools : th[p] \in Trying => thread'[p] = th[p]
  BY DEF BroadcastLp, ThreadPC, Trying

\* switch_pools keeps the types it writes, and moves no thread but those that
\* wait in wait_lpcurrent or are about to.
LEMMA SwitchFacts ==
    ASSUME TypeOK, NEW cur \in Pools, NEW th \in [Pools -> ThreadPC],
           prio' \in [Pools -> Pools], switch_pools(cur, th)
    PROVE  /\ currentpool' \in Pools /\ staged' \in SUBSET Pools
           /\ thread' \in [Pools -> ThreadPC]
           /\ \A p \in Pools : th[p] \in Trying => thread'[p] = th[p]
<1> DEFINE usable == {p \in Pools : UsableIf(p, idle', enabled', active')}
<1>1. usable \in SUBSET Pools
  OBVIOUS
<1>2. Leave(cur, Chosen(cur, prio', usable)) /\ BroadcastLp(th)
  BY DEF switch_pools
<1>3. Chosen(cur, prio', usable) \in Pools
  <2> HIDE DEF usable
  <2> QED BY <1>1, ChosenIsPool
<1>4. currentpool' \in Pools /\ staged' \in SUBSET Pools
  <2> HIDE DEF usable
  <2> QED BY <1>2, <1>3 DEF Leave, TypeOK
<1> QED BY <1>2, <1>4, BroadcastFacts

\* Adding the selected pool in front keeps every priority a number of a pool.
LEMMA PrioFirstType ==
    ASSUME TypeOK, NEW p \in Pools, PrioFirst(p)
    PROVE  prio' \in [Pools -> Pools]
<1>1. \A q \in Pools : prio[q] \in Pools
  BY DEF TypeOK
<1>2. 0 \in Pools
  BY PoolsAssumption DEF Pools
<1>3. \A q \in Pools : prio[q] < prio[p] => prio[q] + 1 \in Pools
  BY <1>1, PoolsAssumption DEF Pools
<1> QED BY <1>1, <1>2, <1>3 DEF PrioFirst

\* switch_pools is given the current pool or, at the start, the first that is
\* alive, and the threads as the step before leaves them.
LEMMA SelectedFacts ==
    ASSUME TypeOK, NEW p \in Pools, switch_selected(p)
    PROVE  /\ prio' \in [Pools -> Pools]
           /\ currentpool' \in Pools /\ staged' \in SUBSET Pools
           /\ thread' \in [Pools -> ThreadPC]
           /\ \A q \in Pools : thread[q] \in Trying => thread'[q] = thread[q]
<1>1. prio' \in [Pools -> Pools]
  BY PrioFirstType DEF switch_selected
<1>2. thread \in [Pools -> ThreadPC] /\ currentpool \in Pools /\ staged \in SUBSET Pools
  BY DEF TypeOK, ThreadPC
<1>3. CASE pool_strategy # "failover" /\ ~idle[p]
  <2>1. Leave(currentpool, p) /\ BroadcastLp(thread)
    BY <1>3 DEF switch_selected
  <2>2. currentpool' \in Pools /\ staged' \in SUBSET Pools
    BY <1>2, <2>1 DEF Leave
  <2> QED BY <1>1, <1>2, <2>1, <2>2, BroadcastFacts
<1>4. CASE ~(pool_strategy # "failover" /\ ~idle[p])
  <2>1. switch_pools(currentpool, thread)
    BY <1>4 DEF switch_selected
  <2> QED BY <1>1, <1>2, <2>1, SwitchFacts
<1> QED BY <1>3, <1>4

\* The parts of the state that a step may change, typed.
LEMMA Moving ==
    ASSUME TypeOK, NEW p \in Pools, NEW to \in ThreadPC
    PROVE  /\ Moved(p, to) \in [Pools -> ThreadPC]
           /\ Moved(p, to)[p] = to
           /\ \A q \in Pools \ {p} : Moved(p, to)[q] = thread[q]
  BY DEF TypeOK, ThreadPC, Moved

LEMMA NextIdleInv == IdleInv /\ [Next]_vars => IdleInv'
<1> SUFFICES ASSUME IdleInv, [Next]_vars
             PROVE  IdleInv'
  OBVIOUS
<1> USE DEF Trying
<1>0. TypeOK /\ IdleIsRetried
  BY DEF IdleInv
<1>t. /\ thread \in [Pools -> ThreadPC] /\ currentpool \in Pools
      /\ prio \in [Pools -> Pools] /\ staged \in SUBSET Pools
  BY <1>0 DEF TypeOK, ThreadPC
<1>i. idle \in [Pools -> BOOLEAN] /\ active \in [Pools -> BOOLEAN] /\ stable \in [Pools -> BOOLEAN]
  BY <1>0 DEF TypeOK
\* A call of switch_pools after which the idle pools are still being tried
<1>s. ASSUME NEW cur \in Pools, NEW th \in [Pools -> ThreadPC], switch_pools(cur, th),
             prio' \in [Pools -> Pools], idle' \in [Pools -> BOOLEAN],
             \A q \in Pools : idle'[q] => th[q] \in Trying
      PROVE  /\ currentpool' \in Pools /\ staged' \in SUBSET Pools
             /\ thread' \in [Pools -> ThreadPC] /\ IdleIsRetried'
  <2>1. /\ currentpool' \in Pools /\ staged' \in SUBSET Pools
        /\ thread' \in [Pools -> ThreadPC]
        /\ \A p \in Pools : th[p] \in Trying => thread'[p] = th[p]
    BY <1>0, <1>s, SwitchFacts
  <2>2. \A q \in Pools : idle'[q] => thread'[q] \in Trying
    BY <1>s, <2>1
  <2> QED BY <2>1, <2>2 DEF IdleIsRetried
\* The same call from a step that leaves idle and the threads alone
<1>u. ASSUME switch_pools(currentpool, thread), prio' = prio, idle' = idle
      PROVE  /\ currentpool' \in Pools /\ staged' \in SUBSET Pools
             /\ thread' \in [Pools -> ThreadPC] /\ IdleIsRetried'
  BY <1>0, <1>t, <1>i, <1>u, <1>s DEF IdleIsRetried
<1>1. ASSUME NEW p \in Pools, ThreadStep(p)
      PROVE  IdleInv'
  <2>1. CASE TestOk(p)
    <3> DEFINE cur == IF pools_active THEN currentpool ELSE p
               th == Moved(p, "run")
    <3>1. /\ idle' = [idle EXCEPT ![p] = FALSE] /\ active' = [active EXCEPT ![p] = TRUE]
          /\ UNCHANGED <<env, prio, enabled, stable, no_work>> /\ pools_active' = TRUE
          /\ switch_pools(cur, th)
      BY <2>1 DEF TestOk
    <3>2. th \in [Pools -> ThreadPC] /\ \A q \in Pools \ {p} : th[q] = thread[q]
      BY <1>0, Moving DEF ThreadPC
    <3>3. idle' \in [Pools -> BOOLEAN] /\ ~idle'[p] /\ \A q \in Pools \ {p} : idle'[q] = idle[q]
      BY <1>i, <3>1
    <3>4. \A q \in Pools : idle'[q] => th[q] \in Trying
      BY <1>0, <3>2, <3>3 DEF IdleIsRetried
    <3>5. /\ currentpool' \in Pools /\ staged' \in SUBSET Pools
          /\ thread' \in [Pools -> ThreadPC] /\ IdleIsRetried'
      <4> HIDE DEF th
      <4> QED BY <1>s, <1>t, <3>1, <3>2, <3>3, <3>4
    <3> QED BY <1>0, <3>1, <3>3, <3>5 DEF IdleInv, TypeOK, ThreadPC, env
  <2>2. CASE Interrupted(p)
    BY <1>0, <2>2 DEF Interrupted, Goes, IdleInv, TypeOK, IdleIsRetried, env
  <2>3. CASE RestartOk(p)
    BY <1>0, <2>3 DEF RestartOk, Goes, IdleInv, TypeOK, IdleIsRetried, env, workVars
  <2>4. CASE PoolDied(p)
    BY <1>0, <2>4 DEF PoolDied, Goes, IdleInv, TypeOK, IdleIsRetried, env, workVars
  <2>5. CASE DiedSwitch(p)
    <3>1. UNCHANGED <<env, poolVars, pools_active, no_work>> /\ thread[p] = "died"
      BY <2>5 DEF DiedSwitch
    <3>2. CASE p = currentpool
      <4> DEFINE th == Moved(p, "restart")
      <4>1. switch_pools(currentpool, th)
        BY <2>5, <3>2 DEF DiedSwitch
      <4>2. /\ th \in [Pools -> ThreadPC] /\ th[p] = "restart"
            /\ \A q \in Pools \ {p} : th[q] = thread[q]
        BY <1>0, Moving DEF ThreadPC
      <4>3. \A q \in Pools : idle'[q] => th[q] \in Trying
        BY <1>0, <3>1, <4>2 DEF IdleIsRetried, poolVars
      <4>4. /\ currentpool' \in Pools /\ staged' \in SUBSET Pools
            /\ thread' \in [Pools -> ThreadPC] /\ IdleIsRetried'
        <5> HIDE DEF th
        <5> QED BY <1>s, <1>t, <1>i, <3>1, <4>1, <4>2, <4>3 DEF poolVars
      <4> QED BY <1>0, <3>1, <4>4 DEF IdleInv, TypeOK, ThreadPC, env, poolVars
    <3>3. CASE p # currentpool
      BY <1>0, <2>5, <3>1, <3>3 DEF DiedSwitch, Goes, IdleInv, TypeOK, IdleIsRetried, env, poolVars
    <3> QED BY <3>2, <3>3
  <2>6. CASE Unneeded(p)
    BY <1>0, <2>6 DEF Unneeded, Goes, IdleInv, TypeOK, IdleIsRetried, env
  <2>7. CASE LpCheck(p)
    BY <1>0, <2>7 DEF LpCheck, Goes, IdleInv, TypeOK, IdleIsRetried, env, poolVars, workVars
  <2>8. CASE LpSleep(p)
    BY <1>0, <2>8 DEF LpSleep, Goes, IdleInv, TypeOK, IdleIsRetried, env, poolVars, workVars
  <2> QED BY <1>1, <2>1, <2>2, <2>3, <2>4, <2>5, <2>6, <2>7, <2>8 DEF ThreadStep
<1>2. ASSUME NEW p \in Pools, WatchPool(p)
      PROVE  IdleInv'
  <2>1. /\ UNCHANGED <<env, prio, enabled, active, pools_active, no_work>>
        /\ \/ idle' = [idle EXCEPT ![p] = FALSE] /\ UNCHANGED stable
           \/ stable' = [stable EXCEPT ![p] = FALSE] /\ UNCHANGED idle
    BY <1>2 DEF WatchPool
  <2>2. idle' \in [Pools -> BOOLEAN] /\ \A q \in Pools : idle'[q] => idle[q]
    BY <1>i, <2>1
  <2>3. \A q \in Pools : idle'[q] => thread[q] \in Trying
    BY <1>0, <2>2 DEF IdleIsRetried
  <2>4. switch_pools(currentpool, thread) \/ NoSwitch
    BY <1>2 DEF WatchPool
  <2>5. /\ currentpool' \in Pools /\ staged' \in SUBSET Pools
        /\ thread' \in [Pools -> ThreadPC] /\ IdleIsRetried'
    <3>1. CASE switch_pools(currentpool, thread)
      BY <1>s, <1>t, <2>1, <2>2, <2>3, <3>1
    <3>2. CASE NoSwitch
      BY <1>t, <2>3, <3>2 DEF NoSwitch, IdleIsRetried
    <3> QED BY <2>4, <3>1, <3>2
  <2>6. stable' \in [Pools -> BOOLEAN]
    BY <1>i, <2>1
  <2> QED BY <1>0, <2>1, <2>2, <2>5, <2>6 DEF IdleInv, TypeOK, ThreadPC, env
<1>3. CASE WatchCurrent \/ WatchRotate \/ SeekPool \/ RemoveCurrent
  <2>1. UNCHANGED <<env, poolVars, pools_active, no_work>> /\ switch_pools(currentpool, thread)
    BY <1>3 DEF WatchCurrent, WatchRotate, SeekPool, RemoveCurrent
  <2>2. prio' = prio /\ idle' = idle
    BY <2>1 DEF poolVars
  <2> QED BY <1>0, <1>u, <2>1, <2>2 DEF IdleInv, TypeOK, ThreadPC, env, poolVars
<1>4. ASSUME NEW p \in Pools, Stabilise(p)
      PROVE  IdleInv'
  BY <1>0, <1>4 DEF Stabilise, IdleInv, TypeOK, IdleIsRetried, env, workVars
<1>5. CASE MakeWork \/ HashPop
  <2>1. UNCHANGED <<env, poolVars, thread, currentpool, pools_active>> /\ staged' \in SUBSET Pools
    BY <1>t, <1>5 DEF MakeWork, HashPop
  <2>2. no_work' \in BOOLEAN
    BY <1>0, <1>5 DEF MakeWork, HashPop, TypeOK
  <2> QED BY <1>0, <2>1, <2>2 DEF IdleInv, TypeOK, IdleIsRetried, env, poolVars
<1>6. ASSUME NEW p \in Pools, RejectPool(p) \/ AcceptPool(p) \/ DisablePool(p)
      PROVE  IdleInv'
  <2>1. /\ UNCHANGED <<env, prio, idle, active, stable, pools_active, no_work>>
        /\ \E e \in {"enabled", "disabled", "rejecting"} : enabled' = [enabled EXCEPT ![p] = e]
        /\ switch_pools(currentpool, thread) \/ NoSwitch
    BY <1>6 DEF RejectPool, AcceptPool, DisablePool
  <2>2. /\ currentpool' \in Pools /\ staged' \in SUBSET Pools
        /\ thread' \in [Pools -> ThreadPC] /\ IdleIsRetried'
    <3>1. CASE switch_pools(currentpool, thread)
      BY <1>u, <2>1, <3>1
    <3>2. CASE NoSwitch
      BY <1>0, <1>t, <2>1, <3>2 DEF NoSwitch, IdleIsRetried
    <3> QED BY <2>1, <3>1, <3>2
  <2>3. enabled' \in [Pools -> {"enabled", "disabled", "rejecting"}]
    <3>1. enabled \in [Pools -> {"enabled", "disabled", "rejecting"}]
      BY <1>0 DEF TypeOK
    <3>2. PICK e \in {"enabled", "disabled", "rejecting"} : enabled' = [enabled EXCEPT ![p] = e]
      BY <2>1
    <3> QED BY <3>1, <3>2
  <2>4. UNCHANGED <<env, prio, idle, active, stable, pools_active, no_work>>
    BY <2>1
  <2> QED BY <1>0, <2>2, <2>3, <2>4 DEF IdleInv, TypeOK, ThreadPC, env
<1>7. ASSUME NEW p \in Pools, EnablePool(p) \/ SwitchPool(p)
      PROVE  IdleInv'
  <2>1. /\ UNCHANGED <<env, idle, active, stable, pools_active, no_work>>
        /\ enabled' = [enabled EXCEPT ![p] = "enabled"]
        /\ switch_selected(p) \/ (UNCHANGED prio /\ NoSwitch)
    BY <1>7 DEF EnablePool, SwitchPool
  <2>2. /\ prio' \in [Pools -> Pools] /\ currentpool' \in Pools /\ staged' \in SUBSET Pools
        /\ thread' \in [Pools -> ThreadPC]
        /\ \A q \in Pools : thread[q] \in Trying => thread'[q] = thread[q]
    <3>1. CASE switch_selected(p)
      BY <1>0, <3>1, SelectedFacts
    <3>2. CASE UNCHANGED prio /\ NoSwitch
      BY <1>t, <3>2 DEF NoSwitch
    <3> QED BY <2>1, <3>1, <3>2
  <2>3. IdleIsRetried'
    BY <1>0, <2>1, <2>2 DEF IdleIsRetried
  <2> QED BY <1>0, <2>1, <2>2, <2>3 DEF IdleInv, TypeOK, ThreadPC, env
<1>8. ASSUME NEW s \in Strategies, ChangeStrategy(s)
      PROVE  IdleInv'
  <2>1. /\ pool_strategy' = s /\ UNCHANGED <<reachable, poolVars, pools_active, no_work>>
        /\ switch_pools(currentpool, thread)
    BY <1>8 DEF ChangeStrategy
  <2>2. prio' = prio /\ idle' = idle
    BY <2>1 DEF poolVars
  <2> QED BY <1>0, <1>u, <2>1, <2>2 DEF IdleInv, TypeOK, ThreadPC, poolVars
<1>9. ASSUME NEW p \in Pools, ServerChange(p)
      PROVE  IdleInv'
  BY <1>0, <1>9 DEF ServerChange, IdleInv, TypeOK, IdleIsRetried, poolVars, workVars
<1>10. CASE PoolPriority
  <2>1. /\ prio' \in [Pools -> Pools]
        /\ UNCHANGED <<env, enabled, idle, active, stable, pools_active, no_work>>
        /\ switch_pools(currentpool, thread) \/ NoSwitch
    BY <1>10 DEF PoolPriority
  <2>2. idle' = idle /\ \A q \in Pools : idle'[q] => thread[q] \in Trying
    BY <1>0, <2>1 DEF IdleIsRetried
  <2>3. /\ currentpool' \in Pools /\ staged' \in SUBSET Pools
        /\ thread' \in [Pools -> ThreadPC] /\ IdleIsRetried'
    <3>1. CASE switch_pools(currentpool, thread)
      BY <1>s, <1>t, <1>i, <2>1, <2>2, <3>1
    <3>2. CASE NoSwitch
      BY <1>0, <1>t, <2>1, <3>2 DEF NoSwitch, IdleIsRetried
    <3> QED BY <2>1, <3>1, <3>2
  <2> QED BY <1>0, <2>1, <2>3 DEF IdleInv, TypeOK, ThreadPC, env
<1>11. CASE UNCHANGED vars
  BY <1>0, <1>11 DEF IdleInv, TypeOK, IdleIsRetried, vars, env, poolVars, workVars
<1> QED BY <1>1, <1>2, <1>3, <1>4, <1>5, <1>6, <1>7, <1>8, <1>9, <1>10, <1>11 DEF Next

LEMMA InitIdleInv == Init => IdleInv
<1> SUFFICES ASSUME Init PROVE IdleInv
  OBVIOUS
<1>1. 0 \in Pools
  BY PoolsAssumption DEF Pools
<1>2. prio \in [Pools -> Pools]
  BY DEF Init
<1> QED BY <1>1, <1>2 DEF Init, IdleInv, TypeOK, IdleIsRetried

\* The types of the failover module and IdleIsRetried, whatever servers, the
\* operator and the strategy do, for any number of pools.
THEOREM FailoverInvariant == Spec => []IdleInv
<1>1. Init => IdleInv
  BY InitIdleInv
<1>2. IdleInv /\ [Next]_vars => IdleInv'
  BY NextIdleInv
<1> QED BY <1>1, <1>2, PTL DEF Spec

\* cgminer.c:7504: an idle pool is always being tried by its own thread, so
\* that no pool is forgotten when its server comes back.
THEOREM IdleIsRetriedHolds == Spec => []IdleIsRetried
<1>1. IdleInv => IdleIsRetried
  BY DEF IdleInv
<1> QED BY <1>1, FailoverInvariant, PTL

\* Among the types of the state: whoever calls switch_pools (cgminer.c:5745), the
\* current pool is one of the pools, and the priorities remain a map to them.
THEOREM TypeOKHolds == Spec => []TypeOK
<1>1. IdleInv => TypeOK
  BY DEF IdleInv
<1> QED BY <1>1, FailoverInvariant, PTL

=============================================================================
