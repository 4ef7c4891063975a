------------------------------ MODULE Failover ------------------------------
(***************************************************************************)
(* How cgminer moves between stratum pools.  switch_pools picks the        *)
(* current pool; the thread of each pool (test_pool_thread until the pool  *)
(* answers, then stratum_rthread) keeps its connection, gives it up while  *)
(* cnx_needed says that it is not needed, and then sleeps on lp_cond in    *)
(* wait_lpcurrent; watchpool_thread, the getwork scheduler and the miners  *)
(* see to it that a pool that is needed is woken and used.                 *)
(*                                                                         *)
(* The pools are stratum pools and the strategy is failover, round robin   *)
(* or rotate, which the operator may change.  One item of work is staged   *)
(* at a time.  Choosing the pool and making the work is one step.          *)
(*                                                                         *)
(* The section of switch_pools under control_lock is one step together     *)
(* with the broadcast after it.  stratum_active and stratum_notify are one *)
(* flag.  The list of pools does not change here, and no shares are        *)
(* awaited: PoolList and StratumShares have those.  PoolList also has the  *)
(* single writes of poolpriority, which is one step here, and how          *)
(* enabled_pools drifts from the number of enabled pools, so that its      *)
(* guards, but for the one pool of a list of one, may pass at any time.    *)
(***************************************************************************)
EXTENDS Integers

CONSTANTS
    total_pools,        \* pools are numbered 0 .. total_pools - 1
    opt_disable_pool    \* --disable-rejecting

ASSUME PoolsAssumption == total_pools \in Nat \ {0}
ASSUME OptionAssumption == opt_disable_pool \in BOOLEAN

Pools == 0 .. total_pools - 1

VARIABLES
    reachable,      \* whether the server of each pool answers
    pool_strategy,
    prio, enabled, idle,        \* of each struct pool
    active,         \* pool->stratum_active and stratum_notify
    stable,         \* more than opt_pool_fallback seconds since pool->tv_idle
    thread,         \* where the thread of each pool is
    currentpool, pools_active,
    staged,         \* the pools that the staged work is from
    no_work         \* a miner waited for work in vain

env == <<reachable, pool_strategy>>
poolVars == <<prio, enabled, idle, active, stable>>
workVars == <<staged, no_work>>
vars == <<env, poolVars, thread, currentpool, pools_active, workVars>>

Strategies == {"failover", "roundrobin", "rotate"}

\* pool_unusable, with its arguments for the state after a step
UsableIf(p, id, en, ac) == ~id[p] /\ en[p] = "enabled" /\ ac[p]
pool_unusable(p) == ~UsableIf(p, idle, enabled, active)

\* Mutant: running out of work brings no pool back.
cnx_needed_proud(p) ==
    /\ enabled[p] = "enabled"
    /\ \/ idle[p]
       \/ currentpool = p
       \/ pool_strategy = "failover" /\ prio[p] < prio[currentpool]

\* cnx_needed
cnx_needed(p) ==
    /\ enabled[p] = "enabled"
    /\ \/ idle[p]
       \/ currentpool = p
       \/ pool_strategy = "failover" /\ prio[p] < prio[currentpool]
       \/ no_work

---------------------------------------------------------------------------
\* At startup every pool is probed by a thread of its own.
Init ==
    /\ reachable \in [Pools -> BOOLEAN]
    /\ prio = [p \in Pools |-> p]
    /\ enabled = [p \in Pools |-> "enabled"]
    /\ idle = [p \in Pools |-> TRUE]
    /\ active = [p \in Pools |-> FALSE]
    /\ stable = [p \in Pools |-> FALSE]
    /\ thread = [p \in Pools |-> "test"]
    /\ currentpool = 0 /\ pools_active = FALSE /\ pool_strategy \in Strategies
    /\ staged = {} /\ no_work = FALSE

---------------------------------------------------------------------------
(* switch_pools *)

\* The pool it settles on, coming from cur: the usable pool that is first in
\* priority, or next in number after cur; cur if there is none.
Chosen(cur, pr, usable) ==
    IF usable = {} THEN cur
    ELSE IF pool_strategy' = "failover"
         THEN CHOOSE p \in usable : \A q \in usable : pr[p] <= pr[q]
         ELSE LET next(i) == (cur + i) % total_pools
                  ahead == {i \in 1 .. total_pools - 1 : next(i) \in usable}
              IN IF ahead = {} THEN cur
                 ELSE next(CHOOSE i \in ahead : \A j \in ahead : i <= j)

\* Mutant: nobody waiting in wait_lpcurrent is woken.
BroadcastLp_missing(th) == thread' = th

\* pthread_cond_broadcast(&lp_cond), after the steps the caller makes: threads
\* that sleep look again, and one that is about to sleep misses it.
BroadcastLp(th) ==
    thread' = [p \in Pools |->
                  IF th[p] \in {"waiting", "overslept"} THEN "lpcheck"
                  ELSE IF th[p] = "lpsleep" THEN "lplate" ELSE th[p]]

\* A pool that is left loses its staged work.
Leave(cur, new) ==
    /\ currentpool' = new
    /\ staged' = IF new = cur THEN staged ELSE staged \ {cur}

\* switch_pools(NULL), from a step that sets idle, enabled and active before
switch_pools(cur, th) ==
    /\ Leave(cur, Chosen(cur, prio', {p \in Pools : UsableIf(p, idle', enabled', active')}))
    /\ BroadcastLp(th)

NoSwitch == UNCHANGED <<currentpool, staged, thread>>

\* switch_pools(selected): the selected pool gets the first priority.
PrioFirst(p) ==
    prio' = [q \in Pools |-> IF q = p THEN 0 ELSE IF prio[q] < prio[p] THEN prio[q] + 1 ELSE prio[q]]

switch_selected(p) ==
    /\ PrioFirst(p)
    /\ IF pool_strategy # "failover" /\ ~idle[p]
          THEN Leave(currentpool, p) /\ BroadcastLp(thread)
          ELSE switch_pools(currentpool, thread)

---------------------------------------------------------------------------
(* The thread of a pool *)

Goes(p, from, to) == thread[p] = from /\ thread' = [thread EXCEPT ![p] = to]
Moved(p, to) == [thread EXCEPT ![p] = to]

\* test_pool_thread: the pool is alive.  The first one to be becomes current.
TestOk(p) ==
    /\ thread[p] = "test" /\ reachable[p]
    /\ idle' = [idle EXCEPT ![p] = FALSE]
    /\ active' = [active EXCEPT ![p] = TRUE]
    /\ UNCHANGED <<env, prio, enabled, stable, no_work>>
    /\ pools_active' = TRUE
    /\ switch_pools(IF pools_active THEN currentpool ELSE p, Moved(p, "run"))

\* stratum_rthread: the connection breaks.
Interrupted(p) ==
    /\ Goes(p, "run", "restart") /\ ~reachable[p]
    /\ active' = [active EXCEPT ![p] = FALSE]
    /\ staged' = staged \ {p}
    /\ UNCHANGED <<env, prio, enabled, idle, stable, currentpool, pools_active, no_work>>

\* Mutant: the connection is back and the pool still idle.
RestartOk_idle(p) ==
    /\ Goes(p, "restart", "run") /\ reachable[p]
    /\ active' = [active EXCEPT ![p] = TRUE]
    /\ UNCHANGED <<env, prio, enabled, idle, stable, currentpool, pools_active, workVars>>

\* restart_stratum succeeds; stratum_resumed clears idle.
RestartOk(p) ==
    /\ Goes(p, "restart", "run") /\ reachable[p]
    /\ active' = [active EXCEPT ![p] = TRUE]
    /\ idle' = [idle EXCEPT ![p] = FALSE]
    /\ UNCHANGED <<env, prio, enabled, stable, currentpool, pools_active, workVars>>

\* restart_stratum fails.  The first time pool_died marks the pool idle, ...
PoolDied(p) ==
    /\ Goes(p, "restart", "died") /\ ~reachable[p] /\ ~idle[p]
    /\ idle' = [idle EXCEPT ![p] = TRUE]
    /\ stable' = [stable EXCEPT ![p] = FALSE]
    /\ UNCHANGED <<env, prio, enabled, active, currentpool, pools_active, workVars>>

\* ... and leaves it for another one if it is current.
DiedSwitch(p) ==
    /\ thread[p] = "died"
    /\ UNCHANGED <<env, poolVars, pools_active, no_work>>
    /\ IF p = currentpool
          THEN switch_pools(currentpool, Moved(p, "restart"))
          ELSE Goes(p, "died", "restart") /\ UNCHANGED <<currentpool, staged>>

\* The connection is not needed: it is closed.
Unneeded(p) ==
    /\ Goes(p, "run", "lpcheck") /\ ~cnx_needed(p)
    /\ active' = [active EXCEPT ![p] = FALSE]
    /\ staged' = staged \ {p}
    /\ UNCHANGED <<env, prio, enabled, idle, stable, currentpool, pools_active, no_work>>

\* wait_lpcurrent looks at the pool without a lock, ...
LpCheck(p) ==
    /\ Goes(p, "lpcheck", IF ~cnx_needed(p) /\ (enabled[p] = "disabled" \/ p # currentpool)
                          THEN "lpsleep" ELSE "restart")
    /\ UNCHANGED <<env, poolVars, currentpool, pools_active, workVars>>

\* ... and sleeps on lp_cond later, when a broadcast may have been missed.
LpSleep(p) ==
    /\ Goes(p, "lpsleep", "waiting") \/ Goes(p, "lplate", "overslept")
    /\ UNCHANGED <<env, poolVars, currentpool, pools_active, workVars>>

ThreadStep(p) ==
    \/ TestOk(p) \/ Interrupted(p) \/ RestartOk(p) \/ PoolDied(p) \/ DiedSwitch(p)
    \/ Unneeded(p) \/ LpCheck(p) \/ LpSleep(p)

---------------------------------------------------------------------------
(* watchpool_thread *)

\* Mutant: the watchpool does not fail back to a better pool.
WatchPool_stays(p) ==
    /\ enabled[p] # "disabled" /\ thread[p] # "test"
    /\ UNCHANGED <<env, prio, enabled, active, pools_active, no_work>>
    /\ IF active[p]
          THEN idle' = [idle EXCEPT ![p] = FALSE] /\ UNCHANGED stable
          ELSE stable' = [stable EXCEPT ![p] = FALSE] /\ UNCHANGED idle
    /\ NoSwitch

\* One pool of its round: a pool that is connected is alive.  A better pool
\* that has been so for a while is moved back to.
WatchPool(p) ==
    /\ enabled[p] # "disabled" /\ thread[p] # "test"
    /\ UNCHANGED <<env, prio, enabled, active, pools_active, no_work>>
    /\ IF active[p]
          THEN idle' = [idle EXCEPT ![p] = FALSE] /\ UNCHANGED stable
          ELSE stable' = [stable EXCEPT ![p] = FALSE] /\ UNCHANGED idle
    /\ IF ~idle'[p] /\ pool_strategy = "failover" /\ prio[p] < prio[currentpool] /\ stable'[p]
          THEN switch_pools(currentpool, thread)
          ELSE NoSwitch

\* The end of the round: the current pool is idle.
WatchCurrent ==
    /\ idle[currentpool]
    /\ UNCHANGED <<env, poolVars, pools_active, no_work>>
    /\ switch_pools(currentpool, thread)

\* The end of the round: the rotate period has passed.
WatchRotate ==
    /\ pool_strategy = "rotate"
    /\ UNCHANGED <<env, poolVars, pools_active, no_work>>
    /\ switch_pools(currentpool, thread)

\* opt_pool_fallback seconds go by.
Stabilise(p) ==
    /\ ~stable[p]
    /\ stable' = [stable EXCEPT ![p] = TRUE]
    /\ UNCHANGED <<env, prio, enabled, idle, active, thread, currentpool, pools_active, workVars>>

---------------------------------------------------------------------------
(* The getwork scheduler and the miners *)

\* main: work is made from the current pool, ...
MakeWork ==
    /\ pools_active /\ staged = {} /\ ~pool_unusable(currentpool)
    /\ staged' = {currentpool}
    /\ UNCHANGED <<env, poolVars, thread, currentpool, pools_active, no_work>>

\* ... or another pool is sought, over and over.
SeekPool ==
    /\ pools_active /\ staged = {} /\ pool_unusable(currentpool)
    /\ UNCHANGED <<env, poolVars, pools_active, no_work>>
    /\ switch_pools(currentpool, thread)

\* hash_pop takes the work, or has waited ten seconds for some.
HashPop ==
    /\ staged' = {} /\ no_work' = (staged = {})
    /\ UNCHANGED <<env, poolVars, thread, currentpool, pools_active>>

---------------------------------------------------------------------------
(* Rejected shares, the operator and the servers *)

\* share_result: the pool rejected share after share.  It need not be enabled.
RejectPool(p) ==
    /\ opt_disable_pool /\ thread[p] = "run" /\ total_pools > 1
    /\ enabled' = [enabled EXCEPT ![p] = "rejecting"]
    /\ UNCHANGED <<env, prio, idle, active, stable, pools_active, no_work>>
    /\ IF p = currentpool THEN switch_pools(currentpool, thread) ELSE NoSwitch

\* share_result: a rejecting pool accepts a share again.
AcceptPool(p) ==
    /\ thread[p] = "run" /\ enabled[p] = "rejecting"
    /\ enabled' = [enabled EXCEPT ![p] = "enabled"]
    /\ UNCHANGED <<env, prio, idle, active, stable, pools_active, no_work>>
    /\ switch_pools(currentpool, thread)

\* The menu of the display and the API: [D]isable and disablepool, ...
DisablePool(p) ==
    /\ total_pools > 1
    /\ enabled' = [enabled EXCEPT ![p] = "disabled"]
    /\ UNCHANGED <<env, prio, idle, active, stable, pools_active, no_work>>
    /\ IF p = currentpool THEN switch_pools(currentpool, thread) ELSE NoSwitch

\* ... [E]nable, of a pool that may be enabled already, and enablepool, ...
EnablePool(p) ==
    /\ enabled' = [enabled EXCEPT ![p] = "enabled"]
    /\ UNCHANGED <<env, idle, active, stable, pools_active, no_work>>
    /\ IF prio[p] < prio[currentpool] THEN switch_selected(p) ELSE UNCHANGED prio /\ NoSwitch

\* ... [S]witch and switchpool, ...
SwitchPool(p) ==
    /\ enabled' = [enabled EXCEPT ![p] = "enabled"]
    /\ UNCHANGED <<env, idle, active, stable, pools_active, no_work>>
    /\ switch_selected(p)

\* ... poolpriority, ...
PoolPriority ==
    /\ prio' \in {pr \in [Pools -> Pools] : \A p, q \in Pools : pr[p] = pr[q] => p = q}
    /\ UNCHANGED <<env, enabled, idle, active, stable, pools_active, no_work>>
    /\ IF prio'[currentpool] # 0 THEN switch_pools(currentpool, thread) ELSE NoSwitch

\* ... [R]emove and removepool of the current pool, which leave it first.  They
\* go no further when it is current still or again.
RemoveCurrent ==
    /\ total_pools > 1
    /\ UNCHANGED <<env, poolVars, pools_active, no_work>>
    /\ switch_pools(currentpool, thread)

\* [C]hange management strategy
ChangeStrategy(s) ==
    /\ pool_strategy' = s
    /\ UNCHANGED <<reachable, poolVars, pools_active, no_work>>
    /\ switch_pools(currentpool, thread)

\* A server comes or goes.
ServerChange(p) ==
    /\ reachable' = [reachable EXCEPT ![p] = ~@]
    /\ UNCHANGED <<pool_strategy, poolVars, thread, currentpool, pools_active, workVars>>

---------------------------------------------------------------------------
Next ==
    \/ \E p \in Pools :
        \/ ThreadStep(p) \/ WatchPool(p) \/ Stabilise(p)
        \/ RejectPool(p) \/ AcceptPool(p) \/ ServerChange(p)
        \/ DisablePool(p) \/ EnablePool(p) \/ SwitchPool(p)
    \/ WatchCurrent \/ WatchRotate \/ MakeWork \/ SeekPool \/ HashPop
    \/ PoolPriority \/ RemoveCurrent \/ \E s \in Strategies : ChangeStrategy(s)

Spec == Init /\ [][Next]_vars

(***************************************************************************)
(* The threads run: the watchpool comes round every five seconds, the      *)
(* scheduler seeks a pool every five milliseconds, hash_pop looks again    *)
(* after ten seconds, and time passes.  Work is made within milliseconds   *)
(* of the current pool being usable, connections come and go in seconds:   *)
(* hence strong fairness of MakeWork.  Servers, rejections and the         *)
(* operator may do anything or nothing.                                    *)
(***************************************************************************)
FairSpec ==
    /\ Spec
    /\ \A p \in Pools : WF_vars(ThreadStep(p)) /\ WF_vars(WatchPool(p)) /\ WF_vars(Stabilise(p))
    /\ WF_vars(WatchCurrent) /\ SF_vars(MakeWork) /\ WF_vars(SeekPool) /\ WF_vars(HashPop)

---------------------------------------------------------------------------
TypeOK ==
    /\ reachable \in [Pools -> BOOLEAN]
    /\ prio \in [Pools -> Pools]
    /\ enabled \in [Pools -> {"enabled", "disabled", "rejecting"}]
    /\ idle \in [Pools -> BOOLEAN] /\ active \in [Pools -> BOOLEAN] /\ stable \in [Pools -> BOOLEAN]
    /\ thread \in [Pools -> {"test", "run", "restart", "died", "lpcheck", "lpsleep", "lplate", "waiting", "overslept"}]
    /\ currentpool \in Pools
    /\ pool_strategy \in Strategies
    /\ pools_active \in BOOLEAN /\ staged \in SUBSET Pools /\ no_work \in BOOLEAN

\* What is reachable and enabled for good
Steady(p) == <>[](reachable[p] /\ enabled[p] = "enabled")
Gone(p) == <>[](~reachable[p])

FailoverChosen == <>[](pool_strategy = "failover")

\* When one pool is left that answers, it is used in the end, although its
\* connection may have been closed as not needed, its thread asleep on lp_cond
\* with the wakeup missed, and switch_pools does not consider it then.
BackupTakesOver ==
    \A p \in Pools :
        FailoverChosen /\ Steady(p) /\ (\A q \in Pools \ {p} : Gone(q)) => <>[](currentpool = p /\ active[p])

\* The first pool is returned to when it comes back, however often its server and
\* the others come and go, and it is disabled, enabled, selected or given another
\* priority before.  Only a wakeup that its thread missed in wait_lpcurrent can keep
\* it away, and then until the next call of switch_pools.
PrimaryReturns ==
    \A p \in Pools :
        FailoverChosen /\ Steady(p) /\ <>[](prio[p] = 0)
            => <>[](currentpool = p) \/ <>[](thread[p] = "overslept")

\* docs/README.txt:1090: "If any of the earlier pools recover, it will move
\* back to the higher priority ones."
EarlierPoolsReturn ==
    \A p \in Pools : FailoverChosen /\ Steady(p) /\ <>[](prio[p] = 0) => <>[](currentpool = p)

\* While some pool stays reachable and enabled the miners are fed again and
\* again, whatever the other pools, the rejections, the operator and the strategy do.
MinersFed == (\E p \in Pools : Steady(p)) => []<>(staged # {})

\* cgminer.c:7504: "Idle stratum pool needs something to kick it alive again":
\* nothing but its own thread clears the idle flag of a pool without a
\* connection, so the thread of an idle pool must always be trying.
IdleIsRetried == \A p \in Pools : idle[p] => thread[p] \in {"test", "restart", "died"}

=============================================================================
