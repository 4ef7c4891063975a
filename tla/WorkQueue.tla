----------------------------- MODULE WorkQueue -----------------------------
(***************************************************************************)
(* The staged work queue of cgminer.c: the hash table staged_work, the     *)
(* counter staged_rollable and the two condition variables on stgd_lock,   *)
(* getq->cond for those that want work and gws_cond for the getwork        *)
(* scheduler that makes it.  The threads around it are the miners          *)
(* (get_work), the scheduler (the loop that ends main), the longpoll       *)
(* thread (convert_to_work and clone_work), the stratum receive threads    *)
(* (clear_pool_work) and the restart and watchdog threads (discard_stale). *)
(*                                                                         *)
(* A section under stgd_lock is one step.  staged is a set: staged_work is *)
(* sorted by the second an item was staged in, and any of its items may    *)
(* come first.  work_block is only ever incremented and compared with the  *)
(* work_block of an item, so an item carries whether they still agree, and *)
(* whether its job is still the last one of its stratum pool.              *)
(* Quotas, statistics and expiry by age are left out.                      *)
(***************************************************************************)
EXTENDS Integers, FiniteSets

CONSTANTS
    Miners,         \* threads that call get_work
    StratumPools,   \* pools that feed the scheduler over stratum
    Longpoller,     \* the pool with a longpoll thread, whose work may be rolled
    Works,          \* addresses of struct work; bounds how many exist at once
    NoWork,         \* a null pointer
    MaxQueue,       \* max_queue: the scheduler waits when more is staged
    MaxRollable     \* bound: no rollable work arrives when staged_rollable is
                    \* this high (discard_stale lets it grow without end)

ASSUME WorksAssumption == IsFiniteSet(Works) /\ NoWork \notin Works
ASSUME PoolsAssumption ==
    Longpoller \notin StratumPools /\ NoWork \notin StratumPools \cup {Longpoller}
ASSUME MinersAssumption == IsFiniteSet(Miners)
ASSUME BoundsAssumption == MaxQueue \in Nat /\ MaxRollable \in Nat

VARIABLES
    staged,             \* staged_work
    staged_rollable,    \* staged_rollable
    work,               \* what is at each address: Blank, or a work item
    usable,             \* ~pool_unusable(pool), of every pool
    link,               \* the reconnection steps of each stratum_rthread
    miner, held,        \* where each miner is, and its work
    gws, made,          \* where the scheduler is, and the work it makes
    lp, master, clone,  \* where the longpoll thread is, and its work items
    mrs, cloned         \* the locals of clone_work

minerVars == <<miner, held>>
gwsVars == <<gws, made>>
lpVars == <<lp, master, clone, mrs, cloned>>
poolVars == <<usable, link>>
queueVars == <<staged, staged_rollable>>
vars == <<queueVars, work, poolVars, minerVars, gwsVars, lpVars>>

Pools == StratumPools \cup {Longpoller}
Blank == [pool |-> NoWork, current |-> FALSE, job |-> FALSE, rollable |-> FALSE]

\* pool, whether work->work_block is still work_block, whether work->job_id is
\* still the pool's, and work_rollable
Items == [pool : Pools, current : BOOLEAN, job : BOOLEAN, rollable : BOOLEAN]

\* The items a thread points to, outside the queue
InHand == ({held[m] : m \in Miners} \cup {made, master, clone}) \ {NoWork}

\* make_work: memory nobody points to
Unused == {w \in Works : work[w] = Blank}
_free_work(w) == work' = [work EXCEPT ![w] = Blank]

\* work_rollable: a master that was given a roll time
work_rollable(w) == work[w].rollable

NewItem(p, r) == [pool |-> p, current |-> TRUE, job |-> TRUE, rollable |-> r]
AsCurrent(i) == [pool |-> i.pool, current |-> TRUE, job |-> i.job, rollable |-> i.rollable]
AsOld(i) == [pool |-> i.pool, current |-> FALSE, job |-> i.job, rollable |-> i.rollable]
AsClone(i) == [pool |-> i.pool, current |-> i.current, job |-> i.job, rollable |-> FALSE]
Superseded(i) == [pool |-> i.pool, current |-> i.current, job |-> FALSE, rollable |-> i.rollable]

\* ++work_block: every item that exists is now of an old block
Outdated == [w \in Works |-> AsOld(work[w])]

\* Another job: all work of the pool is of an earlier one
OldJob(p) ==
    [w \in Works |-> IF work[w].pool = p THEN Superseded(work[w]) ELSE work[w]]

\* stale_work(work, false): another block, or its stratum pool is down or has
\* another job
stale_work(w) ==
    \/ ~work[w].current
    \/ work[w].pool \in StratumPools /\ (~usable[work[w].pool] \/ ~work[w].job)

__total_staged == Cardinality(staged)

---------------------------------------------------------------------------
TypeOK ==
    /\ staged \subseteq Works
    /\ staged_rollable \in Int
    /\ work \in [Works -> Items \cup {Blank}]
    /\ usable \in [Pools -> BOOLEAN]
    /\ link \in [StratumPools -> {"up", "lost", "cleared"}]
    /\ miner \in [Miners -> {"pop", "wait", "woken", "check", "mining"}]
    /\ held \in [Miners -> Works \cup {NoWork}]
    /\ gws \in {"count", "wait", "woken", "drop", "select", "push"}
    /\ made \in Works \cup {NoWork}
    /\ lp \in {"poll", "roll", "last"}
    /\ master \in Works \cup {NoWork}
    /\ clone \in Works \cup {NoWork}
    /\ mrs \in Nat
    /\ cloned \in BOOLEAN

Init ==
    /\ staged = {} /\ staged_rollable = 0
    /\ work = [w \in Works |-> Blank]
    /\ usable = [p \in Pools |-> TRUE]
    /\ link = [p \in StratumPools |-> "up"]
    /\ miner = [m \in Miners |-> "pop"] /\ held = [m \in Miners |-> NoWork]
    /\ gws = "count" /\ made = NoWork
    /\ lp = "poll" /\ master = NoWork /\ clone = NoWork
    /\ mrs = 0 /\ cloned = FALSE

---------------------------------------------------------------------------
(* The queue operations *)

\* pthread_cond_signal(&gws_cond)
SignalGws == gws' = IF gws = "wait" THEN "woken" ELSE gws

\* Mutant: hash_push wakes nobody.
Broadcast_missing == UNCHANGED miner

\* pthread_cond_broadcast(&getq->cond)
Broadcast == miner' = [m \in Miners |-> IF miner[m] = "wait" THEN "woken" ELSE miner[m]]

\* Mutant: hash_push does not count rollable work.
hash_push_uncounted(w, item) ==
    /\ work' = [work EXCEPT ![w] = item]
    /\ staged' = staged \cup {w}
    /\ UNCHANGED staged_rollable
    /\ Broadcast

\* hash_push, with the work item as stage_work leaves it
hash_push(w, item) ==
    /\ work' = [work EXCEPT ![w] = item]
    /\ staged' = staged \cup {w}
    /\ staged_rollable' = staged_rollable + IF item.rollable THEN 1 ELSE 0
    /\ Broadcast

\* stage_work: the item joins the block that is current when it is staged
Stage(w) == hash_push(w, AsCurrent(work[w]))

\* The item hash_pop takes from a queue that is not empty: a clone when the
\* count says there is one, else the head of the table.
Poppable(w) ==
    /\ w \in staged
    /\ __total_staged > staged_rollable => ~work_rollable(w)

\* hash_pop, from the choice of the item on
Unstage(w) ==
    /\ Poppable(w)
    /\ staged' = staged \ {w}
    /\ staged_rollable' = staged_rollable - IF work_rollable(w) THEN 1 ELSE 0

---------------------------------------------------------------------------
(* The miners: get_work and the hashing between two calls of it *)

\* Mutant: hash_pop waits without waking the scheduler.
PopWait_silent(m) ==
    /\ miner[m] \in {"pop", "woken"} /\ staged = {}
    /\ miner' = [miner EXCEPT ![m] = "wait"]
    /\ UNCHANGED <<queueVars, work, poolVars, held, gwsVars, lpVars>>

\* hash_pop(true) finds the table empty: wake the scheduler, then wait
PopWait(m) ==
    /\ miner[m] \in {"pop", "woken"} /\ staged = {}
    /\ SignalGws
    /\ miner' = [miner EXCEPT ![m] = "wait"]
    /\ UNCHANGED <<queueVars, work, poolVars, held, made, lpVars>>

\* pthread_cond_timedwait gives up after ten seconds
PopTimeout(m) ==
    /\ miner[m] = "wait"
    /\ miner' = [miner EXCEPT ![m] = "woken"]
    /\ UNCHANGED <<queueVars, work, poolVars, held, gwsVars, lpVars>>

\* hash_pop(true) takes an item, wakes the scheduler and one more miner
PopTake(m) ==
    /\ miner[m] \in {"pop", "woken"} /\ staged # {}
    /\ \E w \in staged : Unstage(w) /\ held' = [held EXCEPT ![m] = w]
    /\ SignalGws
    /\ \/ \E n \in Miners :
            /\ miner[n] = "wait"
            /\ miner' = [miner EXCEPT ![m] = "check", ![n] = "woken"]
       \/ /\ \A n \in Miners : miner[n] # "wait"
          /\ miner' = [miner EXCEPT ![m] = "check"]
    /\ UNCHANGED <<work, poolVars, made, lpVars>>

\* get_work: stale work is discarded and the scheduler woken
GetStale(m) ==
    /\ miner[m] = "check" /\ stale_work(held[m])
    /\ _free_work(held[m])
    /\ held' = [held EXCEPT ![m] = NoWork]
    /\ miner' = [miner EXCEPT ![m] = "pop"]
    /\ SignalGws
    /\ UNCHANGED <<queueVars, poolVars, made, lpVars>>

GetFresh(m) ==
    /\ miner[m] = "check" /\ ~stale_work(held[m])
    /\ miner' = [miner EXCEPT ![m] = "mining"]
    /\ UNCHANGED <<queueVars, work, poolVars, held, gwsVars, lpVars>>

\* hash_sole_work: the work is exhausted or abandoned, and freed
Mined(m) ==
    /\ miner[m] = "mining"
    /\ _free_work(held[m])
    /\ held' = [held EXCEPT ![m] = NoWork]
    /\ miner' = [miner EXCEPT ![m] = "pop"]
    /\ UNCHANGED <<queueVars, poolVars, gwsVars, lpVars>>

MinerStep(m) == PopWait(m) \/ PopTake(m) \/ GetStale(m) \/ GetFresh(m) \/ Mined(m)

---------------------------------------------------------------------------
(* The getwork scheduler: the loop that ends main *)

\* The queue is counted under stgd_lock; a full one is waited on, once.
GwsCount ==
    /\ gws = "count"
    /\ gws' = IF __total_staged > MaxQueue THEN "wait" ELSE "select"
    /\ UNCHANGED <<queueVars, work, poolVars, minerVars, made, lpVars>>

GwsRecount ==
    /\ gws = "woken"
    /\ gws' = IF __total_staged > MaxQueue THEN "drop" ELSE "select"
    /\ UNCHANGED <<queueVars, work, poolVars, minerVars, made, lpVars>>

\* pthread_cond_wait may return by itself
GwsSpurious ==
    /\ gws = "wait" /\ gws' = "woken"
    /\ UNCHANGED <<queueVars, work, poolVars, minerVars, made, lpVars>>

\* Still full: one item is popped without blocking, and discarded.
GwsDrop ==
    /\ gws = "drop" /\ gws' = "count"
    /\ \/ staged = {} /\ UNCHANGED <<queueVars, work, miner>>
       \/ /\ \E w \in staged : Unstage(w) /\ _free_work(w)
          /\ \/ \E n \in Miners : miner[n] = "wait" /\ miner' = [miner EXCEPT ![n] = "woken"]
             \/ (\A n \in Miners : miner[n] # "wait") /\ UNCHANGED miner
    /\ UNCHANGED <<poolVars, held, made, lpVars>>

\* select_pool and switch_pools until a pool is usable, gen_stratum_work or
\* gen_gbt_work for it, and stage_work up to test_work_current, which may
\* find a new block in it
GwsMake ==
    /\ gws = "select" /\ gws' = "push"
    /\ \E p \in Pools, w \in Unused, old \in {work, Outdated} :
        /\ usable[p]
        /\ made' = w
        /\ work' = [old EXCEPT ![w] = NewItem(p, FALSE)]
    /\ UNCHANGED <<queueVars, poolVars, minerVars, lpVars>>

\* stage_work from hash_push on
GwsPush ==
    /\ gws = "push" /\ gws' = "count"
    /\ hash_push(made, work[made])
    /\ made' = NoWork
    /\ UNCHANGED <<poolVars, held, lpVars>>

GwsStep == GwsCount \/ GwsRecount \/ GwsDrop \/ GwsMake \/ GwsPush

---------------------------------------------------------------------------
(* The longpoll thread: convert_to_work and clone_work *)

\* The work a longpoll returns restarts everybody else's.  clone_work makes a
\* first clone unless the queue is full.
LpReceive ==
    LET room == Cardinality(Miners) + MaxQueue - __total_staged IN
    /\ lp = "poll"
    /\ cloned' = FALSE
    /\ \E w \in Unused, r \in BOOLEAN :
        LET item == NewItem(Longpoller, r) IN
        /\ r => staged_rollable < MaxRollable
        /\ \/ /\ room < 1
              /\ lp' = "last" /\ clone' = w /\ UNCHANGED <<master, mrs>>
              /\ work' = [Outdated EXCEPT ![w] = item]
           \/ /\ room >= 1
              /\ lp' = "roll" /\ master' = w /\ mrs' = room
              /\ \E c \in Unused \ {w} :
                    /\ clone' = c
                    /\ work' = [Outdated EXCEPT ![w] = item, ![c] = AsClone(item)]
    /\ UNCHANGED <<queueVars, poolVars, minerVars, gwsVars>>

\* One turn of the while loop of clone_work: stage the clone, make another
LpRoll ==
    /\ lp = "roll" /\ mrs > 0 /\ work_rollable(master) /\ ~stale_work(master)
    /\ mrs' = mrs - 1 /\ cloned' = TRUE
    /\ \E c \in Unused :
        /\ clone' = c
        /\ work' = [work EXCEPT ![clone] = AsCurrent(work[clone]), ![c] = AsClone(work[master])]
        /\ staged' = staged \cup {clone}
        /\ UNCHANGED staged_rollable
    /\ Broadcast
    /\ UNCHANGED <<poolVars, held, gwsVars, lp, master>>

\* The loop ends (should_roll may say so at any time): the master is staged
\* again if it was rolled, else it is the one to be staged last.
LpDone ==
    /\ lp = "roll" /\ lp' = "last"
    /\ master' = NoWork /\ mrs' = 0 /\ cloned' = FALSE
    /\ \/ cloned /\ Stage(master) /\ UNCHANGED clone
       \/ /\ ~cloned /\ _free_work(clone) /\ clone' = master
          /\ UNCHANGED <<queueVars, miner>>
    /\ UNCHANGED <<poolVars, held, gwsVars>>

\* convert_to_work stages what clone_work returned
LpStage ==
    /\ lp = "last" /\ lp' = "poll"
    /\ Stage(clone)
    /\ clone' = NoWork
    /\ UNCHANGED <<poolVars, held, gwsVars, master, mrs, cloned>>

LpStep == LpRoll \/ LpDone \/ LpStage

---------------------------------------------------------------------------
(* The pools, the restart threads and the watchdog *)

\* Mutant: discard_stale frees what it leaves in the table.
DiscardStale_keep ==
    LET old == {w \in staged : stale_work(w)} IN
    /\ work' = [w \in Works |-> IF w \in old THEN Blank ELSE work[w]]
    /\ SignalGws
    /\ UNCHANGED <<queueVars, poolVars, minerVars, made, lpVars>>

\* discard_stale, of restart_thread and watchdog_thread
DiscardStale ==
    LET old == {w \in staged : stale_work(w)} IN
    /\ staged' = staged \ old
    /\ work' = [w \in Works |-> IF w \in old THEN Blank ELSE work[w]]
    /\ SignalGws
    /\ UNCHANGED <<staged_rollable, poolVars, minerVars, made, lpVars>>

\* test_work_current of a stratum_rthread or pool thread: a new block
NewBlock ==
    /\ work' = Outdated /\ work' # work
    /\ UNCHANGED <<queueVars, poolVars, minerVars, gwsVars, lpVars>>

\* parse_notify: the work of the pool's earlier jobs is stale
NewJob(p) ==
    /\ work' = OldJob(p) /\ work' # work
    /\ UNCHANGED <<queueVars, poolVars, minerVars, gwsVars, lpVars>>

\* stratum_rthread loses its pool.  recv_line suspends it at once; after a
\* select that times out it is still marked active.
Disconnect(p) ==
    /\ link[p] = "up"
    /\ link' = [link EXCEPT ![p] = "lost"]
    /\ \E u \in {FALSE, usable[p]} : usable' = [usable EXCEPT ![p] = u]
    /\ UNCHANGED <<queueVars, work, minerVars, gwsVars, lpVars>>

\* clear_pool_work: no count is adjusted and nobody is woken
clear_pool_work(p) ==
    LET mine == {w \in staged : work[w].pool = p} IN
    /\ staged' = staged \ mine
    /\ work' = [w \in Works |-> IF w \in mine THEN Blank ELSE work[w]]
    /\ UNCHANGED <<staged_rollable, usable, minerVars, gwsVars, lpVars>>

LinkCleared(p) ==
    /\ link[p] = "lost"
    /\ link' = [link EXCEPT ![p] = "cleared"]
    /\ clear_pool_work(p)

\* switch_pools clears the work of the pool it leaves, and stratum_rthread that of
\* one whose connection is not needed.
LeavePool(p) ==
    /\ \E w \in staged : work[w].pool = p
    /\ clear_pool_work(p)
    /\ UNCHANGED link

\* restart_stratum suspends a pool that is still active, then reconnects it
Suspend(p) ==
    /\ link[p] = "cleared" /\ usable[p]
    /\ usable' = [usable EXCEPT ![p] = FALSE]
    /\ UNCHANGED <<queueVars, work, link, minerVars, gwsVars, lpVars>>

Reconnect(p) ==
    /\ link[p] = "cleared" /\ ~usable[p]
    /\ usable' = [usable EXCEPT ![p] = TRUE]
    /\ link' = [link EXCEPT ![p] = "up"]
    /\ UNCHANGED <<queueVars, work, minerVars, gwsVars, lpVars>>

RecvStep(p) == LinkCleared(p) \/ Suspend(p) \/ Reconnect(p)

---------------------------------------------------------------------------
Next ==
    \/ \E m \in Miners : MinerStep(m) \/ PopTimeout(m)
    \/ GwsStep \/ GwsSpurious
    \/ LpReceive \/ LpStep
    \/ DiscardStale \/ NewBlock
    \/ \E p \in StratumPools : NewJob(p) \/ Disconnect(p) \/ RecvStep(p)
    \/ \E p \in Pools : LeavePool(p)

Spec == Init /\ [][Next]_vars

(***************************************************************************)
(* Every thread runs on when it can; a pool that was lost is reconnected   *)
(* in the end (stratum_rthread retries every five seconds).  The ten       *)
(* second timeout of hash_pop, the periodic discard_stale of the watchdog  *)
(* and spurious wakeups may happen but are not relied on.                  *)
(***************************************************************************)
Fairness ==
    /\ \A m \in Miners : WF_vars(MinerStep(m))
    /\ WF_vars(GwsStep)
    /\ WF_vars(LpStep)
    /\ \A p \in StratumPools : WF_vars(RecvStep(p))

FairSpec == Spec /\ Fairness

---------------------------------------------------------------------------
\* A work item is pointed to from one place while it exists and from none once
\* it is freed: no use after _free_work, no double free, no leak, although
\* five kinds of threads pass items around and two of them empty the queue.
OwnedOnce ==
    /\ \A w \in Works : work[w] # Blank <=> w \in staged \cup InHand
    /\ staged \cap InHand = {}
    /\ \A m \in Miners : held[m] # NoWork =>
          /\ held[m] \notin {made, master, clone}
          /\ \A n \in Miners \ {m} : held[m] # held[n]
    /\ made # NoWork => made \notin {master, clone}
    /\ master # NoWork => master # clone

\* hash_pop always finds an item in a queue that is not empty: when it looks
\* for a clone (more items than staged_rollable) there is one; else HASH_DEL
\* would be given a null pointer.
PopFindsWork == staged # {} => \E w \in staged : Poppable(w)

\* No miner sleeps in hash_pop while there is work: the broadcast of hash_push
\* and the recheck under stgd_lock leave no window for a lost wakeup.
NoMinerSleepsOnWork == staged # {} => \A m \in Miners : miner[m] # "wait"

\* The two sides never sleep on each other: the scheduler does not wait for
\* room in the queue while a miner waits for work, not even after
\* clear_pool_work emptied the queue without waking anybody.
NoMutualSleep == gws = "wait" => \A m \in Miners : miner[m] # "wait"

\* The pointers of each thread are set exactly where its code uses them.
PointersMatch ==
    /\ \A m \in Miners : held[m] # NoWork <=> miner[m] \in {"check", "mining"}
    /\ made # NoWork <=> gws = "push"
    /\ master # NoWork <=> lp = "roll"
    /\ clone # NoWork <=> lp \in {"roll", "last"}

\* Rollable items of a set
Rollables(S) == {w \in S : work_rollable(w)}

\* staged_rollable never falls below the masters in the queue.  It may stay
\* above them: discard_stale and clear_pool_work remove them uncounted.
RollableBound == staged_rollable >= Cardinality(Rollables(staged))

\* Work that is being made, and a clone, are not rollable.
UnrollableInHand ==
    /\ made # NoWork => ~work_rollable(made)
    /\ lp = "roll" => ~work_rollable(clone)

\* The inductive invariant: what the properties above rest on.
IInv ==
    /\ TypeOK
    /\ PointersMatch
    /\ OwnedOnce
    /\ UnrollableInHand
    /\ RollableBound
    /\ NoMinerSleepsOnWork
    /\ NoMutualSleep

\* A step that makes somebody's work stale, loses a pool or leaves one
Upset ==
    \/ \E w \in Works :
          /\ work[w].current /\ work[w].job /\ work'[w] # Blank
          /\ ~work'[w].current \/ ~work'[w].job
    \/ \E p \in StratumPools : usable[p] /\ ~usable'[p]
    \/ \E p \in Pools : LeavePool(p)

\* When every miner is out of work, one of them gets some, whatever blocks and
\* jobs came and whichever pools were lost or left before, once that stops.
\* Neither the ten second timeout of hash_pop nor the watchdog is needed for it.
HungryMinersServed == <>[][~Upset]_vars =>
    ((\A m \in Miners : miner[m] \in {"pop", "wait", "woken"}) ~> (\E m \in Miners : miner[m] = "mining"))

=============================================================================
