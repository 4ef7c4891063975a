------------------------------ MODULE PoolList ------------------------------
(***************************************************************************)
(* The list of pools: the array pools, the number and the priority of each *)
(* struct pool, and enabled_pools.  An operation of the API or the menu    *)
(* that edits the list writes its entries one after the other without a    *)
(* lock.  Meanwhile other threads call switch_pools, which looks through   *)
(* the priorities and numbers as it finds them, and disable and enable     *)
(* pools by the shares they reject and accept; and the operator's other    *)
(* way in, the menu beside the API or the API beside the menu, switches,   *)
(* enables and disables pools, so that switch_pools(selected) writes       *)
(* priorities under control_lock, which the edits do not take.             *)
(*                                                                         *)
(* Two operations that edit the list are not begun at once: "all cgminer   *)
(* code needs a mutex added everywhere for change access to total_pools    *)
(* and also parts of the pools[] array", says api.c.                       *)
(*                                                                         *)
(* The strategy is failover.  Connections come and go at any time, so any  *)
(* enabled pool that the search by priority finds may be the first that is *)
(* usable; Failover has which is.  The search for one pool of poolpriority *)
(* is one step with the write that follows it.  Reading pools beyond the   *)
(* entries that were ever written crashes the program, and no step models  *)
(* it.                                                                     *)
(***************************************************************************)
EXTENDS Integers, FiniteSets

CONSTANTS
    Pool,           \* the struct pools that are ever made
    NoPool,         \* an entry of pools that was never written
    opt_disable_pool,
    MaxDirect,      \* bound: the API is used until it has written enabled so often
    EditRaced       \* bound: whether priorities that were raced are edited again

ASSUME PoolAssumption == IsFiniteSet(Pool) /\ Pool # {} /\ NoPool \notin Pool
ASSUME OptionAssumption == opt_disable_pool \in BOOLEAN
ASSUME BoundAssumption == MaxDirect \in Nat /\ EditRaced \in BOOLEAN

VARIABLES
    pools, total_pools,         \* the array and the length in use
    pool_no, prio, enabled,     \* of each struct pool
    removed,        \* the removed pools
    currentpool, enabled_pools,
    pc, loop,       \* how far the operation that edits the list is, and its loop
    victim,         \* the pool that is being removed
    menu,           \* whether through the menu
    new_prio,       \* new_prio of the pools that poolpriority names
    changed,        \* pools_changed
    direct,         \* history: how often enabled was written without counting
    raced           \* history: a pool was selected while priorities were written

numVars == <<pools, total_pools, pool_no, removed>>
listVars == <<numVars, prio, raced>>
countVars == <<enabled, enabled_pools, direct>>
opVars == <<pc, loop, victim, menu, new_prio, changed>>
vars == <<listVars, countVars, currentpool, opVars>>

Slots == 0 .. Cardinality(Pool)
Numbers == 0 .. total_pools - 1
Listed == {pools[i] : i \in Numbers}

\* poolpriority has begun to write, or remove_pool has.
Reordering == pc = "append" \/ (pc = "name" /\ loop > 0)
Removing ==
    \/ (pc = "boost" /\ loop > 0)
    \/ pc \in {"renumber", "replace", "invalidate", "unlist", "shrink"}

---------------------------------------------------------------------------
\* The command line made the first pools; all have been tried.
Init ==
    \E S \in (SUBSET Pool) \ {{}} :
        /\ total_pools = Cardinality(S)
        /\ \E a \in [Numbers -> S] :
            /\ \A i, j \in Numbers : a[i] = a[j] => i = j
            /\ \A p \in S : \E i \in Numbers : a[i] = p
            /\ pools = [i \in Slots |-> IF i < total_pools THEN a[i] ELSE NoPool]
            /\ pool_no = [p \in Pool |-> IF p \in S THEN CHOOSE i \in Numbers : a[i] = p ELSE 0]
        /\ prio = pool_no
        /\ enabled = [p \in Pool |-> IF p \in S THEN "enabled" ELSE "disabled"]
        /\ enabled_pools = total_pools
        /\ removed = {} /\ currentpool \in S
        /\ pc = "none" /\ loop = 0 /\ victim = NoPool /\ menu = FALSE
        /\ new_prio = <<>> /\ changed = {}
        /\ direct = 0 /\ raced = FALSE

---------------------------------------------------------------------------
(* switch_pools *)

First(S) == CHOOSE i \in S : \A j \in S : i <= j

\* priority_pool, which takes the wrong one when no pool has the priority
priority_pool(choice) ==
    LET having == {i \in Numbers : prio'[pools[i]] = choice} IN
    pools[IF having = {} THEN choice ELSE First(having)]

\* switch_pools, from a step that sets prio and enabled before: one of the
\* enabled pools that it finds, or if none is usable the current one; by number
switch_pools ==
    LET found == {priority_pool(choice) : choice \in Numbers}
        taken == {p \in found : enabled'[p] = "enabled"} \cup {currentpool}
    IN currentpool' \in {pools[pool_no[p]] : p \in taken} \ {NoPool}

\* Mutant: the pools before the selected one are not moved down.
PrioFirst_only(p) == prio' = [prio EXCEPT ![p] = 0]

\* The pools before p move down, once for each entry they have.
MovedDown(q, p) ==
    LET places == Cardinality({i \in Numbers : pools[i] = q}) IN
    IF prio[q] + places < prio[p] THEN prio[q] + places ELSE prio[p]

\* switch_pools(p): p gets the first priority.
PrioFirst(p) ==
    prio' = [q \in Pool |->
                IF q = p THEN 0
                ELSE IF q \in Listed /\ prio[q] < prio[p] THEN MovedDown(q, p)
                ELSE prio[q]]

switch_selected(p) ==
    /\ PrioFirst(p) /\ switch_pools
    /\ raced' = (raced \/ ((Reordering \/ Removing) /\ prio[p] # 0))
    /\ UNCHANGED numVars

SwitchIf(condition) == IF condition THEN switch_pools ELSE UNCHANGED currentpool

---------------------------------------------------------------------------
(* enable_pool, disable_pool and reject_pool count; the API does not. *)

\* Mutant: enable_pool counts a pool that is enabled already.
Enable_again(p, counted) ==
    /\ enabled' = [enabled EXCEPT ![p] = "enabled"]
    /\ enabled_pools' = enabled_pools + (IF counted THEN 1 ELSE 0)
    /\ direct' = direct + (IF counted THEN 0 ELSE 1)

Enable(p, counted) ==
    LET change == enabled[p] # "enabled" IN
    /\ enabled' = [enabled EXCEPT ![p] = "enabled"]
    /\ enabled_pools' = enabled_pools + (IF counted /\ change THEN 1 ELSE 0)
    /\ direct' = direct + (IF counted THEN 0 ELSE 1)

Disable(p, how, counted) ==
    LET change == enabled[p] = "enabled" IN
    /\ enabled' = [enabled EXCEPT ![p] = how]
    /\ enabled_pools' = enabled_pools - (IF counted /\ change THEN 1 ELSE 0)
    /\ direct' = direct + (IF counted THEN 0 ELSE 1)

---------------------------------------------------------------------------
(* The operator, through the menu (m) or the API *)

Idle == pc = "none"

CanEdit == Idle /\ (EditRaced \/ ~raced)

\* The menu and the API each do one operation after the other.
Free(m) == (Idle \/ m # menu) /\ (m \/ direct < MaxDirect)

\* addpool, input_pool: add_pool and add_pool_details
addpool(p) ==
    /\ CanEdit /\ p \notin Listed \cup removed
    /\ pools' = [pools EXCEPT ![total_pools] = p]
    /\ total_pools' = total_pools + 1
    /\ pool_no' = [pool_no EXCEPT ![p] = total_pools]
    /\ prio' = [prio EXCEPT ![p] = total_pools]
    /\ Enable(p, TRUE)
    /\ UNCHANGED <<removed, raced, currentpool, opVars>>

switchpool(p, m) ==
    /\ Free(m) /\ p \in Listed
    /\ Enable(p, m) /\ switch_selected(p)
    /\ UNCHANGED opVars

enablepool(p, m) ==
    /\ Free(m) /\ p \in Listed /\ (m \/ enabled[p] # "enabled")
    /\ Enable(p, m)
    /\ IF prio[p] < prio[currentpool] THEN switch_selected(p) ELSE UNCHANGED <<listVars, currentpool>>
    /\ UNCHANGED opVars

disablepool(p, m) ==
    /\ Free(m) /\ p \in Listed /\ (m \/ enabled[p] # "disabled")
    /\ enabled_pools > 1
    /\ Disable(p, "disabled", m)
    /\ UNCHANGED <<listVars, opVars>>
    /\ SwitchIf(p = currentpool)

\* The next turn of a loop over the pools, or what comes after it
Turn(after) ==
    IF loop + 1 < total_pools THEN loop' = loop + 1 /\ pc' = pc ELSE loop' = 0 /\ pc' = after

---------------------------------------------------------------------------
(* poolpriority *)

\* The request is read; ...
poolpriority ==
    /\ CanEdit /\ Free(FALSE)
    /\ \E named \in (SUBSET Listed) \ {{}} :
        \E np \in [named -> 0 .. Cardinality(named) - 1] :
            /\ \A p, q \in named : np[p] = np[q] => p = q
            /\ new_prio' = np /\ changed' = named
    /\ pc' = "name"
    /\ UNCHANGED <<listVars, countVars, currentpool, loop, victim, menu>>

\* ... the pools it names get their priorities, one by one, ...
NamePool ==
    LET p == pools[loop] IN
    /\ pc = "name"
    /\ prio' = IF p \in changed THEN [prio EXCEPT ![p] = new_prio[p]] ELSE prio
    /\ Turn("append")
    /\ UNCHANGED <<numVars, raced, countVars, currentpool, victim, menu, new_prio, changed>>

\* Mutant: a pool that was given its priority is not marked.
AppendPool_unmarked ==
    LET found == {i \in Numbers : pools[i] \notin changed /\ prio[pools[i]] = loop} IN
    /\ pc = "append"
    /\ prio' = IF found = {} THEN prio ELSE [prio EXCEPT ![pools[First(found)]] = Cardinality(changed)]
    /\ Turn("settle")
    /\ UNCHANGED <<numVars, raced, countVars, currentpool, victim, menu, new_prio, changed>>

\* ... for each priority the first of the others that has it is appended, ...
AppendPool ==
    LET found == {i \in Numbers : pools[i] \notin changed /\ prio[pools[i]] = loop}
        p == pools[First(found)]
    IN
    /\ pc = "append"
    /\ IF found = {} THEN UNCHANGED <<prio, changed>>
       ELSE prio' = [prio EXCEPT ![p] = Cardinality(changed)] /\ changed' = changed \cup {p}
    /\ Turn("settle")
    /\ UNCHANGED <<numVars, raced, countVars, currentpool, victim, menu, new_prio>>

\* ... and the pool that is first now is switched to.
Settle ==
    /\ pc = "settle" /\ pc' = "none" /\ new_prio' = <<>> /\ changed' = {}
    /\ UNCHANGED <<listVars, countVars, loop, victim, menu>>
    /\ SwitchIf(prio[currentpool] # 0)

---------------------------------------------------------------------------
(* removepool and remove_pool *)

last == total_pools - 1

\* The pool is left if it is the current one, ...
removepool(p, m) ==
    /\ CanEdit /\ Free(m) /\ total_pools > 1 /\ p \in Listed
    /\ UNCHANGED <<listVars, countVars, loop, new_prio, changed>>
    /\ SwitchIf(p = currentpool)
    /\ pc' = "check" /\ victim' = p /\ menu' = m

EndRemoval == pc' = "none" /\ victim' = NoPool /\ menu' = FALSE

\* ... kept if it still is, ...
RemoveCheck ==
    /\ pc = "check"
    /\ IF victim = currentpool THEN EndRemoval ELSE pc' = "disable" /\ UNCHANGED <<victim, menu>>
    /\ UNCHANGED <<listVars, countVars, currentpool, loop, new_prio, changed>>

\* ... disabled, ...
RemoveDisable ==
    /\ pc = "disable" /\ pc' = "boost"
    /\ Disable(victim, "disabled", menu)
    /\ UNCHANGED <<listVars, currentpool, loop, victim, menu, new_prio, changed>>

Kept == <<countVars, currentpool, victim, menu, new_prio, changed>>

\* ... the pools of lower priority are boosted, one by one, ...
BoostPool ==
    LET p == pools[loop] IN
    /\ pc = "boost"
    /\ prio' = IF prio[p] > prio[victim] THEN [prio EXCEPT ![p] = @ - 1] ELSE prio
    /\ Turn(IF pool_no[victim] < last THEN "renumber" ELSE "invalidate")
    /\ UNCHANGED <<numVars, raced, Kept>>

\* ... the last pool takes the number ...
RemoveRenumber ==
    /\ pc = "renumber" /\ pc' = "replace"
    /\ pool_no' = [pool_no EXCEPT ![pools[last]] = pool_no[victim]]
    /\ UNCHANGED <<pools, total_pools, removed, prio, raced, loop, Kept>>

\* ... and the entry, ...
RemoveReplace ==
    /\ pc = "replace" /\ pc' = "invalidate"
    /\ pools' = [pools EXCEPT ![pool_no[victim]] = pools[last]]
    /\ UNCHANGED <<total_pools, pool_no, removed, prio, raced, loop, Kept>>

\* ... the number becomes invalid, ...
RemoveInvalidate ==
    /\ pc = "invalidate" /\ pc' = "unlist"
    /\ pool_no' = [pool_no EXCEPT ![victim] = total_pools]
    /\ UNCHANGED <<pools, total_pools, removed, prio, raced, loop, Kept>>

\* ... the pool is marked ...
RemoveUnlist ==
    /\ pc = "unlist" /\ pc' = "shrink"
    /\ removed' = removed \cup {victim}
    /\ UNCHANGED <<pools, total_pools, pool_no, prio, raced, loop, Kept>>

\* ... and the list ends before its last entry.
RemoveShrink ==
    /\ pc = "shrink" /\ EndRemoval
    /\ total_pools' = last
    /\ UNCHANGED <<pools, pool_no, removed, prio, raced, countVars, currentpool, loop, new_prio, changed>>

Operator ==
    \/ \E p \in Pool :
        \/ addpool(p)
        \/ \E m \in BOOLEAN : switchpool(p, m) \/ enablepool(p, m) \/ disablepool(p, m) \/ removepool(p, m)
    \/ poolpriority \/ NamePool \/ AppendPool \/ Settle
    \/ RemoveCheck \/ RemoveDisable \/ BoostPool
    \/ RemoveRenumber \/ RemoveReplace \/ RemoveInvalidate \/ RemoveUnlist \/ RemoveShrink

---------------------------------------------------------------------------
(* The other threads *)

\* watchpool_thread, test_pool_thread, pool_died and the scheduler: switch_pools(NULL)
Switch ==
    /\ UNCHANGED <<listVars, countVars, opVars>>
    /\ switch_pools

\* The pools that may answer a share
Known == Listed \cup removed \cup ({victim} \ {NoPool})

\* share_result: the pool rejected share after share.  It may be disabled.
reject_pool(p) ==
    /\ opt_disable_pool /\ p \in Known /\ enabled_pools > 1
    /\ Disable(p, "rejecting", TRUE)
    /\ UNCHANGED <<listVars, opVars>>
    /\ SwitchIf(p = currentpool)

\* share_result: a rejecting pool accepts a share.
accept_pool(p) ==
    /\ p \in Known /\ enabled[p] = "rejecting"
    /\ Enable(p, TRUE)
    /\ UNCHANGED <<listVars, opVars>>
    /\ switch_pools

Others == Switch \/ \E p \in Pool : reject_pool(p) \/ accept_pool(p)

Next == Operator \/ Others

Spec == Init /\ [][Next]_vars

---------------------------------------------------------------------------
TypeOK ==
    /\ total_pools \in Slots \ {0} /\ pools \in [Slots -> Pool \cup {NoPool}]
    /\ pool_no \in [Pool -> Slots] /\ prio \in [Pool -> Slots]
    /\ enabled \in [Pool -> {"enabled", "disabled", "rejecting"}]
    /\ removed \in SUBSET Pool  /\ currentpool \in Pool
    /\ enabled_pools \in Int /\ direct \in Nat /\ menu \in BOOLEAN /\ raced \in BOOLEAN
    /\ pc \in {"none", "name", "append", "settle", "check", "disable", "boost",
               "renumber", "replace", "invalidate", "unlist", "shrink"}
    /\ loop \in Numbers /\ (pc \notin {"name", "append", "boost"} => loop = 0)
    /\ victim \in Pool \cup {NoPool} /\ changed \in SUBSET Pool

\* Every entry of the list is a pool that knows its place, but for the last one
\* when its pool has been put elsewhere.
NumbersMatch ==
    \A i \in Numbers :
        /\ pools[i] \in Pool
        /\ \/ pool_no[pools[i]] = i
           \/ i = last /\ pc \in {"replace", "invalidate", "unlist", "shrink"}

\* The pools that stay in the list
Ranked == IF Removing THEN Listed \ {victim} ELSE Listed
Ranks == 0 .. (IF Removing THEN total_pools - 2 ELSE total_pools - 1)

\* The priority that a pool of these has, or will have when the operation that
\* is under way has written them all
rank ==
    LET others == Listed \ changed
        before(p) == {q \in others : prio[q] < prio[p]}
    IN
    IF Reordering THEN
        [p \in Pool |->
            IF p \in others THEN Cardinality(changed) + Cardinality(before(p))
            ELSE IF pc = "name" /\ p \in changed THEN new_prio[p] ELSE prio[p]]
    ELSE IF Removing /\ pc = "boost" THEN
        [p \in Pool |-> IF loop <= pool_no[p] /\ prio[p] > prio[victim] THEN prio[p] - 1 ELSE prio[p]]
    ELSE prio

\* The priorities are 0, 1, 2, ..., so that priority_pool finds a pool for each:
\* at rest those that are, and during poolpriority and remove_pool those that
\* will be, unless another pool is selected meanwhile.
RanksPermuted ==
    ~raced =>
        /\ \A p \in Ranked : rank[p] \in Ranks
        /\ \A p, q \in Ranked : rank[p] = rank[q] => p = q

\* The pool that is being removed is listed until it is not.
RemovalOK ==
    /\ removed \cap Ranked = {}
    /\ pc \in {"check", "disable", "boost", "renumber", "replace"}
          => victim \in Listed /\ total_pools > 1
    /\ pc \in {"check", "disable", "boost", "renumber"} => pools[pool_no[victim]] = victim
    /\ pc = "renumber" => pool_no[victim] < last
    /\ pc = "replace" =>
          /\ pool_no[victim] < last /\ pools[pool_no[victim]] = victim
          /\ pool_no[pools[last]] = pool_no[victim] /\ pools[last] # victim
    /\ pc \in {"invalidate", "unlist", "shrink"} =>
          /\ victim \in Pool /\ total_pools > 1
          /\ \A i \in 0 .. last - 1 : pools[i] # victim
          /\ (pools[last] = victim \/ \E i \in 0 .. last - 1 : pools[i] = pools[last])

\* The pools that poolpriority has dealt with or is asked to, and the priorities
\* it is asked to give
ReorderOK ==
    /\ changed \subseteq Listed /\ (changed # {} <=> pc \in {"name", "append", "settle"})
    /\ pc = "name" =>
          /\ new_prio \in [changed -> 0 .. Cardinality(changed) - 1]
          /\ \A p, q \in changed : new_prio[p] = new_prio[q] => p = q

\* How far it is with the pools that it names, and with the others, whose
\* priorities are yet to be looked for
TurnsOK ==
    ~raced =>
        /\ pc = "name" => \A p \in changed : pool_no[p] < loop => prio[p] = new_prio[p]
        /\ pc \in {"name", "append"} =>
              /\ \A p \in Listed \ changed : prio[p] \in 0 .. last /\ (pc = "append" => loop <= prio[p])
              /\ \A p, q \in Listed \ changed : prio[p] = prio[q] => p = q

\* Whatever has happened and however far the operation is, the numbers and the
\* priorities are in order, or are what the rest of the operation puts in order.
ListInv == TypeOK /\ NumbersMatch /\ RanksPermuted /\ RemovalOK /\ ReorderOK /\ TurnsOK

\* enabled_pools is the number of enabled pools until the API writes enabled.
EnabledCounted ==
    direct = 0 => enabled_pools = Cardinality({p \in Pool : enabled[p] = "enabled"})

\* The list as the abstract specification sees it
order ==
    LET S == Ranked
        r == rank
    IN IF raced THEN {} ELSE {e \in S \X S : r[e[1]] <= r[e[2]]}
asked ==
    IF raced \/ pc # "name" \/ loop > 0 THEN {}
    ELSE {e \in changed \X changed : new_prio[e[1]] <= new_prio[e[2]]}
busy == ~raced /\ (Reordering \/ Removing)
Order == INSTANCE PoolOrder

\* Every operation changes the order of preference as PoolOrder says.
ImplementsPoolOrder == Order!Spec

=============================================================================
