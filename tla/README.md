# A TLA+ development for cgminer-gekko

cgminer is a multi-threaded miner: it fetches work from pools, keeps the mining
hardware busy with it and sends the shares that are found back. This fork adds
and maintains the driver for GekkoScience USB sticks. What is hard about it is
not the arithmetic but the threads: many kinds of them share queues,
flags and connections, under half a dozen locks and sometimes under none.

The modules here are translated from `src/cgminer.c`, `src/util.c`, `src/usbutils.c`,
`src/api.c`, `src/miner.h`, `src/driver-gekko.c` and `src/driver-gekko.h`. TLC checks
them on small instances; TLAPS proves every safety property of the runs and both
refinements for every value of the constants. `PROJECT.json` lists the runs, which lines
of the code each definition stands for, the mutations of the model each property was
seen to catch, the hazards the properties are aimed at, and the theorems.

```
tlc -workers 2 -config MCWorkQueue.cfg MCWorkQueue     # one run
tlapm WorkQueue_proofs.tla                             # the proofs of one module
```

## 1. The system and its parts

| part | where | state | operations | who calls them |
|---|---|---|---|---|
| cglock | miner.h 823-1015 | a mutex and an rwlock | `cg_rlock` ... `cg_wunlock`, promotions and downgrades | everything that reads pool data or the current block |
| staged work queue | cgminer.c 5340-5522, 5839-5864, 6176-6201, 8156-8212, 8664-8699, 11619-11705 | `staged_work`, `staged_rollable`, `getq->cond`, `gws_cond` | `hash_push`, `hash_pop`, `get_work`, `clone_work`, `discard_stale`, `clear_pool_work`, the scheduler loop that ends `main` | miners, scheduler, longpoll, restart, watchdog and stratum threads |
| stratum shares | cgminer.c 7322-7457, 7490-7803, 8702-8757, 9806-9830; util.c 2598, 2901, 3363-3575 | `stratum_shares`, `pool->sshares`, `stratum_active`, session id | submit, send, answer, lose, resume, prune | a send and a receive thread per pool, watchpool |
| pool failover | cgminer.c 4699, 5611, 5745-5815, 7490-7650, 9559, 9833-9901, 10288 | `currentpool`, `idle`, `stratum_active`, `prio`, `lp_cond`, `no_work` | `switch_pools`, `cnx_needed`, `wait_lpcurrent`, `pool_died`, `pool_resus` | pool threads, watchpool, scheduler, miners, operator |
| pool list | cgminer.c 893, 4336-4358, 6250-6276, 6566-6715; api.c 2713-3050 | `pools[]`, `total_pools`, `pool_no`, `prio`, `enabled`, `enabled_pools` | add, remove, switch, enable, disable, reorder | API and menu, with `switch_pools` of the others beside them |
| gekko stick: work ring | driver-gekko.c 2234-2536, 3455-4180, 4907-5256; cgminer.c 9109-9353 | `info->work[]`, `info->job_id`, `unqueued_work`, `queued_work`, `nstore` | fill, take, place, send, complete; look a nonce up | the hash, mine, listen and nonce threads of a stick, restart threads |
| gekko stick: states | driver-gekko.c 2284-2304, 3499-4135, 4628-4784, 4907-5305, 5995-6093, 6138-6323, 6436-6619, 7201-7300 | `info->mining_state`, `chips`, `init_count`, `has_telem` | reset, count chips, open cores, mine, watch the temperature, shut down | five threads of the stick and the API, no lock |
| block tracking | cgminer.c 5966-6163 | `blocks`, `current_hash`, `work_block` | `test_work_current`, `block_exists`, `set_curblock` | whoever stages or receives work |
| quotas | cgminer.c 853-890, 4739-4812 | `quota_used`, `quota_gcd`, `rotating_pool` | `select_pool`, `adjust_quota_gcd` | scheduler; API and menu |
| device lifecycle | cgminer.c 656-692, 6909-7184, 8664-8699, 8944-8953, 9110-9121, 9359-9484, 9918-10091, 10757-10821; api.c 2372-2481 | `deven`, `nodev`, `pause`, `thr->sem`, `status`, `thr->last`, `thr->sick` | mine, sleep, enable, disable, pause, start, declare sick or dead, reset | miner threads, watchdog, API, menu, hotplug |
| thread queues | util.c 1135-1240 | list, mutex, condition | `tq_push`, `tq_pop`, `tq_freeze` | stratum and API threads |
| stratum session | util.c 2331-2605, 2740-2958, 3440-3560; cgminer.c 4699, 5623-5678, 7458-7649, 8395-8475 | `nonce1`, `sessionid`, `swork`, `nonce2`, `sdiff`, `next_diff`, `diff_after`, `stratum_active`, `stratum_notify` | subscribe, authorise, notify, set_difficulty, set_extranonce, resume, make work, find it stale | receive thread, scheduler, miners |
| longpoll, getblocktemplate | cgminer.c 9494-9755; util.c | libcurl requests | | longpoll threads |
| API server, menu, log, options | api.c, cgminer.c, logging.c | sockets, screen | | operator |
| USB layer | usbutils.c 40-58, 1977-2014, 2113, 2171-2406, 2467-3020, 3553-3944, 4483-4618; cgminer.c 7025-7091, 10757-10879; driver-gekko.c 6359-6619 | `in_use_head`, lock files, `res_work_head`, `res_reply_head`, `usbinfo`, `zombie_devs` | claim, open, transfer, give up, blacklist, find again | resource thread, hotplug thread, the threads of a stick, menu |
| other drivers, hashing, libraries | driver-*.c, sha2.c, klist.c, noncedup.c, ccan, compat | | | |

How they interact:

- the scheduler asks *failover* for the current pool, makes work from the
  *stratum session* and stages it; staging tests it against *block tracking*,
  which makes the work of everybody outdated at a new block;
- a driver takes staged work through the *queued-work* interface, the gekko
  driver puts it into its ring, and a nonce that solves it is submitted to the
  *stratum shares* of the pool the work came from;
- a lost connection clears the shares and the staged work of its pool and lets
  *failover* choose another; leaving a pool and a share that is unanswered decide
  whether its connection is kept;
- a *stick* is found by the *USB layer*, which gives it a claim and a cgpu; its
  driver threads share a state, and its miner thread is put to sleep, woken and
  watched in the *device lifecycle*; an error of a transfer gives the cgpu up and
  ends the threads, and the next scan may find the device again;
- the operator edits the *pool list* and enables, disables, removes and resets
  devices while all this goes on.

What makes each correct, and which behaviour makes it hard:

- **cglock**: no writer beside anyone else, no second intermediate holder, no
  change of the data under a holder that promotes or downgrades, writers served.
  Hard: four functions pass from one kind of lock to another.
- **staged work queue**: no item leaked, freed twice or used after being freed;
  nobody sleeps on a queue that has what he waits for; `hash_pop` finds an item
  when its count says so. Hard: five kinds of threads, one lock, two conditions
  on it, and a counter that two of the threads do not maintain.
- **stratum shares**: every share counted once and its record freed once, every
  share settled, the connection open exactly while an answer is due. Hard: the
  answer may overtake the entry, the connection may be lost, resumed or renounced
  at any moment, and three threads may dispose of the record.
- **failover**: the best pool that works is used, a backup takes over although its
  connection was closed as not needed, miners are fed. Hard: conditions are
  read without locks, a wakeup can be lost, and five loops poll one another.
- **pool list**: numbers and priorities stay in order, the list keeps the
  operator's order of preference, the guard against disabling the last pool counts
  right. Hard: the list and the priorities are rewritten entry by entry, with no lock, beside
  threads that search them.
- **work ring**: work neither leaked nor freed under the thread that tests a
  nonce on it; nonces with a wrong job id still found. Hard: the miner writes the
  ring and `job_id` without the lock under which the nonce thread reads them.
- **stick states**: a stick that mines has counted its chips and watches its
  temperature; one that cannot is given up; a shutdown ends the threads. Hard:
  no lock at all, and writes that follow a transfer by which time another thread
  may have asked for something else.
- **device lifecycle**: no wakeup lost, an enabled device mines, a stopped one
  rests, a hung one is reset. Hard: two flags and a semaphore that three threads
  change without a lock, one after the other.
- **stratum session**: work that is handed out has the extranonce of a session that is
  in force, no work is made twice unless the pool asks for it, the difficulty set last
  takes effect. Hard: staged
  work outlives the session it was made in, sessions are resumed, and what the pool sends
  takes effect at once in one place and with the next job in another.
- **USB layer**: no use after the close, one live claim for each device, no claim
  left behind, a device that is plugged again is found. Hard: any thread may give a
  device up, in the middle of the others' transfers, and claims are made and dropped
  by a thread of its own, on requests that it takes last come, first served.

The complete list of hazards, each at its line, is in `PROJECT.json`.

## 2. Modules

| module | models or proves |
|---|---|
| `ModeLock` | abstract: a lock with a shared, an intermediate and an exclusive mode, protecting a value |
| `CgLock`, `MCCgLock`, `CgLock_proofs` | the cglock, one step per pthread call; refines `ModeLock` |
| `WorkQueue`, `MCWorkQueue`, `WorkQueue_proofs` | the staged work queue and its threads |
| `StratumShares`, `MCStratumShares`, `StratumShares_proofs` | shares in flight, with both stratum threads of each pool and the prune |
| `Failover`, `MCFailover`, `Failover_proofs` | the choice of pools and the life of their connections |
| `PoolOrder` | abstract: an order of preference, changed at once by each command, written or lost afterwards |
| `PoolList`, `MCPoolList`, `PoolList_proofs` | the pool array and its commands, write by write; refines `PoolOrder` |
| `GekkoWork`, `MCGekkoWork`, `Gekko_proofs` | the work of a stick with BM1397 chips, from `fill_queue` to `submit_nonce` |
| `GekkoStick`, `MCGekkoStick`, `Gekko_proofs` | the states of a stick with BM1397, BM1362 or BM1370 chips and the threads that write them |
| `DeviceLife`, `MCDeviceLife`, `Device_proofs` | a miner thread, those who stop and start it and the watchdog |
| `StratumSession`, `MCStratumSession`, `StratumSession_proofs` | a session with a pool and the work made in it |
| `UsbDevices`, `MCUsbDevices`, `Device_proofs` | claims, use, release and detection of USB devices |

Conventions. Definitions keep the names of the C functions and variables where
they have one. A section under one lock is one step when everything it reads and
writes is under that lock; reads made before a lock is taken, or after it is
given up, are steps of their own. Where there is no lock, a read and a later write with
nothing but assignments between them are one step; a sleep, a transfer or a lock
between them makes two. A process is a variable that says where it is
(`miner`, `gws`, `lp`, `sthread`, `rthread`, `thread`, `mine`, `nonce`, `rthr`, `wthr`,
`nthr`, `tthr`, `watch`, `conn`, `hotplug`, `act`, `pc`) and
the locals it carries along. A definition marked "Mutant" is not used by a
specification: it is a plausible slip in the code, kept to show that a property
would notice it.

### CgLock

`mutex`, `readers`, `writer` are the two pthread locks, `pc[t]` where thread `t`
is: in the caller (`idle`, `read`, `inter`, `write`) or inside a `cg_*` function
between two pthread calls. `data` stands for what the lock protects. `mode`, the
refinement mapping, forgets the inside of the functions: a thread is in a mode as
soon as the last lock it needs is taken. The rwlock is taken to prefer nobody.

### WorkQueue

An item is an address of `Works`; `work[w]` is what is there, `Blank` after
`_free_work`. `staged` is `staged_work` as a set: the hash is sorted by the
second of staging only, so that any order can occur. `NewBlock` makes every
existing item outdated, `NewJob` those of one stratum pool. Work of a pool is cleared
when its connection is lost (`LinkCleared`) and when it is left or not needed
(`LeavePool`), which is possible at any time. Miners are at `pop`, `wait`, `woken`, `check` or
`mining`; the scheduler waits, drops, makes and pushes; the longpoll thread has
the loop of `clone_work` with its `master` and `clone`. Not in the model:
quotas, expiry by age, statistics.

### StratumShares

`share[s]` is where the record of a share is: queued in `stratum_q`, in the hands
of `stratum_sthread`, in `stratum_shares`, freed or dropped. `answer[s]` is what
the pool owes; an answer may be due before the entry is made, lost with the
connection, or read. `session[s]` says whether the share's nonce1 is still that
of the pool, which decides whether it is resent after a reconnection. The
receive thread follows `stratum_rthread` through idling, suspension,
`wait_lpcurrent`, loss, restart and authorisation, in which `auth_stratum` may
swallow the answer to a share. `demand` abstracts everything else that decides
`cnx_needed`.

### Failover

Each pool has a server that comes and goes (`ServerChange`), flags as in the code, and
one thread that is first `test_pool_thread` and then `stratum_rthread`. `wait_lpcurrent`
has two steps, the check and the sleep, because the check is made without `lp_lock`.
`watchpool_thread`, the scheduler's choice of a pool, the miners' `no_work`, rejecting
pools, and what the operator does through the menu or the API (`DisablePool`,
`EnablePool`, `SwitchPool`, `PoolPriority`, `RemoveCurrent`, `ChangeStrategy`) are
actions, at any time and without limit. The list of pools is fixed; a pool that is
removed is one that is disabled and stays so. `stable` is whether a pool has been alive
for `opt_pool_fallback` seconds.

### PoolList and PoolOrder

The operator has two ways in, the menu and the API, each of which does one command
after the other. Those that edit the list are taken write by write: `poolpriority`
names pools in one loop (`NamePool`) and appends the others in a second one
(`AppendPool`), each turn a step; `remove_pool` lowers the priorities pool by pool
(`BoostPool`) and then writes the number of the last pool, the entry, the number of
the removed pool, `removed` and `total_pools`, a step each. Beside every one of them
go `switch_pools` of the other threads, which searches the priorities as they are at
that moment, as `priority_pool` does, with its failure when none is found; `share_result`;
and the switching, enabling and disabling commands of the other way in, so that
`switch_pools(selected)` writes priorities in the middle of the loops. Two edits at
once are not modelled: the program has no protection at all there (the TODO at
api.c:2865).

`rank` is the priority a pool has at rest, and during an edit the one that the rest of
the edit will give it if nobody else writes. `ListInv` says that the ranks are a
permutation at every step, `TurnsOK` and `RemovalOK` how far the loops are.
`raced` is a history variable: a pool other than the first was selected in the middle
of an edit. From then on nothing is claimed of the priorities, as they may be doubled
(section 5); numbers and entries stay in order even so.

`order`, the refinement mapping, compares the ranks of the listed pools, and every
command must change it as `PoolOrder` says: add at the end, remove one, prefer one,
prefer a list. An edit takes effect with its first write and is `busy` until the last;
if it is raced, the order is lost.

### GekkoWork

`ring` is `info->work`, in units of `add_job_id`. `Place` takes the old work out,
`Complete` frees it one turn later under `info->lock`. The listener appends to
`nstore` a nonce that solves a task the chips have, with an arbitrary reported
id, or noise; the nonce thread looks at the reported slot and then at those
`JOB_ID_ROLL` leads to, one read at a time, while `job_id` moves on.
`JOB_ID_ROLL` keeps its uint32_t arithmetic (`WordModSpan` is 2^32 reduced by the
number of ids). Whether the mining thread may send now, which depends on states,
frequencies and time, is left open.

### GekkoStick

`mining_state` and the threads that write it: the miner thread in `compac_scanwork`,
`rthr` in `compac_listen2`, `wthr` in `compac_mine2`, `nthr` of the nonces, and `tthr` in
`compac_telemetry`. The miner thread handles quick states in one step
(`ScanQuick`), and those with transfers or sleeps in two: it reads the state, and
writes the next later. `kind` is which stick it is; a GSA2 has `MINER_REINIT` where
the others have `MINER_RESET` (`Reset`). Chips answer or not, telemetry works or
not, hash rates suffice or not, at will. `init_count` is the stick's own count,
`dev_init_count` that of its address, and `pointer` says whose count the static
pointer `init_count` of the driver points to: other sticks are prepared and count
their chips at any time and any number of times (`OtherPrepares`, `OtherForgives`), as
every stick does at each reset. `overwritten` is a history variable: a thread wrote the
state over one that it had not seen. The driver counts to 5 and 10 in a byte; the
instance counts to 2 in two bits.

### DeviceLife

`hash_queued_work` in a loop of `fill`, `get`, `scan`, `scanned`, then back or, if
the device is stopped, through `mt_disable` to `asleep`. `sem` is the semaphore;
the posts of the API, the menu and the watchdog follow the flag they set as
steps of their own (`posting`). `watch` is the watchdog: the schedule's stop and start, and then
each device in turn. `last` and `sick` keep of the clock what the watchdog
compares: within 60 seconds, within 600, more; and whether the last reset is a
minute old. `scanwork` may hang and come back.

### StratumSession

`stratum_rthread` is down, subscribing, subscribed, being authorised, up, or dropping
its staged work; `set_difficulty`, `notify` and `set_extranonce` are handled wherever it
waits for an answer. What the pool sends is arbitrary: a job of any name, clean or not,
in any session, any extranonce in the answer to a subscription, also an earlier one, and
a notify that fails at once (`BadNotify`) or late, when the name of the job is taken
already (`BadContent`). A job stands for what it holds, so a job of the same name is the
same job.

Pieces of work do not act on one another. One is watched, whichever it is (`Watch` may
take any that is made); of the others only `nonce2` counts them. `work` is its job,
the nonce1 in its coinbase and its nonce2; `place` is where it is. The scheduler
looks at the flags first (`Choose`) and makes work later; a miner takes work, looks at the
flags (`Pass`) and at the job (`Hand`), as `stale_work` does.

History variables: `seen`, the nonce1s of the session since `Pass`; `lagging`, the
session's nonce1 may not be that of the coinbase it offers, because of set_extranonce or
a job that came before the subscription was answered; `renamed`, the name of the work's
job was sent again with another extranonce; `past`, whether nonce2 started again since
the work was made, and with its job; `latest`, the last difficulty set. `FitsSession`
compares the work that is handed out with the session in force while `stale_work`
looked. The submission of a share is later: `stratum_sthread` sends it without a look at
the session (cgminer.c:7757).

`MCStratumSession` has behaviours that set difficulties and behaviours that watch a
piece of work (`about`), as no action reads both; the specification that is proved has
both at once.

### UsbDevices

Addresses are a bus and a device number; a device may be plugged, unplugged or fail at
any time. `inUse`, `lockfile`, `work`, `reply` are the lists of the code; `serving` is
`cgusbres_lock`, which the resource thread keeps until no request is left. `act[c][t]`
is what thread `t` does with cgpu `c`; `CanRead` and `CanWrite` are its devlock, which
`blacklist_cgpu` (`Bare`) does not take; it looks (`BlacklistAsks`), makes its entry
(`Blacklist`) and gives the cgpu up (`BlacklistRelease`) in three steps. `stage` is how
far hotplug brought a cgpu up. The blacklist entry is linked to the list in use
(usbutils.c:2113), so that `__is_in_use` may walk into entries that were freed:
`IsInUse` is then any answer.

## 3. Runs

| run | instance | what it shows |
|---|---|---|
| `cglock` | 4 threads, 2 values | exclusion, stillness of the data, refinement of `ModeLock`, writers served. Four threads are two readers, a writer behind them and a second writer |
| `workqueue_safety` | 2 miners, 1 stratum pool, the longpoll pool, 4 items, `max_queue` 1 as in the code, at most 2 rollable | ownership of items, `hash_pop` finds one, no lost wakeup, scheduler and miners never sleep on each other. Four items fill the queue (miners + 1) and leave one in hand |
| `workqueue_liveness` | the same with 3 items and nothing rollable | hungry miners are served once blocks, jobs, disconnections and changes of pool cease |
| `shares` | 1 pool, 2 shares | counted once; `sshares` covers the table; every share is settled. Pools do not share state here, and the proofs are for any number |
| `failover` | 2 pools, rejecting pools disabled | backup takes over, primary is returned to unless its thread missed its wakeup, miners fed, idle pools retried |
| `failover_wakeup` (violation) | the same | a recovered primary can stay unused |
| `poollist` | 3 pools, one uncounted write of the API | numbers and priorities in order at every write, enabled pools counted, refinement of `PoolOrder` |
| `gekko_work` | ids 1, then 2-4, 2 attempts, 5 addresses, 1 restart thread, 1 nonce waiting | ownership of work, no nonce tested on freed work, wrong ids recovered while `job_id` is not set back |
| `stick` | each kind of stick, other sticks beside it without limit, 1 reset by the API | mining with counted chips and watched temperature, a hopeless stick given up once the others leave its count alone, a shutdown ends the threads |
| `device` | 1 device, API and menu, up to 2 posts | no lost wakeup, enabled devices mine, stopped ones rest, hung ones are reset |
| `stratum` | 2 jobs, 2 extranonces, 2 difficulties, nonce2 up to 2, 1 watched piece of work | work fits a session in force, none twice unless asked for, the last difficulty in force or waiting |
| `usb` | a stick and an excluded device, 2 cgpus, 2 threads, 1 blacklisting | no use after close, claims live, none left behind, libusb initialised again only when unused, a device that stays returns |

The type invariants that section 4 proves are not among the runs' properties;
`poollist`, `stick` and `usb` check the whole inductive invariant. Those of the other
modules were checked on the same instances before they were proved, and follow the
runs' properties in the modules.

Bounds. Every bound is a constant or is named with the guard that uses it:
`Works`, `MaxRollable`, `Shares`, `MaxDirect`, `EditRaced`, `MaxNonces`, `MaxResets`,
`MaxPosts`, `MaxJobs`, `MaxNonce1`, `MaxNonce2`, `MaxCgpus`,
`MaxBlacklisted`. Model values are
permuted (SYMMETRY) in runs without liveness only. `MaxRollable` is needed because
`staged_rollable` can drift upward for ever (section 5), `MaxDirect` because the
API writes `enabled` without counting, so that the counter can grow; with `EditRaced`
false the list is not edited again after a race, of which nothing more is claimed. The ring of
three ids beyond the first is the smallest in which 2^32 is no multiple of the
number of ids, as it is not of the 112 ids of a BM1397. `NodevEvery`,
`DisableAbove`, `TELEM_FAIL_MAX` and `CountSize` are the driver's 5, 10, its limit of
failures and 256, scaled down so that each is passed: the count is dropped at, goes
past the last drop, and wraps. Two posts are an operator's that is left over and one
that is due. Two extranonces are an old one and a new one, each of which a session or
set_extranonce may bring back; two jobs are that of the work and another; two cgpus are a
device that is given up and the same device found
again. Two devices in `DeviceLife` share only the watchdog's pass, and the proof
is for any number.

Deadlock is checked, except in `poollist`, `shares` and `stick`. Once the current
pool has been removed (section 5), the program reads entries of `pools` that were
never written, and the model has no step for that; a removed pool with all its
shares settled, and a stick that was unplugged and whose threads ended, have
nothing left to do.

Fairness. `CgLock`: a thread inside a `cg_*` function goes on when its pthread call can
return, and a holder gives the lock up in the end, because the critical sections are
finite code without blocking calls; strong fairness, since a holder may promote and
demote meanwhile. Nothing is assumed of the order in which waiters are served.
`WorkQueue`: each thread runs when it can, and a lost pool is reconnected, which
`stratum_rthread` retries every five seconds; the timeout of `hash_pop` and spurious
wakeups may happen and are not relied on. `StratumShares`: the send thread runs, the
watchpool prunes every five seconds and time passes; nothing is asked of the pool or the
receive thread. `Failover`: pool threads, watchpool (5 s), scheduler (5 ms while no pool
is usable) and `hash_pop` (10 s) run; making work is strongly fair, as it takes
milliseconds while connections come and go in seconds. Servers, rejections and the
operator are never fair, and a thread that overslept a wakeup is woken by the next
`switch_pools` only. `GekkoStick`: the threads run; nothing is asked of the chips, the
bus or the operator. `GivenUp` asks of the other sticks that they stop forgiving in the
end. `DeviceLife`: the watchdog runs every two seconds, a post that is due follows, time
passes, and a miner thread runs unless its scan hangs. `UsbDevices`: the resource and
the hotplug thread run, a thread that gives a cgpu up goes on, and the threads of a
stick use it again and again, so that they notice that it is gone; a transfer ends
because `callback_wait` cancels it. `StratumSession` states no liveness: everything
there waits for the pool. The liveness properties say what they need of them ("once the
pool stays reachable and enabled") as premises.

## 4. Proofs

| module | theorems | argument |
|---|---|---|
| `CgLock_proofs` | `LockInvariant`, `ExclusionHolds`, `DataHoldsStill`, `Refinement` | `LockInv` ties the holder of the mutex, the set of readers and the writer to the `pc` of the threads; exclusion follows from it, stillness needs the invariant before each step, the refinement maps each step to one of `ModeLock` or a stutter |
| `WorkQueue_proofs` | `WorkQueueInvariant`, `OwnedOnceHolds`, `PopFindsWorkHolds`, `NoMinerSleepsOnWorkHolds`, `NoMutualSleepHolds` | `IInv`: ownership is not inductive without the program points at which each pointer is set (`PointersMatch`), and `PopFindsWork` rests on `RollableBound`, which counts rollable items and needs to know that items in hand are not rollable |
| `StratumShares_proofs` | `ShareInvariant`, `CountedOnceHolds`, `AwaitedIsCountedHolds` | `ShareInv`: a share in the hands of a sender is held by exactly one (`HeldOwn`, `SendingHeld`), and an answer is read once (`AnswerMatches`); then every way to free a record counts it. `AwaitedIsCounted` is about cardinalities of the table |
| `PoolList_proofs` | `PoolListInvariant`, `EnabledCountedHolds`, `Refinement` | `ListInv`: that the priorities are a permutation is not inductive, as they are none in the middle of a loop. What is, is that the ranks are, the priorities at the end of the loops: a turn of `NamePool`, `AppendPool` or `BoostPool` leaves every rank as it was (`NameTurn`, `AppendTurn`, `BoostTurn`), which needs how far the loop is (`TurnsOK`), and a removal leaves the last pool with two entries for a while (`NumbersMatch`, `RemovalOK`). `PrioFirstOK` is the permutation that a selection makes. For the refinement the order is compared by rank (`OrderFacts`), so that all turns but the first are stutters (`SameOrder`), and the first one serves the request or removes the pool (`ServeStep`, `RemoveStep`) |
| `Failover_proofs` | `FailoverInvariant`, `IdleIsRetriedHolds`, `TypeOKHolds` | `IdleInv` = `TypeOK` and `IdleIsRetried`: `switch_pools` chooses a pool whatever the strategy (the least element of a set of priorities exists by well-foundedness), and its broadcast moves only threads that wait, never one that tries an idle pool |
| `Gekko_proofs`, of `GekkoWork` | `GekkoInvariant`, `WorkOwnedHolds`, `NonceWorkLiveHolds` | `GekkoInv`: where each thread is says which pointers are set (`MineMatches`), each address is in one place, and found work stays queued because `Complete` waits for `info->lock`; `RollInSlots` shows that `JOB_ID_ROLL` never leaves the ring, whatever its arithmetic does |
| | `LookupInvariant`, `RecoveredUnlessRolledHolds` | `LookupInv`: the tries count back from `job_id`, which moves away from the ids of older tasks, so that they pass no task by (`NotPassed`); setting `job_id` back ends what is claimed, as then the newest id is above it (`JobMatches`); new work cannot be that of a nonce already read, whose work is still in the ring or was just taken out (`OfInRing`) |
| `Gekko_proofs`, of `GekkoStick` | `StickInvariant`, `MinesWithChipsHolds`, `OverheatWatchedHolds` | `StickInv`: what a mining stick must have it has from the count of the chips on, in the state that is written and in that which the miner read (`BroughtTo`); telemetry is taken away only before, as no thread starts to count while the miner opens the cores (`TelemetryKnown`) |
| `Device_proofs`, of `DeviceLife` | `DeviceInvariant`, `TypeOKHolds`, `SleeperHasReasonHolds` | `DeviceInv` is `TypeOK` and `SleeperHasReason`, which is inductive with it: a flag is set before its post is owed and the post is paid after, and between them `posting` says so, so that each of the three threads leaves a reason for the sleeper |
| `Device_proofs`, of `UsbDevices` | `BusInvariant`, `UseLiveHolds`, `LiveIsClaimedHolds`, `ClaimIsUsedHolds`, `ReinitUnusedHolds` | `BusInv`: a device is closed by the one thread that marked it gone first, under its lock (`NodevFirst`, `DevlockHeld`); requests about an address are asked and answered one at a time (`AskedOnce`); at most one cgpu or the hotplug thread has the claim in hand (`ClaimInHand`, `OneHand`), and `total_devices` and `zombie_devs` count the cgpus that were started and those of them that are gone (`Counts`), which is what lets `reinit` conclude that none is used |
| `StratumSession_proofs` | `SessionInvariant`, `FitsSessionHolds`, `NoWorkTwiceHolds`, `LatestDiffHolds` | `SessionInv`, with no assumption on what the pool sends: `SessionFlags`, a session that offers a job is active and has its extranonce unless it lags; `Fits`, work of the job's name has the coinbase of the job unless it was renamed, and a coinbase is one seen since `Pass`, so that the two looks of `stale_work` together tell what each alone would not; `Beyond`, until a clean job nonce2 is past the work's, and after it the job is another until the work's own comes again; `DiffOrder` orders the waiting difficulties |

Assumptions are those named in the modules: finite sets where counts are taken,
null values that are no addresses, natural bounds, at least one attempt, and
`min_job_id < max_job_id`, as the driver has for every stick (driver-gekko.c
6436-6619). Nothing else is assumed; every bound of the runs is arbitrary in the
proofs.

Model-checked only: the liveness properties (`HungryMinersServed`, `WriterServed`,
`BackupTakesOver`, `PrimaryReturns`, `MinersFed`, `ShareSettled`, `GivenUp`,
`ShutdownEnds`, `EnabledMines`, `StoppedRests`, `HungIsReset`, `DeviceReturns`). They
rest on fairness, and so on ENABLED, of which the prover cannot reason. Every other
property of a passing run is a theorem.

## 5. What was found

A violation that a run shows, against a statement of the repository:

- `wait_lpcurrent` (cgminer.c:9561) checks before it takes `lp_lock`, so that the
  wakeup for a pool enabled again is lost; while the backup is stable the pool
  is not used again (docs/README.txt:1090 promises that earlier pools are moved
  back to). The same happens to a pool the operator switches to, whether or not it was
  ever disabled. `PrimaryReturns` shows that nothing else keeps the primary away.

Observations, without a run of their own:

- `prune_stratum_shares` (cgminer.c:9819) removes shares without lowering
  `pool->sshares`; the connection of a backup then counts as needed for ever
  (cgminer.c:7508).
- `removepool` (api.c:3041) checks that the pool is not the active one long before it
  removes it; a switch in between removes the active pool.
- A pool that is selected (cgminer.c:5754) through the menu while `poolpriority`
  (api.c:2907) or `remove_pool` (cgminer.c:6256) writes the priorities may leave one
  priority to two pools and another to none: `priority_pool` then logs "WTF No pool
  found" and takes the pool with that number (5739). `ListInv` excepts such a list
  (`raced`). Without a selection, `switch_pools` may meet such a moment and choose by
  it, and the next call corrects it.
- `JOB_ID_ROLL` (driver-gekko.h:186) wraps at 2^32, not in the range of ids: after
  `job_id` was set back to its minimum, the nonces of the tasks before it that come with
  a wrong id are dumped as hardware errors.
- `staged_rollable` is not lowered by `discard_stale` and `clear_pool_work`. It only
  errs upward (`RollableBound` is part of the proved invariant).
- The API writes `pool->enabled` directly (api.c:2853, 3002), so that the guard against
  disabling the last pool counts wrongly; `EnabledCounted` holds as long as only the
  counting functions were used.
- Under round robin, `switch_pools(NULL)` moves on whenever it is called, and it is
  called when any pool comes alive (cgminer.c:10314), where docs/README.txt:1093 says
  that it moves "when the current one falls idle and makes no attempt to move
  otherwise".
- `job_id` starts at 0, below `min_job_id`: the first few tasks of a stick use slots
  that are never used again, and their work is kept until the end.
- Sticks. A reset that the mining, telemetry or API thread writes after
  `compac_shutdown` wrote MINER_SHUTDOWN keeps the driver's threads, which are detached,
  for ever (`ShutdownEnds` asks that the shutdown lasts). The listener
  (driver-gekko.c:5054) and the nonce thread (2300) write the state over what others
  wrote meanwhile; `MinesWithChips` and `OverheatWatched` except such a stick. A BM1370
  stick is reset through MINER_REINIT, which no count limits, and so is never given up.
  `init_count` is one pointer for all sticks (5195), so that a stick's count may survive
  its good count and drop it early, or be cleared by another stick's good counts again
  and again, so that it is never given up (`GivenUp` asks that this ends).
- Devices. A device that is disabled at the scheduled start, and enabled later, stays
  paused until the next start (cgminer.c:10032). One that is plugged during the pause
  mines all the same (10805). After a long pause the watchdog may find the device sick
  at once, as `thr->last` is old (10063). A device that is unplugged while it sleeps
  never wakes, and `compac_shutdown` is not called for it.
- Sessions. `parse_notify` sets nonce2 to 0 at a clean job, whatever its name
  (util.c:2417): a pool that lets a session be resumed, with its extranonce, and sends
  its last job clean, has the same work hashed again. `NoWorkTwice` shows that it takes
  that. A share is first sent without comparing its nonce1 with the session's
  (cgminer.c:7757), as a resent one is (7784). A notify that fails late has taken the
  name of the job, and if it is clean set nonce2 back (util.c:2374, 2417). A difficulty
  that is set before the answer to mining.subscribe is forgotten (util.c:3522). Between
  mining.set_extranonce and the next job, work is hashed with one nonce1 and submitted
  with the other (util.c:2583). A scheduler that chose the pool before a resumption
  failed copies a nonce1 that is NULL (util.c:3536, cgminer.c:8444).
- USB. `blacklist_cgpu` gives the device up without the lock that the comment at
  usbutils.c:2318 says is picked up (2380); its entry is linked into the list of devices
  in use (2113), so that removing it later may remove a claim instead. `zombie_devs` is
  counted without a lock and before the device is closed, and not at all for a device
  that is given up during detection, though it is added and counted in `total_devices`:
  libusb is then not initialised again (2336, cgminer.c:10870). A lock file is closed
  before it is unlinked (4552), and another cgminer may take it in between. A lock file
  whose claim was removed by whitelisting stays (4548). The cgpu of a stick that the
  options exclude is not freed, at each scan (driver-gekko.c:6393).

## 6. Not modelled, and why

Other vendors' drivers (some forty, most of the lines of the repository: other hardware,
and not what this fork is for); sockets, curl and JSON (I/O); display, log and options
(layout); SHA-256 (a pure function test vectors decide); vendored libraries. In the
gekko driver, the frequency, voltage and temperature loops, which are floating point
control of hardware, and the paths of older sticks (`compac_listen`, `compac_mine`). In
the USB layer, the list of asynchronous transfers, `usb_cleanup` at the end of the
program, statistics, cgpus that share a device and the limits on devices. In a session,
the target of client.reconnect, the size of nonce2 and the version mask. Two edits of
the list of pools at once. Components that are within reach and still missing are in the
plan.

## 7. Plan

1. `ThreadQueue` (`tq_*`, `tq_freeze`) with an abstract FIFO it implements, and
   `StratumShares` over it.
2. `BlockTracker`: `block_exists`, `set_curblock` and `work_block` under several
   threads; what `WorkQueue` takes as one step of `NewBlock`.
3. `Quota`: `select_pool` and `adjust_quota_gcd`, a bounded comparison with the
   proportional share.
4. A composition of `StratumShares` and `Failover` in which `demand` is no longer
   free but what `switch_pools` makes it, and of `DeviceLife` with `UsbDevices`,
   which now give each other `nodev` as a free choice.
5. Proofs: the steps of the liveness arguments that are about single steps, such as
   that no other thread takes from a fair one what it waits for; the invariants of
   each new module.

Runs are kept few: a new module first joins runs of an older one that ask
neighbouring questions.
