----------------------------- MODULE DeviceLife -----------------------------
(***************************************************************************)
(* A device's miner thread (hash_queued_work), which sleeps on its         *)
(* semaphore when the device is disabled or paused, and those who put it   *)
(* to sleep, wake it and watch it: the watchdog with its schedule, the     *)
(* operator through the API and through the menu, and the hotplug thread.  *)
(*                                                                         *)
(* The flags deven and pause are written, and read, without a lock; a post *)
(* on the semaphore follows as a step of its own.  The time of day, the    *)
(* bus and how long a transfer takes are left open.  cgminer keeps running *)
(* (schedstart is enabled), opt_restart is on, and there is always work.   *)
(***************************************************************************)
EXTENDS Integers

CONSTANTS
    Devices,
    Operators,      \* the API server and the menu
    NoDevice,
    MaxPosts        \* bound: posts on a semaphore that are asked for

ASSUME NoDeviceAssumption == NoDevice \notin Devices
ASSUME WatchdogAssumption == "watchdog" \notin Operators
ASSUME PostsAssumption == MaxPosts \in Nat \ {0}

VARIABLES
    attached,       \* the devices that were started
    deven,
    unplugged,      \* cgpu->usbinfo.nodev
    pause,
    sem,            \* the posts on thr->sem
    miner,          \* where the miner thread is
    status,         \* cgpu->status; the thread makes LIFE_INIT LIFE_WELL at once
    last,           \* how long ago the thread reported: up to WATCHDOG_SICK_TIME,
                    \* up to WATCHDOG_DEAD_TIME, or longer
    sick,           \* whether thr->sick is more than a minute ago
    posting,        \* for whom the post of an operator or of the watchdog is due
    sched_paused,
    watch, seen     \* where the watchdog is, and the devices it went through

flags == <<deven, unplugged, pause>>
health == <<status, last, sick>>
watchdog == <<sched_paused, watch, seen>>
vars == <<attached, flags, sem, miner, health, posting, watchdog>>

Askers == Operators \cup {"watchdog"}

\* thr->getwork
getwork(d) == miner[d] \in {"first", "get"}

Stopped(d) == deven[d] = "DISABLED" \/ pause[d]

Due(d) == \E a \in Askers : posting[a] = d

\* Some devices are found when cgminer starts, and their threads started.
Init ==
    /\ attached \in SUBSET Devices
    /\ deven \in [Devices -> {"ENABLED", "DISABLED"}]
    /\ unplugged = [d \in Devices |-> FALSE]
    /\ pause = [d \in Devices |-> FALSE]
    /\ sem = [d \in Devices |-> IF d \in attached /\ deven[d] = "ENABLED" THEN 1 ELSE 0]
    /\ miner = [d \in Devices |-> IF d \in attached THEN "first" ELSE "none"]
    /\ status = [d \in Devices |-> "WELL"]
    /\ last = [d \in Devices |-> "now"]
    /\ sick = [d \in Devices |-> TRUE]
    /\ posting = [a \in Askers |-> NoDevice]
    /\ sched_paused = FALSE /\ watch = "top" /\ seen = {}

---------------------------------------------------------------------------
(* The miner thread *)

Goes(d, from, to) == miner[d] = from /\ miner' = [miner EXCEPT ![d] = to]

\* thread_reportin and thread_reportout
Report(d) ==
    /\ last' = [last EXCEPT ![d] = "now"]
    /\ status' = [status EXCEPT ![d] = "WELL"]

\* cgsem_wait of miner_thread, and that of mt_disable
Wake(d) ==
    /\ miner[d] \in {"first", "asleep"} /\ sem[d] > 0
    /\ sem' = [sem EXCEPT ![d] = @ - 1]
    /\ miner' = [miner EXCEPT ![d] = "fill"]
    /\ UNCHANGED <<flags, health>>

\* fill_queue: work is got, unless some is left ...
GetWork(d) ==
    /\ Goes(d, "fill", "get")
    /\ Report(d)
    /\ UNCHANGED <<flags, sem, sick>>

HasWork(d) ==
    /\ Goes(d, "fill", "scan")
    /\ UNCHANGED <<flags, sem, health>>

GotWork(d) ==
    /\ Goes(d, "get", "scan")
    /\ Report(d)
    /\ UNCHANGED <<flags, sem, sick>>

\* ... then scanwork, and hashmeter, which sets thr->last only.
Scan(d) ==
    /\ Goes(d, "scan", "scanned") /\ ~unplugged[d]
    /\ last' = [last EXCEPT ![d] = "now"]
    /\ UNCHANGED <<flags, sem, status, sick>>

\* scanwork is -1: the thread ends.
Gone(d) ==
    /\ Goes(d, "scan", "ended") /\ unplugged[d]
    /\ deven' = [deven EXCEPT ![d] = "DISABLED"]
    /\ UNCHANGED <<unplugged, pause, sem, health>>

\* scanwork does not return, or returns after all.
Hang(d) ==
    /\ Goes(d, "scan", "hung")
    /\ UNCHANGED <<flags, sem, health>>

Unhang(d) ==
    /\ Goes(d, "hung", "scan")
    /\ UNCHANGED <<flags, sem, health>>

\* Mutant: mt_disable only for a device that is disabled and paused.
Rest_both(d) ==
    /\ Goes(d, "scanned", IF deven[d] = "DISABLED" /\ pause[d] THEN "stopping" ELSE "fill")
    /\ UNCHANGED <<flags, sem, health>>

\* mt_disable, or the next round
Rest(d) ==
    /\ Goes(d, "scanned", IF Stopped(d) THEN "stopping" ELSE "fill")
    /\ UNCHANGED <<flags, sem, health>>

MtDisable(d) ==
    /\ Goes(d, "stopping", "asleep")
    /\ UNCHANGED <<flags, sem, health>>

Runs(d) ==
    \/ Wake(d) \/ GetWork(d) \/ HasWork(d) \/ GotWork(d)
    \/ Scan(d) \/ Gone(d) \/ Rest(d) \/ MtDisable(d)

Miner(d) ==
    /\ Runs(d) \/ Hang(d) \/ Unhang(d)
    /\ UNCHANGED <<attached, posting, watchdog>>

---------------------------------------------------------------------------
(* Those who wake it *)

\* Mutant: a signal in the place of the post, which is lost on a thread that
\* does not sleep yet.
Post_signal(a) ==
    /\ posting[a] # NoDevice
    /\ LET d == posting[a]
       IN sem' = [sem EXCEPT ![d] = IF miner[d] \in {"first", "asleep"} THEN @ + 1 ELSE @]
    /\ posting' = [posting EXCEPT ![a] = NoDevice]
    /\ UNCHANGED <<attached, flags, miner, health, watchdog>>

Post(a) ==
    /\ posting[a] # NoDevice
    /\ sem' = [sem EXCEPT ![posting[a]] = @ + 1]
    /\ posting' = [posting EXCEPT ![a] = NoDevice]
    /\ UNCHANGED <<attached, flags, miner, health, watchdog>>

\* pgaenable refuses a device that is enabled, the menu does not; both refuse
\* one that was removed.
Enable(a, d) ==
    /\ posting[a] = NoDevice /\ d \in attached /\ ~unplugged[d] /\ sem[d] < MaxPosts
    /\ a = "api" => deven[d] = "DISABLED"
    /\ deven' = [deven EXCEPT ![d] = "ENABLED"]
    /\ posting' = [posting EXCEPT ![a] = d]
    /\ UNCHANGED <<attached, unplugged, pause, sem, miner, health, watchdog>>

\* pgadisable, and the menu
Disable(d) ==
    /\ d \in attached /\ deven[d] = "ENABLED"
    /\ deven' = [deven EXCEPT ![d] = "DISABLED"]
    /\ UNCHANGED <<attached, unplugged, pause, sem, miner, health, posting, watchdog>>

\* usb_nodev: of the menu, of the driver or of the usb layer
Unplug(d) ==
    /\ d \in attached /\ ~unplugged[d]
    /\ unplugged' = [unplugged EXCEPT ![d] = TRUE]
    /\ UNCHANGED <<attached, deven, pause, sem, miner, health, posting, watchdog>>

\* hotplug_process, under mining_thr_lock.  The schedule is not looked at.
Hotplug(d) ==
    /\ d \notin attached
    /\ attached' = attached \cup {d}
    /\ miner' = [miner EXCEPT ![d] = "first"]
    /\ sem' = [sem EXCEPT ![d] = IF deven[d] = "ENABLED" THEN 1 ELSE 0]
    /\ last' = [last EXCEPT ![d] = "now"]
    /\ UNCHANGED <<flags, status, sick, posting, watchdog>>

---------------------------------------------------------------------------
(* watchdog_thread *)

\* The stop time has come ...
Stop ==
    /\ watch = "top" /\ ~sched_paused /\ \A d \in Devices : sem[d] < MaxPosts
    /\ sched_paused' = TRUE /\ watch' = "devices"
    /\ pause' = [d \in Devices |-> pause[d] \/ d \in attached]
    /\ UNCHANGED <<attached, deven, unplugged, sem, miner, health, posting, seen>>

\* ... or the start time ...
Start ==
    /\ watch = "top" /\ sched_paused
    /\ sched_paused' = FALSE /\ watch' = "start"
    /\ UNCHANGED <<attached, flags, sem, miner, health, posting, seen>>

\* "Don't touch disabled devices"
StartThread(d) ==
    /\ watch = "start" /\ posting["watchdog"] = NoDevice /\ d \in attached \ seen
    /\ seen' = seen \cup {d}
    /\ IF deven[d] = "DISABLED"
          THEN UNCHANGED <<pause, posting>>
          ELSE /\ pause' = [pause EXCEPT ![d] = FALSE]
               /\ posting' = [posting EXCEPT !["watchdog"] = d]
    /\ UNCHANGED <<attached, deven, unplugged, sem, miner, health, sched_paused, watch>>

Started ==
    /\ watch = "start" /\ posting["watchdog"] = NoDevice /\ attached \subseteq seen
    /\ watch' = "devices" /\ seen' = {}
    /\ UNCHANGED <<attached, flags, sem, miner, health, posting, sched_paused>>

\* ... or neither.
Pass ==
    /\ watch = "top" /\ watch' = "devices"
    /\ UNCHANGED <<attached, flags, sem, miner, health, posting, sched_paused, seen>>

Looks(d) ==
    /\ watch = "devices" /\ d \in attached \ seen
    /\ seen' = seen \cup {d}
    /\ UNCHANGED <<attached, flags, sem, miner, last, posting, sched_paused, watch>>

Watched(d) == ~getwork(d) /\ ~Stopped(d)

Recovered(d) == status[d] # "WELL" /\ last[d] = "now"
FallsSick(d) == status[d] = "WELL" /\ last[d] # "now"
Dies(d) == status[d] = "SICK" /\ last[d] = "dead"
Again(d) == sick[d] /\ status[d] # "WELL" /\ ~Recovered(d) /\ ~Dies(d)

\* The device is reset ...
WatchSick(d) ==
    /\ Looks(d) /\ Watched(d) /\ FallsSick(d)
    /\ status' = [status EXCEPT ![d] = "SICK"] /\ sick' = [sick EXCEPT ![d] = FALSE]

\* Mutant: not if it is dead.
WatchAgain_alive(d) ==
    /\ Looks(d) /\ Watched(d) /\ Again(d) /\ status[d] = "SICK"
    /\ sick' = [sick EXCEPT ![d] = FALSE]
    /\ UNCHANGED status

\* ... and again every minute ...
WatchAgain(d) ==
    /\ Looks(d) /\ Watched(d) /\ Again(d)
    /\ sick' = [sick EXCEPT ![d] = FALSE]
    /\ UNCHANGED status

WatchDead(d) ==
    /\ Looks(d) /\ Watched(d) /\ Dies(d)
    /\ status' = [status EXCEPT ![d] = "DEAD"] /\ sick' = [sick EXCEPT ![d] = FALSE]

\* ... until it reports.
WatchWell(d) ==
    /\ Looks(d) /\ Watched(d) /\ Recovered(d)
    /\ status' = [status EXCEPT ![d] = "WELL"]
    /\ UNCHANGED sick

WatchSkip(d) ==
    /\ Looks(d)
    /\ Watched(d) => ~Recovered(d) /\ ~FallsSick(d) /\ ~Dies(d) /\ ~Again(d)
    /\ UNCHANGED <<status, sick>>

Sleep ==
    /\ watch = "devices" /\ attached \subseteq seen
    /\ watch' = "top" /\ seen' = {}
    /\ UNCHANGED <<attached, flags, sem, miner, health, posting, sched_paused>>

Watchdog ==
    \/ Stop \/ Start \/ Started \/ Pass \/ Sleep
    \/ \E d \in Devices : \/ StartThread(d) \/ WatchSick(d) \/ WatchAgain(d) \/ WatchDead(d)
                          \/ WatchWell(d) \/ WatchSkip(d)

---------------------------------------------------------------------------
\* Time passes, since a device reported or since it was last reset.
Ages(d) ==
    /\ d \in attached
    /\ \/ /\ last[d] # "dead"
          /\ last' = [last EXCEPT ![d] = IF @ = "now" THEN "sick" ELSE "dead"]
          /\ UNCHANGED sick
       \/ ~sick[d] /\ sick' = [sick EXCEPT ![d] = TRUE] /\ UNCHANGED last
    /\ UNCHANGED <<attached, flags, sem, miner, status, posting, watchdog>>

Next ==
    \/ \E d \in Devices : Miner(d) \/ Disable(d) \/ Unplug(d) \/ Hotplug(d) \/ Ages(d)
    \/ \E a \in Operators, d \in Devices : Enable(a, d)
    \/ \E a \in Askers : Post(a)
    \/ Watchdog

Spec == Init /\ [][Next]_vars

\* A miner thread runs, but for a scan that hangs; the watchdog runs, a post
\* that is due is made, and time passes.
FairSpec ==
    /\ Spec
    /\ \A d \in Devices : WF_vars(Runs(d) /\ UNCHANGED <<attached, posting, watchdog>>)
    /\ \A d \in Devices : WF_vars(Ages(d))
    /\ \A a \in Askers : WF_vars(Post(a))
    /\ WF_vars(Watchdog)

---------------------------------------------------------------------------
TypeOK ==
    /\ attached \subseteq Devices
    /\ deven \in [Devices -> {"ENABLED", "DISABLED"}]
    /\ unplugged \in [Devices -> BOOLEAN] /\ pause \in [Devices -> BOOLEAN]
    /\ sem \in [Devices -> Nat]
    /\ miner \in [Devices -> {"none", "first", "fill", "get", "scan", "hung", "scanned",
                              "stopping", "asleep", "ended"}]
    /\ status \in [Devices -> {"WELL", "SICK", "DEAD"}]
    /\ last \in [Devices -> {"now", "sick", "dead"}] /\ sick \in [Devices -> BOOLEAN]
    /\ posting \in [Askers -> Devices \cup {NoDevice}]
    /\ sched_paused \in BOOLEAN /\ watch \in {"top", "start", "devices"}
    /\ seen \subseteq Devices

\* No wakeup is lost: a thread that sleeps or is about to, and has no post to
\* wake it, is disabled or paused, or its post is due, whoever enables,
\* disables and starts it at the same time.
SleeperHasReason ==
    \A d \in attached :
        miner[d] \in {"first", "stopping", "asleep"} /\ sem[d] = 0 => Stopped(d) \/ Due(d)

\* A device that stays enabled and is no longer paused mines, again and again.
EnabledMines ==
    \A d \in Devices :
        <>[](d \in attached /\ ~Stopped(d) /\ ~unplugged[d] /\ miner[d] # "hung")
            => []<>(miner[d] = "scan")

\* A device that stays disabled, or paused and no longer asked for, rests in
\* the end, whatever posts are left over.
StoppedRests ==
    \A d \in Devices :
        <>[](Stopped(d) /\ ~Due(d) /\ miner[d] # "hung") => <>[](miner[d] # "scan")

\* A thread that hangs is reset by the watchdog, again and again.
HungIsReset ==
    \A d \in Devices :
        <>[](miner[d] = "hung" /\ ~Stopped(d)) => []<><<WatchSick(d) \/ WatchAgain(d)>>_vars

=============================================================================
