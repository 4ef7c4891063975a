---------------------------- MODULE Device_proofs ----------------------------
(***************************************************************************)
(* Proofs about devices: of the miner thread that is put to sleep and      *)
(* woken (DeviceLife), for any devices, operators and bound of posts; and  *)
(* of the usb layer below (UsbDevices), that BusInv is inductive for any   *)
(* addresses, threads and number of cgpus.  The two have no variable in    *)
(* common.                                                                 *)
(***************************************************************************)
EXTENDS DeviceLife, UsbDevices, FiniteSetTheorems, SequenceTheorems, TLAPS

---------------------------------------------------------------------------
(* The miner thread: DeviceLife *)

\* The inductive invariant
DeviceInv == TypeOK /\ SleeperHasReason

LEMMA InitDeviceInv == Init => DeviceInv
<1> SUFFICES ASSUME Init PROVE DeviceInv
  OBVIOUS
<1>1. TypeOK
  BY DEF Init, TypeOK
<1>2. SleeperHasReason
  BY DEF Init, SleeperHasReason, Stopped
<1> QED BY <1>1, <1>2 DEF DeviceInv

\* The miner thread moves alone; it only goes to sleep when it saw that it is
\* stopped, and takes a post with it when it wakes.
LEMMA MinerInv == ASSUME DeviceInv, NEW d \in Devices, Miner(d) PROVE DeviceInv'
<1> USE DEF DeviceInv
<1>1. TypeOK'
  <2> USE DEF TypeOK, Goes, Report, flags, health, watchdog, Miner
  <2>1. CASE Wake(d)
    BY <2>1 DEF Wake
  <2>2. CASE GetWork(d)
    BY <2>2 DEF GetWork
  <2>3. CASE HasWork(d)
    BY <2>3 DEF HasWork
  <2>4. CASE GotWork(d)
    BY <2>4 DEF GotWork
  <2>5. CASE Scan(d)
    BY <2>5 DEF Scan
  <2>6. CASE Gone(d)
    BY <2>6 DEF Gone
  <2>7. CASE Rest(d)
    BY <2>7 DEF Rest
  <2>8. CASE MtDisable(d)
    BY <2>8 DEF MtDisable
  <2>9. CASE Hang(d)
    BY <2>9 DEF Hang
  <2>10. CASE Unhang(d)
    BY <2>10 DEF Unhang
  <2> QED BY <2>1, <2>2, <2>3, <2>4, <2>5, <2>6, <2>7, <2>8, <2>9, <2>10 DEF Runs
<1>2. SleeperHasReason'
  <2> SUFFICES ASSUME NEW e \in attached', miner'[e] \in {"first", "stopping", "asleep"}, sem'[e] = 0
               PROVE  Stopped(e)' \/ Due(e)'
    BY DEF SleeperHasReason
  <2>1. attached' = attached /\ posting' = posting /\ pause' = pause /\ e \in Devices
    BY DEF TypeOK, Miner, Runs, Wake, GetWork, HasWork, GotWork, Scan, Gone, Rest, MtDisable,
           Hang, Unhang, flags
  <2>2. CASE e # d
    <3>1. miner'[e] = miner[e] /\ sem'[e] = sem[e] /\ deven'[e] = deven[e]
      BY <2>2, <2>1 DEF TypeOK, Miner, Runs, Wake, GetWork, HasWork, GotWork, Scan, Gone, Rest,
                        MtDisable, Hang, Unhang, flags, Goes
    <3> QED BY <2>1, <3>1 DEF SleeperHasReason, Stopped, Due
  <2>3. CASE e = d
    <3>1. CASE Rest(d)
      BY <2>1, <2>3, <3>1 DEF Rest, Goes, Stopped, flags, TypeOK
    <3>2. CASE MtDisable(d)
      BY <2>1, <2>3, <3>2 DEF MtDisable, Goes, SleeperHasReason, Stopped, Due, flags
    <3>3. CASE ~Rest(d) /\ ~MtDisable(d)
      BY <2>1, <2>3, <3>3 DEF TypeOK, Miner, Runs, Wake, GetWork, HasWork, GotWork, Scan, Gone,
                              Hang, Unhang, Goes
    <3> QED BY <3>1, <3>2, <3>3
  <2> QED BY <2>2, <2>3
<1> QED BY <1>1, <1>2

\* Who enables a device owes it a post, and who posts has raised its semaphore.
LEMMA AskerInv ==
    ASSUME DeviceInv,
           \/ \E a \in Askers : Post(a)
           \/ \E a \in Operators, d \in Devices : Enable(a, d)
           \/ \E d \in Devices : StartThread(d)
    PROVE  DeviceInv'
<1> USE DEF DeviceInv
<1>1. ASSUME NEW a \in Askers, Post(a) PROVE DeviceInv'
  <2>1. PICK d \in Devices : d = posting[a] /\ d # NoDevice
    BY <1>1 DEF Post, TypeOK
  <2>2. /\ sem' = [sem EXCEPT ![d] = @ + 1] /\ posting' = [posting EXCEPT ![a] = NoDevice]
        /\ UNCHANGED <<attached, flags, miner, health, watchdog>>
    BY <1>1, <2>1 DEF Post
  <2>3. TypeOK'
    BY <2>1, <2>2 DEF TypeOK, flags, health, watchdog
  <2>4. \A e \in attached : e # d => (Due(e) => Due(e)')
    BY <2>1, <2>2 DEF Due, TypeOK
  <2>5. sem'[d] # 0 /\ \A e \in attached : e # d => sem'[e] = sem[e]
    BY <2>1, <2>2 DEF TypeOK
  <2>6. SleeperHasReason'
    BY <2>1, <2>2, <2>4, <2>5 DEF SleeperHasReason, Stopped, flags
  <2> QED BY <2>3, <2>6
<1>2. ASSUME NEW a \in Operators, NEW d \in Devices, Enable(a, d) PROVE DeviceInv'
  <2>1. /\ deven' = [deven EXCEPT ![d] = "ENABLED"] /\ posting' = [posting EXCEPT ![a] = d]
        /\ posting[a] = NoDevice /\ a \in Askers
        /\ UNCHANGED <<attached, unplugged, pause, sem, miner, health, watchdog>>
    BY <1>2 DEF Enable, Askers
  <2>2. TypeOK'
    BY <2>1 DEF TypeOK, health, watchdog
  <2>3. Due(d)' /\ \A e \in Devices : Due(e) => Due(e)'
    BY <2>1, NoDeviceAssumption DEF Due, TypeOK
  <2>4. SleeperHasReason'
    BY <2>1, <2>3 DEF SleeperHasReason, Stopped, TypeOK
  <2> QED BY <2>2, <2>4
<1>3. ASSUME NEW d \in Devices, StartThread(d) PROVE DeviceInv'
  <2>1. /\ UNCHANGED <<attached, deven, unplugged, sem, miner, health, sched_paused, watch>>
        /\ seen' = seen \cup {d} /\ posting["watchdog"] = NoDevice /\ "watchdog" \in Askers
    BY <1>3 DEF StartThread, Askers
  <2>2. CASE deven[d] = "DISABLED"
    <3>1. pause' = pause /\ posting' = posting
      BY <1>3, <2>2 DEF StartThread
    <3> QED BY <2>1, <3>1 DEF TypeOK, SleeperHasReason, Stopped, Due, health
  <2>3. CASE deven[d] # "DISABLED"
    <3>1. pause' = [pause EXCEPT ![d] = FALSE] /\ posting' = [posting EXCEPT !["watchdog"] = d]
      BY <1>3, <2>3 DEF StartThread
    <3>2. TypeOK'
      BY <2>1, <3>1 DEF TypeOK, health
    <3>3. Due(d)' /\ \A e \in Devices : Due(e) => Due(e)'
      BY <2>1, <3>1, NoDeviceAssumption DEF Due, TypeOK
    <3>4. SleeperHasReason'
      BY <2>1, <3>1, <3>3 DEF SleeperHasReason, Stopped, TypeOK
    <3> QED BY <3>2, <3>4
  <2> QED BY <2>2, <2>3
<1> QED BY <1>1, <1>2, <1>3

\* Nobody else gives a reason up: the others disable, pause or start devices,
\* or only look at them.
LEMMA OtherInv ==
    ASSUME DeviceInv,
           \/ \E d \in Devices : Disable(d) \/ Unplug(d) \/ Hotplug(d) \/ Ages(d)
           \/ Stop \/ Start \/ Started \/ Pass \/ Sleep
           \/ \E d \in Devices : WatchSick(d) \/ WatchAgain(d) \/ WatchDead(d) \/ WatchWell(d) \/ WatchSkip(d)
    PROVE  DeviceInv'
<1> USE DEF DeviceInv
<1>1. ASSUME NEW d \in Devices, Hotplug(d) PROVE DeviceInv'
  <2>1. /\ attached' = attached \cup {d} /\ UNCHANGED <<flags, status, sick, posting, watchdog>>
        /\ miner' = [miner EXCEPT ![d] = "first"] /\ last' = [last EXCEPT ![d] = "now"]
        /\ sem' = [sem EXCEPT ![d] = IF deven[d] = "ENABLED" THEN 1 ELSE 0]
    BY <1>1 DEF Hotplug
  <2>2. TypeOK'
    BY <2>1 DEF TypeOK, flags, watchdog
  <2>3. SleeperHasReason'
    BY <2>1 DEF TypeOK, SleeperHasReason, Stopped, Due, flags
  <2> QED BY <2>2, <2>3
<1>2. ASSUME NEW d \in Devices, Disable(d) \/ Unplug(d) \/ Ages(d) PROVE DeviceInv'
  <2>1. /\ UNCHANGED <<attached, pause, sem, miner, status, posting, watchdog>>
        /\ deven' = deven \/ deven' = [deven EXCEPT ![d] = "DISABLED"]
        /\ unplugged' = unplugged \/ unplugged' = [unplugged EXCEPT ![d] = TRUE]
    BY <1>2 DEF Disable, Unplug, Ages, flags, health
  <2>2. last' \in [Devices -> {"now", "sick", "dead"}] /\ sick' \in [Devices -> BOOLEAN]
    BY <1>2 DEF Disable, Unplug, Ages, health, TypeOK
  <2>3. TypeOK'
    BY <2>1, <2>2 DEF TypeOK, watchdog
  <2>4. SleeperHasReason'
    BY <2>1 DEF TypeOK, SleeperHasReason, Stopped, Due
  <2> QED BY <2>3, <2>4
<1>3. CASE Stop
  <2>1. /\ UNCHANGED <<attached, deven, unplugged, sem, miner, health, posting, seen>>
        /\ pause' = [d \in Devices |-> pause[d] \/ d \in attached]
        /\ sched_paused' = TRUE /\ watch' = "devices"
    BY <1>3 DEF Stop
  <2>2. TypeOK'
    BY <2>1 DEF TypeOK, health
  <2>3. SleeperHasReason'
    BY <2>1 DEF TypeOK, SleeperHasReason, Stopped
  <2> QED BY <2>2, <2>3
<1>4. CASE Start \/ Started \/ Pass \/ Sleep
  <2>1. /\ UNCHANGED <<attached, flags, sem, miner, health, posting>>
        /\ sched_paused' \in {sched_paused, FALSE} /\ watch' \in {"top", "start", "devices"}
        /\ seen' = seen \/ seen' = {}
    BY <1>4 DEF Start, Started, Pass, Sleep
  <2> QED BY <2>1 DEF TypeOK, SleeperHasReason, Stopped, Due, flags, health
<1>5. ASSUME NEW d \in Devices,
             WatchSick(d) \/ WatchAgain(d) \/ WatchDead(d) \/ WatchWell(d) \/ WatchSkip(d)
      PROVE  DeviceInv'
  <2>1. /\ UNCHANGED <<attached, flags, sem, miner, last, posting, sched_paused, watch>>
        /\ seen' = seen \cup {d}
    BY <1>5 DEF WatchSick, WatchAgain, WatchDead, WatchWell, WatchSkip, Looks
  <2>2. /\ status' \in [Devices -> {"WELL", "SICK", "DEAD"}]
        /\ sick' \in [Devices -> BOOLEAN]
    BY <1>5 DEF WatchSick, WatchAgain, WatchDead, WatchWell, WatchSkip, TypeOK
  <2> QED BY <2>1, <2>2 DEF TypeOK, SleeperHasReason, Stopped, Due, flags
<1> QED BY <1>1, <1>2, <1>3, <1>4, <1>5

LEMMA NextDeviceInv == DeviceInv /\ [Next]_vars => DeviceInv'
<1> SUFFICES ASSUME DeviceInv, [Next]_vars PROVE DeviceInv'
  OBVIOUS
<1>1. CASE UNCHANGED vars
  BY <1>1 DEF DeviceInv, TypeOK, SleeperHasReason, Stopped, Due, vars, flags, health, watchdog
<1> QED BY <1>1, MinerInv, AskerInv, OtherInv DEF Next, Watchdog

\* The types, and no lost wakeup, for any number of devices at once.
THEOREM DeviceInvariant == Spec => []DeviceInv
<1>1. Init => DeviceInv
  BY InitDeviceInv
<1>2. DeviceInv /\ [Next]_vars => DeviceInv'
  BY NextDeviceInv
<1> QED BY <1>1, <1>2, PTL DEF Spec

\* The semaphore is never taken below zero, and each thread is at one place.
THEOREM TypeOKHolds == Spec => []TypeOK
<1>1. DeviceInv => TypeOK
  BY DEF DeviceInv
<1> QED BY <1>1, DeviceInvariant, PTL

\* A miner thread that sleeps on its semaphore is disabled or paused, or has a
\* post coming (mt_disable, mt_enable, watchdog_thread), for any number of
\* devices and operators.
THEOREM SleeperHasReasonHolds == Spec => []SleeperHasReason
<1>1. DeviceInv => SleeperHasReason
  BY DEF DeviceInv
<1> QED BY <1>1, DeviceInvariant, PTL

---------------------------------------------------------------------------
(* The usb layer: UsbDevices *)

\* What a thread does with a cgpu changes, and nothing else.
LEMMA DoesAct ==
  ASSUME BusTypeOK, NEW c \in Cgpus, NEW t \in Threads, NEW from, NEW to, Does(c, t, from, to)
  PROVE  /\ act[c][t] = from /\ act'[c][t] = to
         /\ \A d \in Cgpus, u \in Threads : d # c \/ u # t => act'[d][u] = act[d][u]
  BY DEF Does, BusTypeOK

\* The devlock of a cgpu that was not blacklisted is granted when it is free.
LEMMA DevlockFree ==
  ASSUME BusInv, NEW c \in Cgpus \ once, NEW u \in Threads
  PROVE  /\ CanRead(c) => act[c][u] \notin Writing
         /\ CanWrite(c) => act[c][u] \notin Writing \cup {"transfer"}
<1>1. ~Bare(c, u)
  BY DEF BusInv, StageMatches, Bare
<1> QED BY <1>1 DEF CanRead, CanWrite, Writers, Readers, Writing

\* A request comes before those that wait.
Requests == [lock : BOOLEAN, addr : Addrs]
LEMMA RequestWork ==
  ASSUME BusTypeOK, NEW lock \in BOOLEAN, NEW a \in Addrs, Request(lock, a)
  PROVE  /\ work' \in Seq(Requests) /\ 1 \in DOMAIN work' /\ work'[1] = [lock |-> lock, addr |-> a]
         /\ \A i \in DOMAIN work : i + 1 \in DOMAIN work' /\ work'[i + 1] = work[i]
         /\ \A j \in DOMAIN work' : j \in Nat /\ (j = 1 \/ (j - 1 \in DOMAIN work /\ work'[j] = work[j - 1]))
<1> DEFINE r == [lock |-> lock, addr |-> a]
<1>1. work' = <<r>> \o work /\ work \in Seq(Requests) /\ <<r>> \in Seq(Requests)
  BY DEF Request, BusTypeOK, Requests
<1>2. /\ work' \in Seq(Requests) /\ Len(work') = 1 + Len(work)
      /\ \A j \in 1 .. Len(work') : work'[j] = IF j <= 1 THEN <<r>>[j] ELSE work[j - 1]
  BY <1>1, ConcatProperties
<1>3. DOMAIN work = 1 .. Len(work) /\ DOMAIN work' = 1 .. Len(work') /\ Len(work) \in Nat
  BY <1>1, <1>2
<1> QED BY <1>2, <1>3

\* The resource thread takes the first, and the others move up.
LEMMA ServeWork ==
  ASSUME BusTypeOK, work # <<>>, work' = Tail(work)
  PROVE  /\ work' \in Seq(Requests) /\ 1 \in DOMAIN work /\ Head(work) = work[1] /\ work[1] \in Requests
         /\ \A i \in DOMAIN work : i \in Nat /\ (i = 1 \/ (i - 1 \in DOMAIN work' /\ work'[i - 1] = work[i]))
         /\ \A j \in DOMAIN work' : j \in Nat /\ j + 1 \in DOMAIN work /\ work'[j] = work[j + 1]
<1>1. work \in Seq(Requests)
  BY DEF BusTypeOK, Requests
<1>2. /\ Len(work) \in Nat \ {0} /\ DOMAIN work = 1 .. Len(work) /\ Head(work) = work[1]
      /\ work[1] \in Requests
  BY <1>1
<1>3. /\ work' \in Seq(Requests) /\ Len(work') = Len(work) - 1
      /\ \A i \in 1 .. Len(work') : work'[i] = work[i + 1]
  BY <1>1, HeadTailProperties
<1>4. DOMAIN work' = 1 .. Len(work')
  BY <1>3
<1> QED BY <1>2, <1>3, <1>4

\* A request to drop a claim, told from one to make it
DropsMean ==
    \A a \in Addrs : DropDue(a) <=> \E i \in DOMAIN work : ~work[i].lock /\ work[i].addr = a
LEMMA DropsMeanHolds == BusTypeOK => DropsMean
<1> SUFFICES ASSUME BusTypeOK, NEW a \in Addrs
             PROVE  DropDue(a) <=> \E i \in DOMAIN work : ~work[i].lock /\ work[i].addr = a
  BY DEF DropsMean
<1>1. \A i \in DOMAIN work : work[i] \in Requests
  <2>1. work \in Seq(Requests)
    BY DEF BusTypeOK, Requests
  <2> QED BY <2>1
<1>2. \A i \in DOMAIN work : work[i] = [lock |-> FALSE, addr |-> a] <=> ~work[i].lock /\ work[i].addr = a
  BY <1>1 DEF Requests
<1> QED BY <1>2 DEF DropDue

\* Cgpus can be counted.
LEMMA CgpusFinite ==
  ASSUME NEW S \in SUBSET Cgpus
  PROVE  IsFiniteSet(S) /\ Cardinality(S) \in 0 .. MaxCgpus
<1>1. IsFiniteSet(Cgpus) /\ Cardinality(Cgpus) = MaxCgpus
  BY FS_Interval, MaxAssumption DEF Cgpus
<1> QED BY <1>1, FS_Subset, FS_CardinalityType, MaxAssumption

---------------------------------------------------------------------------
\* A step by which a thread does something else with a cgpu, other than closing it,
\* keeps the invariant if the stage of the cgpu and its devlock allow it.
LEMMA ActStep ==
  ASSUME BusInv, NEW c \in Cgpus, NEW t \in Threads, NEW from, NEW to, Does(c, t, from, to),
         UNCHANGED <<plugged, cgpus, claims, requests, scan, counts>>,
         from # "close", to \in {"idle", "transfer", "failed", "control", "unplug", "strike", "mark"},
         to # "idle" => IF t = "hotplug" THEN stage[c] = "added" \/ (stage[c] = "detecting" /\ at \in Wanted)
                        ELSE stage[c] = "started",
         c \notin once =>
             /\ to \in Writing => \A u \in Threads : act[c][u] \in Writing \cup {"transfer"} => u = t
             /\ to = "transfer" => open[c] /\ \A u \in Threads : act[c][u] \notin Writing
             /\ to = "mark" => ~nodev[c]
  PROVE  BusInv'
<1> USE DEF BusInv
<1>1. /\ act[c][t] = from /\ act'[c][t] = to
      /\ \A d \in Cgpus, u \in Threads : d # c \/ u # t => act'[d][u] = act[d][u]
  BY DoesAct
<1>2. UNCHANGED <<plugged, stage, addr, nodev, open, gone, blacklisted, inUse, lockfile, listed, once, work,
                  serving, reply, hotplug, todo, at, total_devices, zombie_devs>>
  BY DEF cgpus, claims, requests, scan, counts
<1>3. \A d \in Cgpus : Leaves(d)' <=> Leaves(d)
  BY <1>1 DEF Leaves
<1>4. BusTypeOK'
  <2>1. act' \in [Cgpus -> [Threads -> {"idle", "transfer", "failed", "control", "unplug", "strike",
                                      "struck", "mark", "close"}]]
    BY DEF BusTypeOK, Does
  <2> QED BY <1>2, <2>1 DEF BusTypeOK
<1>5. StageMatches'
  BY <1>1, <1>2 DEF StageMatches
<1>6. NodevFirst'
  BY <1>2, <1>3 DEF NodevFirst
<1>7. DevlockHeld'
  BY <1>1, <1>2 DEF DevlockHeld, Writing
<1>8. AskedOnce'
  BY <1>2 DEF AskedOnce
<1>9. \A d \in Cgpus : Uses(d)' <=> Uses(d)
  BY <1>2, <1>3 DEF Uses
<1>10. \A a \in Addrs : (Holds(a)' <=> Holds(a)) /\ (DropDue(a)' <=> DropDue(a))
  BY <1>2 DEF Holds, DropDue
<1>11. ClaimInHand'
  BY <1>2, <1>9, <1>10 DEF ClaimInHand, BusTypeOK
<1>12. OneHand'
  BY <1>2, <1>9, <1>10 DEF OneHand
<1>13. Counts'
  BY <1>2 DEF Counts, StartedCgpus, Zombies
<1>14. UseLive'
  BY <1>1, <1>2 DEF UseLive, Readers, DevlockHeld, Writing
<1> QED BY <1>4, <1>5, <1>6, <1>7, <1>8, <1>11, <1>12, <1>13, <1>14

\* The threads of a stick transfer and give it up.
LEMMA UserStepInv ==
  ASSUME BusInv, NEW c \in Cgpus, NEW u \in Users, UserStep(c, u)
  PROVE  BusInv'
<1> DEFINE Keeps == UNCHANGED <<plugged, cgpus, claims, requests, scan, counts>>
<1>1. Keeps /\ u \in Threads /\ u # "hotplug"
  BY UsersAssumption DEF UserStep, Threads
<1>2. act[c][u] # "idle" => stage[c] = "started"
  BY <1>1 DEF BusInv, StageMatches
<1>3. c \notin once /\ act[c][u] \in Writing =>
          \A t \in Threads : act[c][t] \in Writing \cup {"transfer"} => t = u
  BY <1>1 DEF BusInv, DevlockHeld
<1>4. CASE TransferStart(c, u)
  <2>1. stage[c] = "started" /\ CanRead(c) /\ Does(c, u, "idle", "transfer") /\ open[c]
    BY <1>4 DEF TransferStart, BusInv, NodevFirst
  <2>2. c \notin once => \A t \in Threads : act[c][t] \notin Writing
    BY <2>1, DevlockFree
  <2> QED BY <1>1, <2>1, <2>2, ActStep DEF Writing
<1>5. CASE TransferEnd(c, u)
  <2>1. PICK to \in {"failed", "idle"} : Does(c, u, "transfer", to)
    BY <1>5 DEF TransferEnd
  <2>2. stage[c] = "started"
    BY <1>2, <2>1 DEF Does
  <2> QED BY <1>1, <2>1, <2>2, ActStep DEF Writing
<1>6. CASE Upgrade(c, u)
  <2>1. CanWrite(c) /\ \/ Does(c, u, "failed", "idle")
                       \/ ~nodev[c] /\ Does(c, u, "failed", "mark")
    BY <1>6 DEF Upgrade, Released
  <2>2. c \notin once => \A t \in Threads : act[c][t] \notin Writing \cup {"transfer"}
    BY <2>1, DevlockFree
  <2>3. stage[c] = "started"
    BY <1>2, <2>1 DEF Does
  <2>4. CASE Does(c, u, "failed", "idle")
    BY <1>1, <2>4, ActStep DEF Writing
  <2>5. CASE ~nodev[c] /\ Does(c, u, "failed", "mark")
    BY <1>1, <2>2, <2>3, <2>5, ActStep DEF Writing
  <2> QED BY <2>1, <2>4, <2>5
<1>7. CASE ControlStart(c, u)
  <2>1. stage[c] = "started" /\ CanWrite(c) /\ Does(c, u, "idle", "control")
    BY <1>7 DEF ControlStart
  <2>2. c \notin once => \A t \in Threads : act[c][t] \notin Writing \cup {"transfer"}
    BY <2>1, DevlockFree
  <2> QED BY <1>1, <2>1, <2>2, ActStep DEF Writing
<1>8. CASE ControlEnd(c, u)
  <2>1. \/ Does(c, u, "control", "idle")
        \/ ~nodev[c] /\ Does(c, u, "control", "mark")
    BY <1>8 DEF ControlEnd, Released
  <2>2. act[c][u] = "control"
    BY <2>1 DEF Does
  <2>3. CASE Does(c, u, "control", "idle")
    BY <1>1, <2>3, ActStep DEF Writing
  <2>4. CASE ~nodev[c] /\ Does(c, u, "control", "mark")
    BY <1>1, <1>2, <1>3, <2>2, <2>4, ActStep DEF Writing
  <2> QED BY <2>1, <2>3, <2>4
<1> QED BY <1>4, <1>5, <1>6, <1>7, <1>8 DEF UserStep

\* The menu unplugs a cgpu: it looks without the lock, and again with it.
LEMMA MenuUnplugInv ==
  ASSUME BusInv, NEW c \in Cgpus, MenuAsks(c) \/ usb_nodev(c),
         UNCHANGED <<plugged, cgpus, claims, requests, scan, counts>>
  PROVE  BusInv'
<1>1. "menu" \in Threads /\ "menu" # "hotplug"
  BY DEF Threads
<1>2. CASE MenuAsks(c)
  <2>1. stage[c] = "started" /\ Does(c, "menu", "idle", "unplug")
    BY <1>2 DEF MenuAsks
  <2> QED BY <1>1, <2>1, ActStep DEF Writing
<1>3. CASE usb_nodev(c)
  <2>1. CanWrite(c) /\ \/ Does(c, "menu", "unplug", "idle")
                       \/ ~nodev[c] /\ Does(c, "menu", "unplug", "mark")
    BY <1>3 DEF usb_nodev, Released
  <2>2. c \notin once => \A t \in Threads : act[c][t] \notin Writing \cup {"transfer"}
    BY <2>1, DevlockFree
  <2>3. stage[c] = "started"
    BY <1>1, <2>1 DEF Does, BusInv, StageMatches
  <2>4. CASE Does(c, "menu", "unplug", "idle")
    BY <1>1, <2>4, ActStep DEF Writing
  <2>5. CASE ~nodev[c] /\ Does(c, "menu", "unplug", "mark")
    BY <1>1, <2>2, <2>3, <2>5, ActStep DEF Writing
  <2> QED BY <2>1, <2>4, <2>5
<1> QED BY <1>2, <1>3

\* The hotplug thread gives up a cgpu that it sets up or prepares.
LEMMA HotplugGivesUpInv ==
  ASSUME BusInv, NEW c \in Cgpus, SetUpFails(c) \/ Prepare(c)
  PROVE  BusInv'
<1>1. "hotplug" \in Threads
  BY DEF Threads
<1>2. /\ stage[c] = "added" \/ (stage[c] = "detecting" /\ at \in Wanted)
      /\ ~nodev[c] /\ Does(c, "hotplug", "idle", "mark")
      /\ UNCHANGED <<plugged, cgpus, claims, requests, scan, counts>>
      /\ act[c]["hotplug"] = "idle"
  BY DEF SetUpFails, Prepare, Does
<1>3. \A t \in Threads : act[c][t] = "idle"
  BY <1>2 DEF BusInv, StageMatches
<1> QED BY <1>1, <1>2, <1>3, ActStep DEF Writing

\* The first half of a release: the cgpu is marked.
LEMMA ReleaseMarkInv ==
  ASSUME BusInv, NEW c \in Cgpus, NEW t \in Threads, ReleaseMark(c, t)
  PROVE  BusInv'
<1> USE DEF BusInv
<1>1. /\ act[c][t] = "mark" /\ act'[c][t] = "close"
      /\ \A d \in Cgpus, u \in Threads : d # c \/ u # t => act'[d][u] = act[d][u]
      /\ act' \in [Cgpus -> [Threads -> {"idle", "transfer", "failed", "control", "unplug", "strike",
                                      "struck", "mark", "close"}]]
  BY DoesAct DEF ReleaseMark, Does, BusTypeOK
<1>2. /\ nodev' = [nodev EXCEPT ![c] = TRUE]
      /\ UNCHANGED <<plugged, stage, addr, open, gone, blacklisted, inUse, lockfile, listed, once, work,
                     serving, reply, hotplug, todo, at, total_devices>>
      /\ zombie_devs' \in {zombie_devs, zombie_devs + 1}
      /\ stage[c] \notin {"added", "started"} => zombie_devs' = zombie_devs
  BY DEF ReleaseMark, claims, requests, scan
<1>3. /\ nodev'[c] /\ \A d \in Cgpus \ {c} : nodev'[d] = nodev[d]
      /\ nodev' \in [Cgpus -> BOOLEAN]
  BY <1>2 DEF BusTypeOK
<1>4. Leaves(c)' /\ \A d \in Cgpus \ {c} : Leaves(d)' <=> Leaves(d)
  BY <1>1 DEF Leaves
<1>5. c \notin once => ~nodev[c]
  BY <1>1 DEF DevlockHeld
<1>6. BusTypeOK'
  BY <1>1, <1>2, <1>3 DEF BusTypeOK
<1>7. StageMatches'
  <2>1. \A d \in Cgpus, u \in Threads :
           /\ act'[d][u] # "idle" => act[d][u] # "idle"
           /\ act'[d][u] = "struck" => act[d][u] = "struck"
    BY <1>1
  <2>2. \A d \in Cgpus : stage[d] \in {"free", "detecting"} => nodev'[d] = nodev[d] \/ d = c
    BY <1>3
  <2>3. stage[c] # "free" /\ (stage[c] = "detecting" => at \in Wanted)
    BY <1>1 DEF StageMatches
  <2> QED BY <1>2, <1>3, <2>1, <2>2, <2>3 DEF StageMatches
<1>8. NodevFirst'
  BY <1>2, <1>3, <1>4 DEF NodevFirst
<1>9. DevlockHeld'
  <2> SUFFICES ASSUME NEW d \in Cgpus \ once, NEW u \in Threads
               PROVE  /\ act'[d][u] \in Writing =>
                            \A v \in Threads : act'[d][v] \in Writing \cup {"transfer"} => v = u
                      /\ act'[d][u] = "mark" => ~nodev'[d]
    BY <1>2 DEF DevlockHeld, Writing
  <2>1. CASE d = c
    <3>1. \A v \in Threads : act[c][v] \in Writing \cup {"transfer"} => v = t
      BY <1>1, <2>1 DEF DevlockHeld, Writing
    <3> QED BY <1>1, <2>1, <3>1 DEF Writing
  <2>2. CASE d # c
    BY <1>1, <1>3, <2>2 DEF DevlockHeld
  <2> QED BY <2>1, <2>2
<1>10. AskedOnce'
  BY <1>2 DEF AskedOnce
<1>11. Uses(c)' /\ (c \notin once => Uses(c)) /\ \A d \in Cgpus \ {c} : Uses(d)' <=> Uses(d)
  BY <1>3, <1>4, <1>5 DEF Uses
<1>12. \A a \in Addrs : (Holds(a)' <=> Holds(a)) /\ (DropDue(a)' <=> DropDue(a))
  BY <1>2 DEF Holds, DropDue
<1>13. ClaimInHand'
  BY <1>2, <1>11, <1>12 DEF ClaimInHand, BusTypeOK
<1>14. OneHand'
  BY <1>2, <1>11, <1>12 DEF OneHand
<1>15. Counts'
  <2>1. total_devices' = Cardinality(StartedCgpus)'
    BY <1>2 DEF Counts, StartedCgpus
  <2>2. (hotplug = "reinit" /\ once = {} => \A d \in Cgpus : nodev[d])'
    BY <1>2, <1>3 DEF Counts
  <2>3. ASSUME once = {} PROVE zombie_devs' <= Cardinality(Zombies)'
    <3>0. Zombies \in SUBSET Cgpus
      BY DEF Zombies
    <3>1. IsFiniteSet(Zombies) /\ Cardinality(Zombies) \in Nat /\ zombie_devs <= Cardinality(Zombies)
      BY <2>3, <3>0, CgpusFinite DEF Counts
    <3>2. c \notin Zombies
      BY <1>5, <2>3 DEF Zombies
    <3>3. CASE stage[c] \in {"added", "started"}
      <4>1. Zombies' = Zombies \cup {c}
        BY <1>2, <1>3, <3>3 DEF Zombies
      <4>2. Cardinality(Zombies)' = Cardinality(Zombies) + 1
        BY <3>1, <3>2, <4>1, FS_AddElement
      <4> QED BY <1>2, <3>1, <4>2 DEF BusTypeOK
    <3>4. CASE stage[c] \notin {"added", "started"}
      <4>1. Zombies' = Zombies
        BY <1>2, <1>3, <3>4 DEF Zombies
      <4> QED BY <1>2, <3>1, <3>4, <4>1
    <3> QED BY <3>3, <3>4
  <2> QED BY <1>2, <2>1, <2>2, <2>3 DEF Counts
<1>16. UseLive'
  BY <1>1, <1>2 DEF UseLive, Readers
<1> QED BY <1>6, <1>7, <1>8, <1>9, <1>10, <1>13, <1>14, <1>15, <1>16

\* The second half: the device is closed, and the claim to be dropped.
LEMMA ReleaseCloseInv ==
  ASSUME BusInv, NEW c \in Cgpus, NEW t \in Threads, ReleaseClose(c, t)
  PROVE  BusInv'
<1> USE DEF BusInv
<1>1. /\ act[c][t] = "close" /\ act'[c][t] = "idle"
      /\ \A d \in Cgpus, u \in Threads : d # c \/ u # t => act'[d][u] = act[d][u]
      /\ act' \in [Cgpus -> [Threads -> {"idle", "transfer", "failed", "control", "unplug", "strike",
                                      "struck", "mark", "close"}]]
  BY DoesAct DEF ReleaseClose, Does, BusTypeOK
<1>2. /\ open' = [open EXCEPT ![c] = FALSE]
      /\ UNCHANGED <<plugged, stage, addr, nodev, gone, blacklisted, inUse, lockfile, listed, once,
                     serving, reply, hotplug, todo, at, total_devices, zombie_devs>>
      /\ Request(FALSE, addr[c])
  BY DEF ReleaseClose, Request, claims, scan, counts
<1>3. /\ ~open'[c] /\ \A d \in Cgpus \ {c} : open'[d] = open[d]
      /\ open' \in [Cgpus -> BOOLEAN]
  BY <1>2 DEF BusTypeOK
<1>4. Leaves(c) /\ nodev[c] /\ \A d \in Cgpus \ {c} : Leaves(d)' <=> Leaves(d)
  BY <1>1 DEF Leaves, NodevFirst
<1>5. addr[c] \in Addrs
  <2>1. stage[c] # "free"
    BY <1>1 DEF StageMatches
  <2> QED BY <2>1 DEF StageMatches, BusTypeOK
<1>a. /\ work' \in Seq(Requests) /\ 1 \in DOMAIN work' /\ work'[1] = [lock |-> FALSE, addr |-> addr[c]]
      /\ \A i \in DOMAIN work : i + 1 \in DOMAIN work' /\ work'[i + 1] = work[i]
      /\ \A j \in DOMAIN work' : j \in Nat /\ (j = 1 \/ (j - 1 \in DOMAIN work /\ work'[j] = work[j - 1]))
  BY <1>2, <1>5, RequestWork
<1>6. BusTypeOK'
  BY <1>1, <1>2, <1>3, <1>a DEF BusTypeOK, Requests
<1>7. StageMatches'
  BY <1>1, <1>2, <1>3 DEF StageMatches
<1>8. NodevFirst'
  BY <1>2, <1>3, <1>4 DEF NodevFirst
<1>9. DevlockHeld'
  BY <1>1, <1>2 DEF DevlockHeld, Writing
<1>10. AskedOnce'
  BY <1>2, <1>a DEF AskedOnce
<1>11. Uses(c) /\ \A d \in Cgpus \ {c} : Uses(d)' <=> Uses(d)
  BY <1>2, <1>4 DEF Uses
<1>12. c \notin once => ~Uses(c)'
  BY <1>1, <1>2, <1>4 DEF Uses, Leaves, DevlockHeld, Writing
<1>13. \A a \in Addrs : Holds(a)' <=> Holds(a)
  BY <1>2 DEF Holds
<1>b. DropsMean /\ DropsMean'
  BY <1>6, DropsMeanHolds, PTL
<1>14. DropDue(addr[c])' /\ \A a \in Addrs : a # addr[c] => (DropDue(a)' <=> DropDue(a))
  <2>1. DropDue(addr[c])'
    BY <1>2, <1>a, <1>b, <1>5 DEF DropsMean
  <2>2. ASSUME NEW a \in Addrs, a # addr[c] PROVE DropDue(a)' <=> DropDue(a)
    <3>1. DropDue(a) => DropDue(a)'
      BY <1>a, <1>b DEF DropsMean
    <3>2. DropDue(a)' => DropDue(a)
      BY <1>a, <1>b, <2>2 DEF DropsMean
    <3> QED BY <3>1, <3>2
  <2> QED BY <2>1, <2>2
<1>15. ClaimInHand'
  <2>1. inUse \subseteq Addrs
    BY DEF BusTypeOK
  <2> QED BY <1>2, <1>11, <1>13, <1>14, <2>1 DEF ClaimInHand, BusTypeOK
<1>16. OneHand'
  <2> SUFFICES ASSUME NEW a \in Addrs, (\A d \in once : addr[d] # a)'
               PROVE  /\ (\A d \in Cgpus : addr[d] = a /\ Uses(d) =>
                             /\ a \in inUse /\ ~Holds(a) /\ ~DropDue(a)
                             /\ \A e \in Cgpus : addr[e] = a /\ Uses(e) => e = d)'
                      /\ (Holds(a) => a \in inUse /\ ~DropDue(a))'
                      /\ (DropDue(a) => a \in inUse)'
                      /\ (\A i, j \in DOMAIN work :
                            work[i].addr = a /\ work[j].addr = a /\ ~work[i].lock /\ ~work[j].lock => i = j)'
    BY DEF OneHand
  <2>1. \A d \in once : addr[d] # a
    BY <1>2
  <2>2. CASE a # addr[c]
    <3>1. \A d \in Cgpus : addr[d] = a => (Uses(d)' <=> Uses(d))
      BY <1>11, <2>2
    <3>2. \A j \in DOMAIN work' : work'[j].addr = a => j - 1 \in DOMAIN work /\ work'[j] = work[j - 1]
      BY <1>a, <2>2
    <3>3. (\A i, j \in DOMAIN work :
              work[i].addr = a /\ work[j].addr = a /\ ~work[i].lock /\ ~work[j].lock => i = j)'
      BY <1>a, <2>1, <3>2 DEF OneHand
    <3> QED BY <1>2, <1>13, <1>14, <2>1, <2>2, <3>1, <3>3 DEF OneHand
  <2>3. CASE a = addr[c]
    <3>1. c \notin once /\ a \in inUse /\ ~Holds(a) /\ ~DropDue(a)
      BY <1>11, <2>1, <2>3 DEF OneHand
    <3>2. \A d \in Cgpus : addr[d] = a => ~Uses(d)'
      BY <1>11, <1>12, <2>1, <2>3, <3>1 DEF OneHand
    <3>3. \A i \in DOMAIN work : work[i].addr = a => work[i].lock
      BY <1>b, <3>1 DEF DropsMean
    <3>4. \A j \in DOMAIN work' : work'[j].addr = a /\ ~work'[j].lock => j = 1
      BY <1>a, <3>3
    <3> QED BY <1>2, <1>13, <3>1, <3>2, <3>4
  <2> QED BY <2>2, <2>3
<1>17. Counts'
  BY <1>2 DEF Counts, StartedCgpus, Zombies
<1>18. UseLive'
  BY <1>1, <1>2, <1>3 DEF UseLive, Readers, DevlockHeld, Writing
<1> QED BY <1>6, <1>7, <1>8, <1>9, <1>10, <1>15, <1>16, <1>17, <1>18

\* The resource thread makes or drops a claim.
LEMMA ServeInv ==
  ASSUME BusInv, Serve
  PROVE  BusInv'
<1> USE DEF BusInv
<1>1. /\ work' \in Seq(Requests) /\ 1 \in DOMAIN work /\ Head(work) = work[1] /\ work[1] \in Requests
      /\ \A i \in DOMAIN work : i \in Nat /\ (i = 1 \/ (i - 1 \in DOMAIN work' /\ work'[i - 1] = work[i]))
      /\ \A j \in DOMAIN work' : j \in Nat /\ j + 1 \in DOMAIN work /\ work'[j] = work[j + 1]
  BY ServeWork DEF Serve
<1>2. /\ UNCHANGED <<plugged, stage, addr, nodev, open, gone, blacklisted, listed, once, act, hotplug, todo,
                     at, total_devices, zombie_devs>>
      /\ serving' \in BOOLEAN
  BY DEF Serve, cgpus, scan, counts
<1>3. PICK a \in Addrs : a = work[1].addr
  BY <1>1 DEF Requests
<1>4. /\ work[1].lock => ResourceLock(a)
      /\ ~work[1].lock => ResourceUnlock(a)
  BY <1>1, <1>3 DEF Serve
<1>5. /\ inUse' \subseteq lockfile' /\ lockfile' \subseteq Addrs
      /\ reply' \in [Addrs -> {"none", "yes", "no"}]
  BY <1>3, <1>4 DEF ResourceLock, ResourceUnlock, BusTypeOK
<1>6. BusTypeOK'
  BY <1>1, <1>2, <1>5 DEF BusTypeOK, Requests
<1>7. \A d \in Cgpus : (Leaves(d)' <=> Leaves(d)) /\ (Uses(d)' <=> Uses(d))
  BY <1>2 DEF Leaves, Uses
<1>8. StageMatches' /\ NodevFirst'
  BY <1>2, <1>7 DEF StageMatches, NodevFirst
<1>9. DevlockHeld' /\ UseLive'
  BY <1>2 DEF DevlockHeld, Writing, UseLive, Readers
<1>10. Counts'
  BY <1>2 DEF Counts, StartedCgpus, Zombies
<1>11. DropsMean /\ DropsMean'
  BY <1>6, DropsMeanHolds, PTL
<1>12. CASE work[1].lock
  <2>1. PICK got \in BOOLEAN :
           /\ got => a \notin lockfile
           /\ reply' = [reply EXCEPT ![a] = IF got THEN "yes" ELSE "no"]
           /\ inUse' = IF got THEN inUse \cup {a} ELSE inUse
    BY <1>4, <1>12 DEF ResourceLock
  <2>2. hotplug = "wait" /\ at = a /\ reply[a] = "none" /\ \A j \in DOMAIN work : work[j].lock => j = 1
    BY <1>1, <1>3, <1>12 DEF AskedOnce
  <2>3. \A j \in DOMAIN work' : ~work'[j].lock
    BY <1>1, <2>2
  <2>4. \A b \in Addrs : b # a => reply'[b] = reply[b]
    BY <2>1 DEF BusTypeOK
  <2>5. AskedOnce'
    BY <1>2, <2>2, <2>3, <2>4 DEF AskedOnce
  <2>6. \A b \in Addrs : DropDue(b)' <=> DropDue(b)
    BY <1>1, <1>11, <1>12 DEF DropsMean
  <2>7. reply'[a] = IF got THEN "yes" ELSE "no"
    BY <1>3, <2>1 DEF BusTypeOK
  <2>8. (\A b \in Addrs : ~Holds(b)) /\ \A b \in Addrs : Holds(b)' <=> b = a /\ got
    BY <1>2, <2>2, <2>7 DEF Holds
  <2>9. ClaimInHand'
    BY <1>2, <1>7, <2>1, <2>6, <2>8 DEF ClaimInHand, BusTypeOK
  <2>10. OneHand'
    <3> SUFFICES ASSUME NEW b \in Addrs, (\A d \in once : addr[d] # b)'
                 PROVE  /\ (\A d \in Cgpus : addr[d] = b /\ Uses(d) =>
                               /\ b \in inUse /\ ~Holds(b) /\ ~DropDue(b)
                               /\ \A e \in Cgpus : addr[e] = b /\ Uses(e) => e = d)'
                        /\ (Holds(b) => b \in inUse /\ ~DropDue(b))'
                        /\ (DropDue(b) => b \in inUse)'
                        /\ (\A i, j \in DOMAIN work :
                              work[i].addr = b /\ work[j].addr = b /\ ~work[i].lock /\ ~work[j].lock => i = j)'
      BY DEF OneHand
    <3>1. \A d \in once : addr[d] # b
      BY <1>2
    <3>2. (\A i, j \in DOMAIN work :
              work[i].addr = b /\ work[j].addr = b /\ ~work[i].lock /\ ~work[j].lock => i = j)'
      <4> SUFFICES ASSUME NEW i \in DOMAIN work', NEW j \in DOMAIN work',
                          work'[i].addr = b, work'[j].addr = b, ~work'[i].lock, ~work'[j].lock
                   PROVE  i = j
        OBVIOUS
      <4>1. /\ i \in Nat /\ i + 1 \in DOMAIN work /\ work[i + 1].addr = b /\ ~work[i + 1].lock
            /\ j \in Nat /\ j + 1 \in DOMAIN work /\ work[j + 1].addr = b /\ ~work[j + 1].lock
        BY <1>1
      <4>2. \A k, l \in DOMAIN work :
               work[k].addr = b /\ work[l].addr = b /\ ~work[k].lock /\ ~work[l].lock => k = l
        BY <3>1 DEF OneHand
      <4>3. i + 1 = j + 1
        BY <4>1, <4>2
      <4> QED BY <4>1, <4>3
    <3>3. inUse \subseteq inUse' /\ (b # a => (b \in inUse' <=> b \in inUse))
      BY <2>1
    <3>4. CASE b = a /\ got
      <4>1. a \notin inUse /\ a \in inUse'
        BY <2>1, <3>4 DEF BusTypeOK
      <4>2. ~DropDue(a) /\ \A d \in Cgpus : addr[d] = a => ~Uses(d)
        BY <3>1, <3>4, <4>1 DEF OneHand
      <4> QED BY <1>2, <1>7, <2>6, <3>2, <3>4, <4>1, <4>2
    <3>5. CASE ~(b = a /\ got)
      BY <1>2, <1>7, <2>6, <2>8, <3>1, <3>2, <3>3, <3>5 DEF OneHand
    <3> QED BY <3>4, <3>5
  <2> QED BY <1>6, <1>8, <1>9, <1>10, <2>5, <2>9, <2>10
<1>13. CASE ~work[1].lock
  <2>1. inUse' = inUse \ {a} /\ UNCHANGED reply
    BY <1>4, <1>13 DEF ResourceUnlock
  <2>2. AskedOnce'
    BY <1>1, <1>2, <2>1 DEF AskedOnce
  <2>3. \A b \in Addrs : (DropDue(b)' => DropDue(b)) /\ (b # a => (DropDue(b)' <=> DropDue(b)))
    BY <1>1, <1>3, <1>11 DEF DropsMean
  <2>4. DropDue(a)
    BY <1>1, <1>3, <1>11, <1>13 DEF DropsMean
  <2>5. \A b \in Addrs : Holds(b)' <=> Holds(b)
    BY <1>2, <2>1 DEF Holds
  <2>6. ClaimInHand'
    BY <1>2, <1>7, <2>1, <2>3, <2>5 DEF ClaimInHand, BusTypeOK
  <2>7. OneHand'
    <3> SUFFICES ASSUME NEW b \in Addrs, (\A d \in once : addr[d] # b)'
                 PROVE  /\ (\A d \in Cgpus : addr[d] = b /\ Uses(d) =>
                               /\ b \in inUse /\ ~Holds(b) /\ ~DropDue(b)
                               /\ \A e \in Cgpus : addr[e] = b /\ Uses(e) => e = d)'
                        /\ (Holds(b) => b \in inUse /\ ~DropDue(b))'
                        /\ (DropDue(b) => b \in inUse)'
                        /\ (\A i, j \in DOMAIN work :
                              work[i].addr = b /\ work[j].addr = b /\ ~work[i].lock /\ ~work[j].lock => i = j)'
      BY DEF OneHand
    <3>1. \A d \in once : addr[d] # b
      BY <1>2
    <3>2. (\A i, j \in DOMAIN work :
              work[i].addr = b /\ work[j].addr = b /\ ~work[i].lock /\ ~work[j].lock => i = j)'
      <4> SUFFICES ASSUME NEW i \in DOMAIN work', NEW j \in DOMAIN work',
                          work'[i].addr = b, work'[j].addr = b, ~work'[i].lock, ~work'[j].lock
                   PROVE  i = j
        OBVIOUS
      <4>1. /\ i \in Nat /\ i + 1 \in DOMAIN work /\ work[i + 1].addr = b /\ ~work[i + 1].lock
            /\ j \in Nat /\ j + 1 \in DOMAIN work /\ work[j + 1].addr = b /\ ~work[j + 1].lock
        BY <1>1
      <4>2. \A k, l \in DOMAIN work :
               work[k].addr = b /\ work[l].addr = b /\ ~work[k].lock /\ ~work[l].lock => k = l
        BY <3>1 DEF OneHand
      <4>3. i + 1 = j + 1
        BY <4>1, <4>2
      <4> QED BY <4>1, <4>3
    <3>3. CASE b = a
      <4>1. /\ \A d \in Cgpus : addr[d] = a => ~Uses(d)
            /\ ~Holds(a)
        BY <2>4, <3>1, <3>3 DEF OneHand
      <4>2. \A i \in DOMAIN work : work[i].addr = a /\ ~work[i].lock => i = 1
        BY <1>1, <1>3, <1>13, <3>1, <3>3 DEF OneHand
      <4>3. ~DropDue(a)'
        <5>1. \A j \in DOMAIN work' : ~(~work'[j].lock /\ work'[j].addr = a)
          BY <1>1, <1>3, <4>2
        <5> QED BY <1>3, <1>11, <3>3, <5>1 DEF DropsMean
      <4> QED BY <1>2, <1>7, <2>5, <3>2, <3>3, <4>1, <4>3
    <3>4. CASE b # a
      BY <1>2, <1>7, <2>1, <2>3, <2>5, <3>1, <3>2, <3>4 DEF OneHand
    <3> QED BY <3>3, <3>4
  <2> QED BY <1>6, <1>8, <1>9, <1>10, <2>2, <2>6, <2>7
<1> QED BY <1>3, <1>12, <1>13

\* The menu blacklists and whitelists: it looks without the lock, and gives up
\* what nobody else did.
LEMMA MenuBlacklistInv ==
  ASSUME BusInv, NEW c \in Cgpus, BlacklistAsks(c) \/ BlacklistRelease(c),
         UNCHANGED <<plugged, cgpus, claims, requests, scan, counts>>
  PROVE  BusInv'
<1>1. "menu" \in Threads /\ "menu" # "hotplug"
  BY DEF Threads
<1>2. CASE BlacklistAsks(c)
  <2>1. stage[c] = "started" /\ Does(c, "menu", "idle", "strike")
    BY <1>2 DEF BlacklistAsks
  <2> QED BY <1>1, <2>1, ActStep DEF Writing
<1>3. CASE BlacklistRelease(c)
  <2>1. Does(c, "menu", "struck", "idle") \/ Does(c, "menu", "struck", "mark")
    BY <1>3 DEF BlacklistRelease, Released
  <2>2. stage[c] = "started" /\ c \in once
    BY <1>1, <2>1 DEF Does, BusInv, StageMatches
  <2>3. CASE Does(c, "menu", "struck", "idle")
    BY <1>1, <2>3, ActStep DEF Writing
  <2>4. CASE Does(c, "menu", "struck", "mark")
    BY <1>1, <2>2, <2>4, ActStep DEF Writing
  <2> QED BY <2>1, <2>3, <2>4
<1> QED BY <1>2, <1>3

LEMMA BlacklistInv ==
  ASSUME BusInv, NEW c \in Cgpus, Blacklist(c)
  PROVE  BusInv'
<1> USE DEF BusInv
<1>1. "menu" \in Threads /\ "menu" # "hotplug"
  BY DEF Threads
<1>2. /\ act[c]["menu"] = "strike" /\ act'[c]["menu"] = "struck"
      /\ \A d \in Cgpus, u \in Threads : d # c \/ u # "menu" => act'[d][u] = act[d][u]
      /\ act' \in [Cgpus -> [Threads -> {"idle", "transfer", "failed", "control", "unplug", "strike",
                                      "struck", "mark", "close"}]]
  BY <1>1, DoesAct DEF Blacklist, Does, BusTypeOK
<1>16. stage[c] = "started"
  BY <1>1, <1>2 DEF StageMatches
<1>3. /\ blacklisted' = [blacklisted EXCEPT ![c] = TRUE]
      /\ listed' = {addr[c]} /\ once' = once \cup {c}
      /\ UNCHANGED <<plugged, stage, addr, nodev, open, gone, inUse, lockfile, work, serving, reply, hotplug,
                     todo, at, total_devices, zombie_devs>>
  BY DEF Blacklist, requests, scan, counts
<1>4. \A d \in Cgpus : (Leaves(d)' <=> Leaves(d)) /\ (Uses(d)' <=> Uses(d))
  BY <1>2, <1>3 DEF Leaves, Uses
<1>5. addr[c] \in Addrs
  BY <1>16 DEF StageMatches, BusTypeOK
<1>6. BusTypeOK'
  BY <1>2, <1>3, <1>5 DEF BusTypeOK
<1>7. blacklisted'[c] /\ \A d \in Cgpus \ {c} : blacklisted'[d] = blacklisted[d]
  BY <1>3 DEF BusTypeOK
<1>8. StageMatches'
  BY <1>1, <1>2, <1>3, <1>7, <1>16 DEF StageMatches
<1>9. NodevFirst'
  BY <1>3, <1>4 DEF NodevFirst
<1>10. DevlockHeld' /\ UseLive'
  BY <1>2, <1>3 DEF DevlockHeld, Writing, UseLive, Readers
<1>11. AskedOnce'
  BY <1>3 DEF AskedOnce
<1>12. \A a \in Addrs : (Holds(a)' <=> Holds(a)) /\ (DropDue(a)' <=> DropDue(a))
  BY <1>3 DEF Holds, DropDue
<1>13. ClaimInHand'
  BY <1>3, <1>4, <1>12 DEF ClaimInHand, BusTypeOK
<1>14. OneHand'
  BY <1>3, <1>4, <1>12 DEF OneHand
<1>15. Counts'
  BY <1>3 DEF Counts, StartedCgpus, Zombies
<1> QED BY <1>6, <1>8, <1>9, <1>10, <1>11, <1>13, <1>14, <1>15

\* Taking a cgpu off the blacklist may drop a claim, but only of an address that was
\* blacklisted once, of which nothing is said.
LEMMA WhitelistInv ==
  ASSUME BusInv, NEW c \in Cgpus, Whitelist(c)
  PROVE  BusInv'
<1> USE DEF BusInv
<1>1. /\ blacklisted[c]
      /\ blacklisted' = [blacklisted EXCEPT ![c] = FALSE]
      /\ listed' = listed \ {addr[c]}
      /\ inUse' \in {inUse, inUse \ {addr[c]}}
      /\ UNCHANGED <<plugged, stage, addr, nodev, open, gone, lockfile, once, work, serving, reply, act,
                     hotplug, todo, at, total_devices, zombie_devs>>
  BY DEF Whitelist, requests, scan, counts
<1>2. \A d \in Cgpus : (Leaves(d)' <=> Leaves(d)) /\ (Uses(d)' <=> Uses(d))
  BY <1>1 DEF Leaves, Uses
<1>3. ~blacklisted'[c] /\ \A d \in Cgpus \ {c} : blacklisted'[d] = blacklisted[d]
  BY <1>1 DEF BusTypeOK
<1>4. c \in once
  BY <1>1 DEF StageMatches
<1>5. BusTypeOK'
  <2>1. listed' \in {{}} \cup {{a} : a \in Addrs}
    BY <1>1 DEF BusTypeOK
  <2>2. blacklisted' \in [Cgpus -> BOOLEAN]
    BY <1>1 DEF BusTypeOK
  <2> QED BY <1>1, <2>1, <2>2 DEF BusTypeOK
<1>6. StageMatches' /\ NodevFirst'
  BY <1>1, <1>2, <1>3 DEF StageMatches, NodevFirst
<1>7. DevlockHeld' /\ UseLive' /\ AskedOnce' /\ Counts'
  BY <1>1 DEF DevlockHeld, Writing, UseLive, Readers, AskedOnce, Counts, StartedCgpus, Zombies
<1>8. \A a \in Addrs : (Holds(a)' <=> Holds(a)) /\ (DropDue(a)' <=> DropDue(a))
  BY <1>1 DEF Holds, DropDue
<1>9. ClaimInHand'
  BY <1>1, <1>2, <1>8 DEF ClaimInHand, BusTypeOK
<1>10. OneHand'
  <2>1. \A a \in Addrs : (\A d \in once : addr[d] # a) => (a \in inUse' <=> a \in inUse)
    BY <1>1, <1>4
  <2> QED BY <1>1, <1>2, <1>8, <2>1 DEF OneHand
<1> QED BY <1>5, <1>6, <1>7, <1>9, <1>10

---------------------------------------------------------------------------
\* The hotplug thread goes on and has nothing in hand.
LEMMA HotplugGoesOn ==
  ASSUME BusInv, UNCHANGED <<plugged, cgpus, claims, requests, act, counts>>,
         hotplug \in {"sleep", "scan", "process", "reinit"},
         hotplug' \in {"sleep", "scan", "ask", "process", "reinit"},
         at' \in Addrs \cup {NoAddr}, hotplug' = "ask" => at' # NoAddr, todo' \subseteq Addrs,
         hotplug' = "reinit" /\ once = {} => \A c \in Cgpus : nodev[c]
  PROVE  BusInv'
<1> USE DEF BusInv
<1>1. UNCHANGED <<plugged, stage, addr, nodev, open, gone, blacklisted, inUse, lockfile, listed, once, work,
                  serving, reply, act, total_devices, zombie_devs>>
  BY DEF cgpus, claims, requests, counts
<1>2. \A d \in Cgpus : (Leaves(d)' <=> Leaves(d)) /\ (Uses(d)' <=> Uses(d))
  BY <1>1 DEF Leaves, Uses
<1>3. BusTypeOK'
  BY <1>1 DEF BusTypeOK
<1>4. StageMatches' /\ NodevFirst'
  BY <1>1, <1>2 DEF StageMatches, NodevFirst
<1>5. DevlockHeld' /\ UseLive' /\ Counts'
  BY <1>1 DEF DevlockHeld, Writing, UseLive, Readers, Counts, StartedCgpus, Zombies
<1>6. AskedOnce'
  BY <1>1 DEF AskedOnce
<1>7. \A a \in Addrs : ~Holds(a) /\ ~Holds(a)' /\ (DropDue(a)' <=> DropDue(a))
  BY <1>1 DEF Holds, DropDue
<1>8. ClaimInHand'
  BY <1>1, <1>2, <1>7 DEF ClaimInHand, BusTypeOK
<1>9. OneHand'
  BY <1>1, <1>2, <1>7 DEF OneHand
<1> QED BY <1>3, <1>4, <1>5, <1>6, <1>8, <1>9

\* Devices come and go, and fail.
LEMMA DevicesInv ==
  ASSUME BusInv, (\E a \in Addrs : Plug(a)) \/ (\E c \in Cgpus : Break(c))
  PROVE  BusInv'
<1> USE DEF BusInv
<1>1. /\ plugged' \subseteq Addrs /\ gone' \in [Cgpus -> BOOLEAN]
      /\ UNCHANGED <<stage, addr, nodev, open, blacklisted, claims, requests, act, scan, counts>>
  <2>1. CASE \E a \in Addrs : Plug(a)
    BY <2>1 DEF Plug, BusTypeOK
  <2>2. CASE \E c \in Cgpus : Break(c)
    BY <2>2 DEF Break, BusTypeOK
  <2> QED BY <2>1, <2>2
<1>2. UNCHANGED <<stage, addr, nodev, open, blacklisted, inUse, lockfile, listed, once, work,
                  serving, reply, act, hotplug, todo, at, total_devices, zombie_devs>>
  BY <1>1 DEF claims, requests, scan, counts
<1>3. \A d \in Cgpus : (Leaves(d)' <=> Leaves(d)) /\ (Uses(d)' <=> Uses(d))
  BY <1>2 DEF Leaves, Uses
<1>4. BusTypeOK'
  BY <1>1, <1>2 DEF BusTypeOK
<1>5. StageMatches' /\ NodevFirst'
  BY <1>2, <1>3 DEF StageMatches, NodevFirst
<1>6. DevlockHeld' /\ UseLive' /\ Counts' /\ AskedOnce'
  BY <1>2 DEF DevlockHeld, Writing, UseLive, Readers, Counts, StartedCgpus, Zombies, AskedOnce
<1>7. \A a \in Addrs : (Holds(a)' <=> Holds(a)) /\ (DropDue(a)' <=> DropDue(a))
  BY <1>2 DEF Holds, DropDue
<1>8. ClaimInHand'
  BY <1>2, <1>3, <1>7 DEF ClaimInHand, BusTypeOK
<1>9. OneHand'
  BY <1>2, <1>3, <1>7 DEF OneHand
<1> QED BY <1>4, <1>5, <1>6, <1>8, <1>9

\* Hotplug asks for the claim, or gives it back.
LEMMA AskInv ==
  ASSUME BusInv, Ask
  PROVE  BusInv'
<1> USE DEF BusInv
<1>1. PICK lock \in BOOLEAN :
        /\ Request(lock, at)
        /\ lock => hotplug = "ask" /\ hotplug' = "wait" /\ at' = at
        /\ ~lock => hotplug = "giveback" /\ hotplug' = "scan" /\ at' = NoAddr
  BY DEF Ask, HpGoes
<1>2. PICK a \in Addrs : a = at
  BY <1>1 DEF AskedOnce, BusTypeOK
<1>3. /\ work' \in Seq(Requests) /\ 1 \in DOMAIN work' /\ work'[1] = [lock |-> lock, addr |-> a]
      /\ \A i \in DOMAIN work : i + 1 \in DOMAIN work' /\ work'[i + 1] = work[i]
      /\ \A j \in DOMAIN work' : j \in Nat /\ (j = 1 \/ (j - 1 \in DOMAIN work /\ work'[j] = work[j - 1]))
  BY <1>1, <1>2, RequestWork
<1>4. UNCHANGED <<plugged, stage, addr, nodev, open, gone, blacklisted, inUse, lockfile, listed, once, serving,
                  reply, act, todo, total_devices, zombie_devs>>
  BY <1>1 DEF Ask, Request, cgpus, claims, counts
<1>5. \A d \in Cgpus : (Leaves(d)' <=> Leaves(d)) /\ (Uses(d)' <=> Uses(d))
  BY <1>4 DEF Leaves, Uses
<1>6. BusTypeOK'
  BY <1>1, <1>2, <1>3, <1>4 DEF BusTypeOK, Requests
<1>7. StageMatches' /\ NodevFirst'
  BY <1>1, <1>4, <1>5 DEF StageMatches, NodevFirst
<1>8. DevlockHeld' /\ UseLive' /\ Counts'
  BY <1>1, <1>4 DEF DevlockHeld, Writing, UseLive, Readers, Counts, StartedCgpus, Zombies
<1>9. (\A i \in DOMAIN work : ~work[i].lock) /\ \A b \in Addrs : reply[b] = "none"
  BY <1>1 DEF AskedOnce, BusTypeOK
<1>10. AskedOnce'
  <2>1. at' # NoAddr \/ hotplug' = "scan"
    BY <1>1, <1>2, WantedAssumption
  <2>2. \A j \in DOMAIN work' : work'[j].lock => j = 1 /\ lock
    BY <1>3, <1>9
  <2> QED BY <1>1, <1>2, <1>3, <1>4, <1>9, <2>1, <2>2 DEF AskedOnce
<1>11. DropsMean /\ DropsMean'
  BY <1>6, DropsMeanHolds, PTL
<1>12. \A b \in Addrs : DropDue(b)' <=> DropDue(b) \/ (b = a /\ ~lock)
  <2> SUFFICES ASSUME NEW b \in Addrs PROVE DropDue(b)' <=> DropDue(b) \/ (b = a /\ ~lock)
    OBVIOUS
  <2>1. DropDue(b) => DropDue(b)'
    BY <1>3, <1>11 DEF DropsMean
  <2>2. b = a /\ ~lock => DropDue(b)'
    BY <1>3, <1>11 DEF DropsMean
  <2>3. DropDue(b)' => DropDue(b) \/ (b = a /\ ~lock)
    BY <1>3, <1>11 DEF DropsMean
  <2> QED BY <2>1, <2>2, <2>3
<1>13. \A b \in Addrs : ~Holds(b)' /\ (Holds(b) <=> b = a /\ ~lock)
  BY <1>1, <1>2, <1>4, <1>9 DEF Holds
<1>14. ClaimInHand'
  BY <1>4, <1>5, <1>12, <1>13 DEF ClaimInHand, BusTypeOK
<1>15. OneHand'
  <2> SUFFICES ASSUME NEW b \in Addrs, (\A d \in once : addr[d] # b)'
               PROVE  /\ (\A d \in Cgpus : addr[d] = b /\ Uses(d) =>
                             /\ b \in inUse /\ ~Holds(b) /\ ~DropDue(b)
                             /\ \A e \in Cgpus : addr[e] = b /\ Uses(e) => e = d)'
                      /\ (Holds(b) => b \in inUse /\ ~DropDue(b))'
                      /\ (DropDue(b) => b \in inUse)'
                      /\ (\A i, j \in DOMAIN work :
                            work[i].addr = b /\ work[j].addr = b /\ ~work[i].lock /\ ~work[j].lock => i = j)'
    BY DEF OneHand
  <2>1. \A d \in once : addr[d] # b
    BY <1>4
  <2>2. (\A i, j \in DOMAIN work :
            work[i].addr = b /\ work[j].addr = b /\ ~work[i].lock /\ ~work[j].lock => i = j)'
    <3> SUFFICES ASSUME NEW i \in DOMAIN work', NEW j \in DOMAIN work',
                        work'[i].addr = b, work'[j].addr = b, ~work'[i].lock, ~work'[j].lock
                 PROVE  i = j
      OBVIOUS
    <3>1. \A k, l \in DOMAIN work :
             work[k].addr = b /\ work[l].addr = b /\ ~work[k].lock /\ ~work[l].lock => k = l
      BY <2>1 DEF OneHand
    <3>2. CASE b = a /\ ~lock
      <4>1. ~DropDue(b)
        BY <1>13, <2>1, <3>2 DEF OneHand
      <4>2. \A k \in DOMAIN work : ~(~work[k].lock /\ work[k].addr = b)
        BY <1>11, <4>1 DEF DropsMean
      <4> QED BY <1>3, <4>2
    <3>3. CASE ~(b = a /\ ~lock)
      <4>1. /\ i \in Nat /\ i - 1 \in DOMAIN work /\ work[i - 1].addr = b /\ ~work[i - 1].lock
            /\ j \in Nat /\ j - 1 \in DOMAIN work /\ work[j - 1].addr = b /\ ~work[j - 1].lock
        BY <1>3, <3>3
      <4>2. i - 1 = j - 1
        BY <3>1, <4>1
      <4> QED BY <4>1, <4>2
    <3> QED BY <3>2, <3>3
  <2> QED BY <1>4, <1>5, <1>12, <1>13, <2>1, <2>2 DEF OneHand
<1> QED BY <1>6, <1>7, <1>8, <1>10, <1>14, <1>15

\* The answer ends the wait.
LEMMA AnswerInv ==
  ASSUME BusInv, Answer
  PROVE  BusInv'
<1> USE DEF BusInv
<1>1. /\ hotplug = "wait" /\ reply[at] # "none" /\ reply' = [reply EXCEPT ![at] = "none"]
      /\ \/ reply[at] = "yes" /\ hotplug' = "init" /\ at' = at
         \/ reply[at] # "yes" /\ hotplug' = "scan" /\ at' = NoAddr
      /\ UNCHANGED <<plugged, stage, addr, nodev, open, gone, blacklisted, inUse, lockfile, listed, once, work,
                     serving, act, todo, total_devices, zombie_devs>>
  BY DEF Answer, cgpus, claims, counts
<1>2. PICK a \in Addrs : a = at
  BY <1>1 DEF AskedOnce, BusTypeOK
<1>3. reply' \in [Addrs -> {"none", "yes", "no"}] /\ \A b \in Addrs : reply'[b] = "none"
  BY <1>1, <1>2 DEF BusTypeOK, AskedOnce
<1>4. \A d \in Cgpus : (Leaves(d)' <=> Leaves(d)) /\ (Uses(d)' <=> Uses(d))
  BY <1>1 DEF Leaves, Uses
<1>5. BusTypeOK'
  BY <1>1, <1>2, <1>3 DEF BusTypeOK
<1>6. StageMatches' /\ NodevFirst'
  BY <1>1, <1>4 DEF StageMatches, NodevFirst
<1>7. DevlockHeld' /\ UseLive' /\ Counts'
  BY <1>1 DEF DevlockHeld, Writing, UseLive, Readers, Counts, StartedCgpus, Zombies
<1>8. AskedOnce'
  BY <1>1, <1>3 DEF AskedOnce
<1>9. \A b \in Addrs : (Holds(b)' <=> Holds(b)) /\ (DropDue(b)' <=> DropDue(b))
  BY <1>1, <1>2, <1>3, WantedAssumption DEF Holds, DropDue
<1>10. ClaimInHand'
  BY <1>1, <1>4, <1>9 DEF ClaimInHand, BusTypeOK
<1>11. OneHand'
  BY <1>1, <1>4, <1>9 DEF OneHand
<1> QED BY <1>5, <1>6, <1>7, <1>8, <1>10, <1>11

\* A new cgpu takes the claim over, or it is to be given back.
LEMMA UsbInitInv ==
  ASSUME BusInv, NEW c \in Cgpus, UsbInit(c)
  PROVE  BusInv'
<1> USE DEF BusInv
<1>1. /\ hotplug = "init" /\ stage[c] = "free"
      /\ UNCHANGED <<plugged, gone, blacklisted, inUse, lockfile, listed, once, work, serving, reply, act, todo,
                     at, total_devices, zombie_devs>>
  BY DEF UsbInit, claims, requests, counts
<1>2. PICK a \in Addrs : a = at
  BY <1>1 DEF AskedOnce, BusTypeOK
<1>3. /\ addr[c] = NoAddr /\ nodev[c] /\ ~open[c] /\ c \notin once
      /\ \A t \in Threads : act[c][t] = "idle"
      /\ \A d \in Cgpus : stage[d] # "detecting"
  BY <1>1 DEF StageMatches
<1>4. \A d \in Cgpus : Leaves(d)' <=> Leaves(d)
  BY <1>1 DEF Leaves
<1>5. ~Leaves(c) /\ ~Uses(c) /\ Holds(a)
  BY <1>1, <1>2, <1>3 DEF Leaves, Uses, Holds
<1>6. \A b \in Addrs : (DropDue(b)' <=> DropDue(b)) /\ (Holds(b) <=> b = a)
  BY <1>1, <1>2 DEF DropDue, Holds
<1>7. AskedOnce'
  <2>1. hotplug' \in {"detect", "giveback"}
    BY DEF UsbInit
  <2> QED BY <1>1, <2>1 DEF AskedOnce
<1>8. CASE hotplug' = "giveback"
  <2>1. UNCHANGED <<stage, addr, nodev, open>>
    BY <1>8 DEF UsbInit
  <2>2. \A d \in Cgpus : Uses(d)' <=> Uses(d)
    BY <1>4, <2>1 DEF Uses
  <2>3. \A b \in Addrs : Holds(b)' <=> Holds(b)
    BY <1>1, <1>2, <1>8 DEF Holds
  <2>4. BusTypeOK'
    BY <1>1, <1>8, <2>1 DEF BusTypeOK
  <2>5. StageMatches' /\ NodevFirst'
    BY <1>1, <1>3, <1>4, <2>1 DEF StageMatches, NodevFirst
  <2>6. DevlockHeld' /\ UseLive' /\ Counts'
    BY <1>1, <1>8, <2>1 DEF DevlockHeld, Writing, UseLive, Readers, Counts, StartedCgpus, Zombies
  <2>7. ClaimInHand'
    BY <1>1, <1>6, <2>1, <2>2, <2>3 DEF ClaimInHand, BusTypeOK
  <2>8. OneHand'
    BY <1>1, <1>6, <2>1, <2>2, <2>3 DEF OneHand
  <2> QED BY <1>7, <2>4, <2>5, <2>6, <2>7, <2>8
<1>9. CASE hotplug' = "detect"
  <2>1. /\ stage' = [stage EXCEPT ![c] = "detecting"] /\ addr' = [addr EXCEPT ![c] = at]
        /\ nodev' = [nodev EXCEPT ![c] = FALSE] /\ open' = [open EXCEPT ![c] = TRUE]
    BY <1>9 DEF UsbInit
  <2>2. /\ stage'[c] = "detecting" /\ addr'[c] = a /\ ~nodev'[c] /\ open'[c]
        /\ \A d \in Cgpus \ {c} : /\ stage'[d] = stage[d] /\ addr'[d] = addr[d]
                                  /\ nodev'[d] = nodev[d] /\ open'[d] = open[d]
    BY <1>2, <2>1 DEF BusTypeOK
  <2>3. Uses(c)' /\ \A d \in Cgpus \ {c} : Uses(d)' <=> Uses(d)
    BY <1>4, <2>2 DEF Uses
  <2>4. \A b \in Addrs : ~Holds(b)'
    BY <1>9 DEF Holds
  <2>5. BusTypeOK'
    BY <1>1, <1>9, <2>1 DEF BusTypeOK
  <2>6. StageMatches'
    BY <1>1, <1>2, <1>3, <1>9, <2>2, WantedAssumption DEF StageMatches
  <2>7. NodevFirst'
    BY <1>4, <1>5, <2>2 DEF NodevFirst
  <2>8. DevlockHeld' /\ UseLive'
    BY <1>1, <1>3, <2>2 DEF DevlockHeld, Writing, UseLive, Readers
  <2>9. StartedCgpus' = StartedCgpus /\ Zombies' = Zombies
    BY <1>1, <2>2 DEF StartedCgpus, Zombies
  <2>10. Counts'
    BY <1>1, <1>9, <2>9 DEF Counts
  <2>11. ClaimInHand'
    BY <1>1, <1>5, <1>6, <2>2, <2>3 DEF ClaimInHand, BusTypeOK
  <2>12. OneHand'
    <3> SUFFICES ASSUME NEW b \in Addrs, (\A d \in once : addr[d] # b)'
                 PROVE  /\ (\A d \in Cgpus : addr[d] = b /\ Uses(d) =>
                               /\ b \in inUse /\ ~Holds(b) /\ ~DropDue(b)
                               /\ \A e \in Cgpus : addr[e] = b /\ Uses(e) => e = d)'
                        /\ (Holds(b) => b \in inUse /\ ~DropDue(b))'
                        /\ (DropDue(b) => b \in inUse)'
                        /\ (\A i, j \in DOMAIN work :
                              work[i].addr = b /\ work[j].addr = b /\ ~work[i].lock /\ ~work[j].lock => i = j)'
      BY DEF OneHand
    <3>1. \A d \in once : addr[d] # b
      BY <1>1, <1>3, <2>2 DEF BusTypeOK
    <3>2. CASE b = a
      <4>1. a \in inUse /\ ~DropDue(a) /\ \A d \in Cgpus : addr[d] = a => ~Uses(d)
        BY <1>5, <3>1, <3>2 DEF OneHand
      <4>2. \A d \in Cgpus : addr'[d] = b /\ Uses(d)' => d = c
        BY <2>2, <2>3, <3>2, <4>1
      <4>3. \A i, j \in DOMAIN work :
               work[i].addr = b /\ work[j].addr = b /\ ~work[i].lock /\ ~work[j].lock => i = j
        BY <3>1 DEF OneHand
      <4> QED BY <1>1, <1>6, <2>4, <3>2, <4>1, <4>2, <4>3
    <3>3. CASE b # a
      BY <1>1, <1>6, <2>2, <2>3, <2>4, <3>1, <3>3 DEF OneHand
    <3> QED BY <3>2, <3>3
  <2> QED BY <1>7, <2>5, <2>6, <2>7, <2>8, <2>10, <2>11, <2>12
<1> QED BY <1>8, <1>9 DEF UsbInit

\* The cgpu of a stick that is excluded leaves its claim to hotplug.
LEMMA ExcludeInv ==
  ASSUME BusInv, NEW c \in Cgpus, Exclude(c)
  PROVE  BusInv'
<1> USE DEF BusInv
<1>1. /\ hotplug = "detect" /\ hotplug' = "giveback" /\ stage[c] = "detecting" /\ at \notin Wanted
      /\ stage' = [stage EXCEPT ![c] = "free"] /\ addr' = [addr EXCEPT ![c] = NoAddr]
      /\ nodev' = [nodev EXCEPT ![c] = TRUE]
      /\ open' = [open EXCEPT ![c] = FALSE] /\ gone' = [gone EXCEPT ![c] = FALSE]
      /\ UNCHANGED <<plugged, blacklisted, inUse, lockfile, listed, once, work, serving, reply, act, todo, at,
                     total_devices, zombie_devs>>
  BY DEF Exclude, HpGoes, claims, requests, counts
<1>2. PICK a \in Addrs : a = at
  BY <1>1 DEF AskedOnce, BusTypeOK
<1>3. /\ addr[c] = a /\ ~nodev[c] /\ c \notin once
      /\ \A t \in Threads : act[c][t] = "idle"
      /\ \A d \in Cgpus \ {c} : stage[d] # "detecting"
  BY <1>1, <1>2 DEF StageMatches
<1>4. /\ stage'[c] = "free" /\ addr'[c] = NoAddr /\ nodev'[c] /\ ~open'[c]
      /\ \A d \in Cgpus \ {c} : /\ stage'[d] = stage[d] /\ addr'[d] = addr[d]
                                /\ nodev'[d] = nodev[d] /\ open'[d] = open[d]
  BY <1>1 DEF BusTypeOK
<1>5. (\A d \in Cgpus : Leaves(d)' <=> Leaves(d)) /\ ~Leaves(c)
  BY <1>1, <1>3 DEF Leaves
<1>6. Uses(c) /\ ~Uses(c)' /\ \A d \in Cgpus \ {c} : Uses(d)' <=> Uses(d)
  BY <1>3, <1>4, <1>5 DEF Uses
<1>7. \A b \in Addrs : (DropDue(b)' <=> DropDue(b)) /\ ~Holds(b) /\ (Holds(b)' <=> b = a)
  BY <1>1, <1>2 DEF DropDue, Holds
<1>8. BusTypeOK'
  BY <1>1 DEF BusTypeOK
<1>9. StageMatches'
  BY <1>1, <1>3, <1>4 DEF StageMatches
<1>10. NodevFirst'
  BY <1>4, <1>5 DEF NodevFirst
<1>11. DevlockHeld' /\ UseLive'
  BY <1>1, <1>3, <1>4 DEF DevlockHeld, Writing, UseLive, Readers
<1>12. AskedOnce'
  BY <1>1 DEF AskedOnce
<1>13. StartedCgpus' = StartedCgpus /\ Zombies' = Zombies
  BY <1>1, <1>4 DEF StartedCgpus, Zombies
<1>14. Counts'
  BY <1>1, <1>13 DEF Counts
<1>15. ClaimInHand'
  <2>1. inUse \subseteq Addrs
    BY DEF BusTypeOK
  <2> QED BY <1>1, <1>3, <1>4, <1>6, <1>7, <2>1 DEF ClaimInHand
<1>16. OneHand'
  <2> SUFFICES ASSUME NEW b \in Addrs, (\A d \in once : addr[d] # b)'
               PROVE  /\ (\A d \in Cgpus : addr[d] = b /\ Uses(d) =>
                             /\ b \in inUse /\ ~Holds(b) /\ ~DropDue(b)
                             /\ \A e \in Cgpus : addr[e] = b /\ Uses(e) => e = d)'
                      /\ (Holds(b) => b \in inUse /\ ~DropDue(b))'
                      /\ (DropDue(b) => b \in inUse)'
                      /\ (\A i, j \in DOMAIN work :
                            work[i].addr = b /\ work[j].addr = b /\ ~work[i].lock /\ ~work[j].lock => i = j)'
    BY DEF OneHand
  <2>1. \A d \in once : addr[d] # b
    BY <1>1, <1>3, <1>4 DEF BusTypeOK
  <2>2. b \in Addrs /\ b # NoAddr
    BY WantedAssumption
  <2>3. CASE b = a
    <3>1. a \in inUse /\ ~DropDue(a) /\ \A d \in Cgpus : addr[d] = a /\ Uses(d) => d = c
      BY <1>3, <1>6, <2>1, <2>3 DEF OneHand
    <3>2. \A d \in Cgpus : addr'[d] = b => ~Uses(d)'
      BY <1>4, <1>6, <2>2, <2>3, <3>1
    <3>3. \A i, j \in DOMAIN work :
             work[i].addr = b /\ work[j].addr = b /\ ~work[i].lock /\ ~work[j].lock => i = j
      BY <2>1 DEF OneHand
    <3> QED BY <1>1, <1>7, <2>3, <3>1, <3>2, <3>3
  <2>4. CASE b # a
    BY <1>1, <1>4, <1>6, <1>7, <2>1, <2>2, <2>4 DEF OneHand
  <2> QED BY <2>3, <2>4
<1> QED BY <1>8, <1>9, <1>10, <1>11, <1>12, <1>14, <1>15, <1>16

\* A cgpu is added, and later started, whether or not it was given up meanwhile.
LEMMA AddInv ==
  ASSUME BusInv, NEW c \in Cgpus, Add(c) \/ StartThreads(c)
  PROVE  BusInv'
<1> USE DEF BusInv
<1>1. UNCHANGED <<plugged, addr, nodev, open, gone, blacklisted, inUse, lockfile, listed, once, work, serving,
                  reply, act, todo, zombie_devs>>
  BY DEF Add, StartThreads, claims, requests, counts, scan
<1>2. act[c]["hotplug"] = "idle"
  BY DEF Add, StartThreads, HpFree
<1>3. \/ /\ hotplug = "detect" /\ hotplug' = "scan" /\ at' = NoAddr /\ total_devices' = total_devices
         /\ stage[c] = "detecting" /\ stage' = [stage EXCEPT ![c] = "added"]
      \/ /\ hotplug = "process" /\ hotplug' = "process" /\ at' = at /\ total_devices' = total_devices + 1
         /\ stage[c] = "added" /\ stage' = [stage EXCEPT ![c] = "started"]
  BY DEF Add, StartThreads, HpGoes, counts, scan
<1>4. /\ stage'[c] # "free" /\ stage'[c] # "detecting"
      /\ \A d \in Cgpus \ {c} : stage'[d] = stage[d]
  BY <1>3 DEF BusTypeOK
<1>5. \A d \in Cgpus : (Leaves(d)' <=> Leaves(d)) /\ (Uses(d)' <=> Uses(d))
  BY <1>1 DEF Leaves, Uses
<1>6. \A b \in Addrs : ~Holds(b) /\ ~Holds(b)' /\ (DropDue(b)' <=> DropDue(b))
  BY <1>1, <1>3 DEF Holds, DropDue
<1>7. StartedCgpus \in SUBSET Cgpus /\ Zombies \in SUBSET Cgpus /\ StartedCgpus' \in SUBSET Cgpus /\ Zombies' \in SUBSET Cgpus
  BY DEF StartedCgpus, Zombies
<1>8. total_devices' = Cardinality(StartedCgpus')
  <2>1. IsFiniteSet(StartedCgpus) /\ total_devices = Cardinality(StartedCgpus)
    BY <1>7, CgpusFinite DEF Counts
  <2>2. CASE stage[c] = "detecting"
    <3>1. StartedCgpus' = StartedCgpus /\ total_devices' = total_devices
      BY <1>3, <1>4, <2>2 DEF StartedCgpus, BusTypeOK
    <3> QED BY <2>1, <3>1
  <2>3. CASE stage[c] = "added"
    <3>1. stage'[c] = "started" /\ total_devices' = total_devices + 1
      BY <1>3, <2>3 DEF BusTypeOK
    <3>2. StartedCgpus' = StartedCgpus \cup {c} /\ c \notin StartedCgpus
      BY <1>4, <2>3, <3>1 DEF StartedCgpus
    <3> QED BY <2>1, <3>1, <3>2, FS_AddElement
  <2> QED BY <1>3, <2>2, <2>3
<1>9. BusTypeOK'
  <2>1. total_devices' \in 0 .. MaxCgpus
    BY <1>7, <1>8, CgpusFinite
  <2>2. stage' \in [Cgpus -> {"free", "detecting", "added", "started"}]
    BY <1>3 DEF BusTypeOK
  <2> QED BY <1>1, <1>3, <2>1, <2>2 DEF BusTypeOK
<1>10. StageMatches'
  <2>1. \A t \in Threads : act[c][t] # "idle" => stage'[c] = "started" /\ t # "hotplug"
    BY <1>2, <1>3 DEF StageMatches
  <2>2. \A d \in Cgpus : stage[d] = "detecting" => d = c
    BY <1>3 DEF StageMatches
  <2>3. \A d \in Cgpus \ {c} : stage'[d] # "detecting"
    BY <1>4, <2>2
  <2>4. c \in once => stage'[c] = "started"
    BY <1>3 DEF StageMatches
  <2> QED BY <1>1, <1>3, <1>4, <2>1, <2>2, <2>3, <2>4 DEF StageMatches
<1>11. NodevFirst' /\ DevlockHeld' /\ UseLive'
  BY <1>1, <1>5 DEF NodevFirst, DevlockHeld, Writing, UseLive, Readers
<1>12. AskedOnce'
  BY <1>1, <1>3 DEF AskedOnce
<1>13. ClaimInHand'
  BY <1>1, <1>5, <1>6 DEF ClaimInHand, BusTypeOK
<1>14. OneHand'
  BY <1>1, <1>5, <1>6 DEF OneHand
<1>15. Counts'
  <2>1. Zombies \subseteq Zombies'
    BY <1>1, <1>3, <1>4 DEF Zombies, BusTypeOK
  <2>2. Cardinality(Zombies) <= Cardinality(Zombies') /\ Cardinality(Zombies) \in Nat /\ Cardinality(Zombies') \in Nat
    BY <1>7, <2>1, CgpusFinite, FS_Subset
  <2>3. once = {} => zombie_devs' <= Cardinality(Zombies')
    BY <1>1, <2>2 DEF Counts, BusTypeOK
  <2>4. hotplug' # "reinit"
    BY <1>3
  <2> QED BY <1>1, <1>8, <2>3, <2>4 DEF Counts
<1> QED BY <1>9, <1>10, <1>11, <1>12, <1>13, <1>14, <1>15

\* The counts agree only when every cgpu was given up.
LEMMA ZombiesAgree ==
  ASSUME BusInv, hotplug = "process", \A c \in Cgpus : stage[c] # "added",
         total_devices = zombie_devs, once = {}
  PROVE  \A c \in Cgpus : nodev[c]
<1> USE DEF BusInv
<1>1. \A c \in Cgpus : stage[c] \in {"free", "started"}
  BY DEF StageMatches, BusTypeOK
<1>2. StartedCgpus \in SUBSET Cgpus /\ Zombies \in SUBSET StartedCgpus
  BY <1>1 DEF StartedCgpus, Zombies
<1>3. IsFiniteSet(StartedCgpus) /\ Cardinality(StartedCgpus) \in Nat /\ Cardinality(Zombies) \in Nat
  BY <1>2, CgpusFinite
<1>4. Cardinality(StartedCgpus) <= Cardinality(Zombies)
  BY DEF Counts
<1>5. Zombies = StartedCgpus
  <2>1. Cardinality(Zombies) <= Cardinality(StartedCgpus)
    BY <1>2, <1>3, FS_Subset
  <2> QED BY <1>2, <1>3, <1>4, <2>1, FS_Subset
<1> QED BY <1>1, <1>5 DEF StartedCgpus, Zombies, StageMatches

\* Every step of the hotplug thread
LEMMA HotplugThreadInv == BusInv /\ HotplugThread => BusInv'
<1> SUFFICES ASSUME BusInv, HotplugThread PROVE BusInv'
  OBVIOUS
<1>1. CASE HotplugBegin
  <2>1. plugged \subseteq Addrs /\ at \in Addrs \cup {NoAddr}
    BY DEF BusInv, BusTypeOK
  <2> QED BY <1>1, <2>1, HotplugGoesOn DEF HotplugBegin, HpGoes
<1>2. ASSUME NEW a \in Addrs, Look(a) PROVE BusInv'
  <2>1. todo \subseteq Addrs /\ at \in Addrs \cup {NoAddr}
    BY DEF BusInv, BusTypeOK
  <2> QED BY <1>2, <2>1, HotplugGoesOn, WantedAssumption DEF Look
<1>3. CASE ScanEnd
  <2>1. todo \subseteq Addrs /\ at \in Addrs \cup {NoAddr}
    BY DEF BusInv, BusTypeOK
  <2> QED BY <1>3, <2>1, HotplugGoesOn DEF ScanEnd, HpGoes
<1>4. CASE HotplugEnd
  <2>1. todo \subseteq Addrs /\ at \in Addrs \cup {NoAddr}
    BY DEF BusInv, BusTypeOK
  <2>2. hotplug' = "reinit" /\ once = {} => \A c \in Cgpus : nodev[c]
    BY <1>4, ZombiesAgree DEF HotplugEnd
  <2> QED BY <1>4, <2>1, <2>2, HotplugGoesOn DEF HotplugEnd
<1>5. CASE ReinitUsb
  <2>1. todo \subseteq Addrs /\ at \in Addrs \cup {NoAddr}
    BY DEF BusInv, BusTypeOK
  <2> QED BY <1>5, <2>1, HotplugGoesOn DEF ReinitUsb, HpGoes
<1> QED BY <1>1, <1>2, <1>3, <1>4, <1>5, AskInv, AnswerInv, UsbInitInv, ExcludeInv, AddInv, HotplugGivesUpInv
        DEF HotplugThread

\* Every step of every thread keeps the invariant.
LEMMA NextBusInv == BusInv /\ [BusNext]_busVars => BusInv'
<1> SUFFICES ASSUME BusInv, [BusNext]_busVars PROVE BusInv'
  OBVIOUS
<1>1. ASSUME NEW c \in Cgpus, Menu(c) PROVE BusInv'
  BY <1>1, MenuUnplugInv, MenuBlacklistInv, BlacklistInv, WhitelistInv DEF Menu
<1>2. ASSUME NEW c \in Cgpus, NEW t \in Threads, release_cgpu(c, t) PROVE BusInv'
  BY <1>2, ReleaseMarkInv, ReleaseCloseInv DEF release_cgpu
<1>3. CASE UNCHANGED busVars
  <2>1. UNCHANGED <<plugged, stage, addr, nodev, open, gone, blacklisted, inUse, lockfile, listed, once, work,
                    serving, reply, act, hotplug, todo, at, total_devices, zombie_devs>>
    BY <1>3 DEF busVars, cgpus, claims, requests, scan, counts
  <2>2. BusTypeOK' /\ StageMatches' /\ NodevFirst' /\ DevlockHeld' /\ AskedOnce'
    BY <2>1 DEF BusInv, BusTypeOK, StageMatches, NodevFirst, Leaves, DevlockHeld, Writing, AskedOnce
  <2>3. ClaimInHand' /\ OneHand' /\ Counts' /\ UseLive'
    BY <2>1 DEF BusInv, ClaimInHand, OneHand, Uses, Leaves, Holds, DropDue, Counts, StartedCgpus, Zombies, UseLive, Readers
  <2> QED BY <2>2, <2>3 DEF BusInv
<1> QED BY <1>1, <1>2, <1>3, ServeInv, HotplugThreadInv, UserStepInv, DevicesInv DEF BusNext

\* At the start nothing is claimed or used.
LEMMA InitBusInv == BusInit => BusInv
<1> SUFFICES ASSUME BusInit PROVE BusInv
  OBVIOUS
<1> USE WantedAssumption, MaxAssumption DEF BusInit
<1>1. BusTypeOK
  <2>1. work \in Seq([lock : BOOLEAN, addr : Addrs])
    OBVIOUS
  <2>2. act \in [Cgpus -> [Threads -> {"idle", "transfer", "failed", "control", "unplug", "strike",
                                      "struck", "mark", "close"}]]
    OBVIOUS
  <2>3. listed \in {{}} \cup {{a} : a \in Addrs} /\ inUse \subseteq lockfile /\ lockfile \subseteq Addrs /\ once \subseteq Cgpus
    OBVIOUS
  <2>4. total_devices \in 0 .. MaxCgpus /\ zombie_devs \in Nat
    OBVIOUS
  <2>5. serving \in BOOLEAN
    OBVIOUS
  <2> QED BY <2>1, <2>2, <2>3, <2>4, <2>5 DEF BusTypeOK
<1>2. StageMatches /\ NodevFirst /\ DevlockHeld /\ AskedOnce
  BY DEF StageMatches, NodevFirst, Leaves, DevlockHeld, Writing, AskedOnce
<1>3. ClaimInHand /\ OneHand /\ UseLive
  BY DEF ClaimInHand, OneHand, Uses, Leaves, Holds, DropDue, UseLive, Readers
<1>4. StartedCgpus = {} /\ Zombies = {}
  BY DEF StartedCgpus, Zombies
<1>5. Counts
  BY <1>4, FS_EmptySet DEF Counts
<1> QED BY <1>1, <1>2, <1>3, <1>5 DEF BusInv

\* The devlock, the claims and the counts of the usb layer keep together, for
\* any devices, threads and numbers of cgpus (usbutils.c).
THEOREM BusInvariant == BusSpec => []BusInv
  BY InitBusInv, NextBusInv, PTL DEF BusSpec

\* The type invariant: no entry of the list of devices in use is without its
\* lock file.
THEOREM BusTypeOKHolds == BusSpec => []BusTypeOK
  BY BusInvariant, PTL DEF BusInv

\* No transfer is under way on a device that was closed, but for one that was
\* blacklisted (callback_wait, _usb_uninit).
THEOREM UseLiveHolds == BusSpec => []UseLive
  BY BusInvariant, PTL DEF BusInv

\* A device that is used is claimed once, and nothing is left over that would
\* let it be claimed twice (resource_lock, release_cgpu).
THEOREM LiveIsClaimedHolds == BusSpec => []LiveIsClaimed
<1>1. BusInv => LiveIsClaimed
  <2> SUFFICES ASSUME BusInv, NEW c \in Cgpus, ~nodev[c], \A d \in once : addr[d] # addr[c]
               PROVE  /\ addr[c] \in inUse /\ ~DropDue(addr[c])
                      /\ \A d \in Cgpus \ {c} : addr[d] = addr[c] => nodev[d] /\ ~Leaves(d)
    BY DEF LiveIsClaimed
  <2>1. addr[c] \in Addrs
    BY DEF BusInv, StageMatches, BusTypeOK
  <2> QED BY <2>1 DEF BusInv, OneHand, Uses
<1> QED BY <1>1, BusInvariant, PTL

\* No claim is left behind by whoever had it.
THEOREM ClaimIsUsedHolds == BusSpec => []ClaimIsUsed
<1>1. BusInv => ClaimIsUsed
  BY DEF BusInv, ClaimInHand, ClaimIsUsed, Uses, Holds
<1> QED BY <1>1, BusInvariant, PTL

\* libusb is initialised again only when no device is used (hotplug_thread).
THEOREM ReinitUnusedHolds == BusSpec => []ReinitUnused
<1>1. BusInv => ReinitUnused
  BY DEF BusInv, Counts, NodevFirst, ReinitUnused
<1> QED BY <1>1, BusInvariant, PTL

=============================================================================
