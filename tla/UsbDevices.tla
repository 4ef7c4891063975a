----------------------------- MODULE UsbDevices -----------------------------
(***************************************************************************)
(* How cgminer claims the sticks it finds on the bus, uses them, gives     *)
(* them up and finds them again (usbutils.c, and the hotplug thread).      *)
(*                                                                         *)
(* A claim is an entry of the list of devices in use and a lock file,      *)
(* which keeps other programs away; only the resource thread makes and     *)
(* drops claims, on requests that it serves last come, first served.  A    *)
(* cgpu is used by its threads under its devlock, to read by transfers and *)
(* to write by control transfers and resets; whoever meets an error gives  *)
(* the cgpu up for good.  The hotplug thread makes a new cgpu for a device *)
(* that is plugged and not claimed.                                        *)
(*                                                                         *)
(* Devices come, go and fail, and the operator acts, at any time.  A       *)
(* device that cannot be opened is taken for one that was unplugged, and   *)
(* no other program holds a lock file.  Limits on the number of devices,   *)
(* and several cgpus for one device, which no stick has, are left out.     *)
(***************************************************************************)
EXTENDS Integers, Sequences, FiniteSets

CONSTANTS
    MaxCgpus,   \* bound: the cgpus that can be made
    Addrs,      \* a bus and a device address each
    Wanted,     \* the addresses of sticks that the options do not exclude
    Users,      \* the threads of a stick that transfer
    NoAddr,
    MaxBlacklisted  \* bound: the cgpus that are blacklisted

ASSUME WantedAssumption == Wanted \subseteq Addrs /\ NoAddr \notin Addrs
ASSUME MaxAssumption == MaxCgpus \in Nat /\ MaxBlacklisted \in Nat
ASSUME UsersAssumption == Users \cap {"menu", "hotplug"} = {}

VARIABLES
    plugged,        \* the addresses where a device is
    stage, addr,    \* how far a cgpu was brought up, and for which device
    nodev,
    open,           \* whether usbdev is there, with its handle
    gone,           \* whether the device was unplugged, or failed, since
    blacklisted,
    inUse,          \* in_use_head
    lockfile,       \* the addresses whose lock file cgminer holds
    listed,         \* the entry at blacklist_head
    once,           \* history: the cgpus that were blacklisted
    work, serving,  \* res_work_head, and whether the resource thread has cgusbres_lock
    reply,          \* res_reply_head
    act,            \* what a thread does with a cgpu
    hotplug, todo, at,  \* where the hotplug thread is, what it has to look at and looks at
    total_devices, zombie_devs

cgpus == <<stage, addr, nodev, open, gone, blacklisted>>
claims == <<inUse, lockfile, listed, once>>
requests == <<work, serving, reply>>
scan == <<hotplug, todo, at>>
counts == <<total_devices, zombie_devs>>
busVars == <<plugged, cgpus, claims, requests, act, scan, counts>>

Cgpus == 1..MaxCgpus

Threads == Users \cup {"menu", "hotplug"}

BusInit ==
    /\ plugged \in SUBSET Addrs
    /\ stage = [c \in Cgpus |-> "free"] /\ addr = [c \in Cgpus |-> NoAddr]
    /\ nodev = [c \in Cgpus |-> TRUE]
    /\ open = [c \in Cgpus |-> FALSE] /\ gone = [c \in Cgpus |-> FALSE]
    /\ blacklisted = [c \in Cgpus |-> FALSE]
    /\ inUse = {} /\ lockfile = {} /\ listed = {} /\ once = {}
    /\ work = <<>> /\ serving = FALSE /\ reply = [a \in Addrs |-> "none"]
    /\ act = [c \in Cgpus |-> [t \in Threads |-> "idle"]]
    /\ hotplug = "sleep" /\ todo = {} /\ at = NoAddr
    /\ total_devices = 0 /\ zombie_devs = 0

---------------------------------------------------------------------------
(* Claims: the lists, the requests and the resource thread *)

\* __is_in_use.  An entry of the blacklist leads on into the devices that were in
\* use when it was made (add_in_use): memory that may have been freed since, and
\* may look like any address.
IsInUse(a) ==
    IF a \in inUse \cup listed THEN {TRUE} ELSE IF once # {} THEN BOOLEAN ELSE {FALSE}

\* cgminer_usb_lock_bd and cgminer_usb_unlock_bd put a request before the others.
Request(lock, a) ==
    /\ ~serving
    /\ work' = <<[lock |-> lock, addr |-> a]>> \o work
    /\ UNCHANGED <<serving, reply>>

\* resource_lock
ResourceLock(a) ==
    \E used \in IsInUse(a) :
        LET got == ~used /\ a \notin lockfile
        IN  /\ reply' = [reply EXCEPT ![a] = IF got THEN "yes" ELSE "no"]
            /\ inUse' = IF got THEN inUse \cup {a} ELSE inUse
            /\ lockfile' = IF got THEN lockfile \cup {a} ELSE lockfile

\* Mutant: the lock file is closed, and the entry stays.
ResourceUnlock_listed(a) ==
    /\ lockfile' = lockfile \ {a}
    /\ UNCHANGED <<inUse, reply>>

\* resource_unlock finds the lock file by the entry.
ResourceUnlock(a) ==
    /\ inUse' = inUse \ {a}
    /\ lockfile' = IF a \in inUse THEN lockfile \ {a} ELSE lockfile
    /\ UNCHANGED reply

\* usb_resource_thread and resource_process: one request, and the thread keeps
\* cgusbres_lock until none is left.
Serve ==
    /\ work # <<>>
    /\ IF Head(work).lock THEN ResourceLock(Head(work).addr)
       ELSE ResourceUnlock(Head(work).addr)
    /\ work' = Tail(work) /\ serving' = (Tail(work) # <<>>)
    /\ UNCHANGED <<plugged, cgpus, listed, once, act, scan, counts>>

---------------------------------------------------------------------------
(* The devlock of a cgpu, and giving a cgpu up *)

Does(c, t, from, to) == act[c][t] = from /\ act' = [act EXCEPT ![c][t] = to]

Readers(c) == {t \in Threads : act[c][t] = "transfer"}

\* blacklist_cgpu gives the cgpu up without taking the devlock.
Bare(c, t) == t = "menu" /\ blacklisted[c]

Writers(c) ==
    {t \in Threads : /\ act[c][t] \in {"control", "mark", "close"}
                     /\ ~Bare(c, t)}

CanRead(c) == Writers(c) = {}
CanWrite(c) == Writers(c) = {} /\ Readers(c) = {}

\* Mutant: whoever gives the cgpu up does not look whether another did.
Released_again(c, t, from) == Does(c, t, from, "mark")

\* __release_cgpu returns when it was done before.
Released(c, t, from) == Does(c, t, from, IF nodev[c] THEN "idle" ELSE "mark")

\* zombie_devs counts a cgpu that was initialised.  It has no lock: of two that
\* count at a time one may be lost.
ReleaseMark(c, t) ==
    /\ Does(c, t, "mark", "close")
    /\ nodev' = [nodev EXCEPT ![c] = TRUE]
    /\ LET counted == stage[c] \in {"added", "started"}
           racing == \E d \in Cgpus, u \in Threads :
                         <<d, u>> # <<c, t>> /\ act[d][u] = "mark"
       IN  \/ zombie_devs' = IF counted THEN zombie_devs + 1 ELSE zombie_devs
           \/ racing /\ counted /\ UNCHANGED zombie_devs
    /\ UNCHANGED <<plugged, stage, addr, open, gone, blacklisted, claims, requests, scan,
                   total_devices>>

\* Mutant: the claim is not dropped.
ReleaseClose_kept(c, t) ==
    /\ Does(c, t, "close", "idle")
    /\ open' = [open EXCEPT ![c] = FALSE]
    /\ UNCHANGED <<plugged, stage, addr, nodev, gone, blacklisted, claims, requests, scan,
                   counts>>

\* _usb_uninit closes and frees the device, and release_cgpu asks for the claim to
\* be dropped; the devlock is given up.
ReleaseClose(c, t) ==
    /\ Does(c, t, "close", "idle")
    /\ open' = [open EXCEPT ![c] = FALSE]
    /\ Request(FALSE, addr[c])
    /\ UNCHANGED <<plugged, stage, addr, nodev, gone, blacklisted, claims, scan, counts>>

release_cgpu(c, t) ==
    ReleaseMark(c, t) \/ ReleaseClose(c, t)

---------------------------------------------------------------------------
(* The threads of a stick *)

\* _usb_read and _usb_write; nothing is sent to a device that is gone.
TransferStart(c, u) ==
    /\ stage[c] = "started" /\ ~nodev[c] /\ CanRead(c)
    /\ Does(c, u, "idle", "transfer")

\* callback_wait ends with the transfer, which is cancelled if it takes too long.
\* An error gives up the read lock.
TransferEnd(c, u) == Does(c, u, "transfer", IF gone[c] THEN "failed" ELSE "idle")

\* Mutant: whoever reads gives the cgpu up under the read lock.
Upgrade_open(c, u) == Released(c, u, "failed")

\* The write lock is taken later (cg_ruwlock).
Upgrade(c, u) == CanWrite(c) /\ Released(c, u, "failed")

\* _usb_transfer and usb_reset, under the write lock.
ControlStart(c, u) ==
    /\ stage[c] = "started" /\ ~nodev[c] /\ CanWrite(c)
    /\ Does(c, u, "idle", "control")

ControlEnd(c, u) ==
    IF gone[c] THEN Released(c, u, "control") ELSE Does(c, u, "control", "idle")

UserStep(c, u) ==
    /\ \/ TransferStart(c, u) \/ TransferEnd(c, u) \/ Upgrade(c, u)
       \/ ControlStart(c, u) \/ ControlEnd(c, u)
    /\ UNCHANGED <<plugged, cgpus, claims, requests, scan, counts>>

---------------------------------------------------------------------------
(* The menu *)

MenuFree == \A c \in Cgpus : act[c]["menu"] = "idle"

\* usb_nodev, after a look without the lock
MenuAsks(c) ==
    MenuFree /\ stage[c] = "started" /\ ~nodev[c] /\ Does(c, "menu", "idle", "unplug")

usb_nodev(c) == CanWrite(c) /\ Released(c, "menu", "unplug")

\* The menu looks whether there is a device to blacklist, without the lock; ...
BlacklistAsks(c) ==
    /\ MenuFree /\ stage[c] = "started" /\ ~nodev[c] /\ ~blacklisted[c]
    /\ Cardinality(once) < MaxBlacklisted
    /\ Does(c, "menu", "idle", "strike")

\* ... blacklist_cgpu makes an entry that leads to the devices in use, of which
\* this was one, and no longer to the blacklist; ...
Blacklist(c) ==
    /\ Does(c, "menu", "strike", "struck")
    /\ blacklisted' = [blacklisted EXCEPT ![c] = TRUE]
    /\ listed' = {addr[c]} /\ once' = once \cup {c}
    /\ UNCHANGED <<plugged, stage, addr, nodev, open, gone, inUse, lockfile, requests, scan,
                   counts>>

\* ... and gives the cgpu up, if nobody did in the meantime.
BlacklistRelease(c) == Released(c, "menu", "struck")

\* whitelist_cgpu removes the head, or what it finds where the list leads to:
\* nothing, or the entry of the device in use.
Whitelist(c) ==
    /\ MenuFree /\ blacklisted[c]
    /\ blacklisted' = [blacklisted EXCEPT ![c] = FALSE]
    /\ listed' = listed \ {addr[c]}
    /\ IF addr[c] \in listed THEN UNCHANGED inUse
       ELSE \E found \in BOOLEAN : inUse' = IF found THEN inUse \ {addr[c]} ELSE inUse
    /\ UNCHANGED <<plugged, stage, addr, nodev, open, gone, lockfile, once, requests, act,
                   scan, counts>>

Menu(c) ==
    \/ /\ MenuAsks(c) \/ usb_nodev(c) \/ BlacklistAsks(c) \/ BlacklistRelease(c)
       /\ UNCHANGED <<plugged, cgpus, claims, requests, scan, counts>>
    \/ Blacklist(c) \/ Whitelist(c)

---------------------------------------------------------------------------
(* The hotplug thread *)

HpGoes(from, to) == hotplug = from /\ hotplug' = to

\* It gives no cgpu up at the moment.
HpFree == \A c \in Cgpus : act[c]["hotplug"] = "idle"

HotplugBegin ==
    /\ HpGoes("sleep", "scan")
    /\ todo' = plugged
    /\ UNCHANGED <<plugged, cgpus, claims, requests, act, at, counts>>

\* Bound: cgpus are not made without limit.
LimitReached == \A c \in Cgpus : stage[c] # "free"

\* __usb_detect looks whether the next device is in use.
Look(a) ==
    /\ hotplug = "scan" /\ a \in todo
    /\ ~LimitReached
    /\ todo' = todo \ {a}
    /\ \/ TRUE \in IsInUse(a) /\ UNCHANGED <<hotplug, at>>
       \/ FALSE \in IsInUse(a) /\ hotplug' = "ask" /\ at' = a
    /\ UNCHANGED <<plugged, cgpus, claims, requests, act, counts>>

\* cgminer_usb_lock, or cgminer_usb_unlock when there is no cgpu after all
Ask ==
    /\ \/ HpGoes("ask", "wait") /\ Request(TRUE, at)
       \/ HpGoes("giveback", "scan") /\ Request(FALSE, at)
    /\ at' = IF hotplug = "ask" THEN at ELSE NoAddr
    /\ UNCHANGED <<plugged, cgpus, claims, act, todo, counts>>

Answer ==
    /\ hotplug = "wait" /\ ~serving /\ reply[at] # "none"
    /\ IF reply[at] = "yes" THEN hotplug' = "init" /\ UNCHANGED at
       ELSE hotplug' = "scan" /\ at' = NoAddr
    /\ reply' = [reply EXCEPT ![at] = "none"]
    /\ UNCHANGED <<plugged, cgpus, claims, work, serving, act, todo, counts>>

\* The system lets a device be opened for use once.
Held(a) == \E d \in Cgpus : open[d] /\ addr[d] = a /\ ~gone[d]

\* _usb_init
UsbInit(c) ==
    /\ hotplug = "init" /\ stage[c] = "free" /\ \A d \in 1..c - 1 : stage[d] # "free"
    /\ \/ /\ at \in plugged /\ ~Held(at)
          /\ hotplug' = "detect"
          /\ stage' = [stage EXCEPT ![c] = "detecting"]
          /\ addr' = [addr EXCEPT ![c] = at]
          /\ nodev' = [nodev EXCEPT ![c] = FALSE]
          /\ open' = [open EXCEPT ![c] = TRUE]
       \/ /\ at \notin plugged \/ Held(at)
          /\ hotplug' = "giveback"
          /\ UNCHANGED <<stage, addr, nodev, open>>
    /\ UNCHANGED <<plugged, gone, blacklisted, claims, requests, act, todo, at, counts>>

\* Mutant: the claim of a stick that is excluded is kept.
Exclude_kept(c) ==
    /\ HpGoes("detect", "scan") /\ stage[c] = "detecting" /\ at \notin Wanted
    /\ stage' = [stage EXCEPT ![c] = "free"] /\ addr' = [addr EXCEPT ![c] = NoAddr]
    /\ nodev' = [nodev EXCEPT ![c] = TRUE]
    /\ open' = [open EXCEPT ![c] = FALSE] /\ gone' = [gone EXCEPT ![c] = FALSE]
    /\ at' = NoAddr
    /\ UNCHANGED <<plugged, blacklisted, claims, requests, act, todo, counts>>

\* compac_detect_one leaves a stick that the options exclude, its cgpu to nobody;
\* here the slot is free again.
Exclude(c) ==
    /\ HpGoes("detect", "giveback") /\ stage[c] = "detecting" /\ at \notin Wanted
    /\ stage' = [stage EXCEPT ![c] = "free"] /\ addr' = [addr EXCEPT ![c] = NoAddr]
    /\ nodev' = [nodev EXCEPT ![c] = TRUE]
    /\ open' = [open EXCEPT ![c] = FALSE] /\ gone' = [gone EXCEPT ![c] = FALSE]
    /\ UNCHANGED <<plugged, blacklisted, claims, requests, act, todo, at, counts>>

\* It sets the others up, which may fail and gives the cgpu up, and adds them
\* all the same.
SetUpFails(c) ==
    /\ hotplug = "detect" /\ HpFree /\ stage[c] = "detecting" /\ at \in Wanted
    /\ gone[c] /\ ~nodev[c]
    /\ Does(c, "hotplug", "idle", "mark")
    /\ UNCHANGED <<plugged, cgpus, claims, requests, scan, counts>>

Add(c) ==
    /\ HpGoes("detect", "scan") /\ HpFree /\ stage[c] = "detecting" /\ at \in Wanted
    /\ stage' = [stage EXCEPT ![c] = "added"]
    /\ at' = NoAddr
    /\ UNCHANGED <<plugged, addr, nodev, open, gone, blacklisted, claims, requests, act, todo,
                   counts>>

ScanEnd ==
    /\ HpGoes("scan", "process") /\ (todo = {} \/ LimitReached)
    /\ UNCHANGED <<plugged, cgpus, claims, requests, act, todo, at, counts>>

\* hotplug_process: compac_prepare may force the cgpu back to hotplug ...
Prepare(c) ==
    /\ hotplug = "process" /\ HpFree /\ stage[c] = "added" /\ ~nodev[c]
    /\ Does(c, "hotplug", "idle", "mark")
    /\ UNCHANGED <<plugged, cgpus, claims, requests, scan, counts>>

\* Mutant: a device that was given up in the meantime is not counted.
StartThreads_alive(c) ==
    /\ hotplug = "process" /\ HpFree /\ stage[c] = "added"
    /\ stage' = [stage EXCEPT ![c] = "started"]
    /\ total_devices' = IF nodev[c] THEN total_devices ELSE total_devices + 1
    /\ UNCHANGED <<plugged, addr, nodev, open, gone, blacklisted, claims, requests, act, scan,
                   zombie_devs>>

\* ... and the threads are started in either case.
StartThreads(c) ==
    /\ hotplug = "process" /\ HpFree /\ stage[c] = "added"
    /\ stage' = [stage EXCEPT ![c] = "started"]
    /\ total_devices' = total_devices + 1
    /\ UNCHANGED <<plugged, addr, nodev, open, gone, blacklisted, claims, requests, act, scan,
                   zombie_devs>>

\* hotplug_thread: libusb is initialised again when every device is a zombie.
HotplugEnd ==
    /\ hotplug = "process" /\ \A c \in Cgpus : stage[c] # "added"
    /\ hotplug' = IF total_devices = zombie_devs THEN "reinit" ELSE "sleep"
    /\ UNCHANGED <<plugged, cgpus, claims, requests, act, todo, at, counts>>

\* reinit_usb
ReinitUsb ==
    /\ HpGoes("reinit", "sleep")
    /\ UNCHANGED <<plugged, cgpus, claims, requests, act, todo, at, counts>>

HotplugThread ==
    \/ HotplugBegin \/ (\E a \in Addrs : Look(a)) \/ Ask \/ Answer
    \/ \E c \in Cgpus : \/ UsbInit(c) \/ Exclude(c) \/ SetUpFails(c) \/ Add(c)
                        \/ Prepare(c) \/ StartThreads(c)
    \/ ScanEnd \/ HotplugEnd \/ ReinitUsb

---------------------------------------------------------------------------
(* The devices *)

Plug(a) ==
    /\ plugged' = (IF a \in plugged THEN plugged \ {a} ELSE plugged \cup {a})
    /\ gone' = [c \in Cgpus |-> gone[c] \/ (open[c] /\ addr[c] = a)]
    /\ UNCHANGED <<stage, addr, nodev, open, blacklisted, claims, requests, act, scan, counts>>

Break(c) ==
    /\ open[c] /\ ~gone[c]
    /\ gone' = [gone EXCEPT ![c] = TRUE]
    /\ UNCHANGED <<plugged, stage, addr, nodev, open, blacklisted, claims, requests, act, scan,
                   counts>>

BusNext ==
    \/ Serve \/ HotplugThread
    \/ \E c \in Cgpus : \/ Menu(c) \/ Break(c)
                        \/ \E u \in Users : UserStep(c, u)
                        \/ \E t \in Threads : release_cgpu(c, t)
    \/ \E a \in Addrs : Plug(a)

BusSpec == BusInit /\ [][BusNext]_busVars

\* The threads run, and the devlock is granted in the end (see CgLock); the
\* threads of a stick read from it again and again, and the end of a transfer
\* that was cancelled comes.
BusFairSpec ==
    /\ BusSpec
    /\ WF_busVars(Serve) /\ WF_busVars(HotplugThread)
    /\ WF_busVars(\E c \in Cgpus, t \in Threads : release_cgpu(c, t))
    /\ \A c \in Cgpus : WF_busVars(\E u \in Users : UserStep(c, u))

---------------------------------------------------------------------------
BusTypeOK ==
    /\ plugged \subseteq Addrs
    /\ stage \in [Cgpus -> {"free", "detecting", "added", "started"}]
    /\ addr \in [Cgpus -> Addrs \cup {NoAddr}]
    /\ nodev \in [Cgpus -> BOOLEAN] /\ open \in [Cgpus -> BOOLEAN]
    /\ gone \in [Cgpus -> BOOLEAN] /\ blacklisted \in [Cgpus -> BOOLEAN]
    /\ inUse \subseteq lockfile /\ lockfile \subseteq Addrs
    /\ listed \in {{}} \cup {{a} : a \in Addrs} /\ once \subseteq Cgpus
    /\ work \in Seq([lock : BOOLEAN, addr : Addrs]) /\ serving \in BOOLEAN
    /\ reply \in [Addrs -> {"none", "yes", "no"}]
    /\ act \in [Cgpus -> [Threads -> {"idle", "transfer", "failed", "control", "unplug",
                                      "strike", "struck", "mark", "close"}]]
    /\ hotplug \in {"sleep", "scan", "ask", "wait", "init", "detect", "giveback", "process",
                     "reinit"}
    /\ todo \subseteq Addrs /\ at \in Addrs \cup {NoAddr}
    /\ total_devices \in 0..MaxCgpus /\ zombie_devs \in Nat

\* No transfer is under way on a device that was closed and freed, whoever gives
\* it up; but a device that is blacklisted is freed without the lock.
UseLive ==
    \A c \in Cgpus \ once : Readers(c) # {} => open[c]

Leaves(c) == \E t \in Threads : act[c][t] = "close"

DropDue(a) == \E i \in DOMAIN work : work[i] = [lock |-> FALSE, addr |-> a]

\* A device that is used is claimed, no earlier cgpu of it is still being given
\* up, and no request to drop its claim is left over that would let the
\* device be claimed twice.
LiveIsClaimed ==
    \A c \in Cgpus :
        ~nodev[c] /\ (\A d \in once : addr[d] # addr[c]) =>
            /\ addr[c] \in inUse /\ ~DropDue(addr[c])
            /\ \A d \in Cgpus \ {c} : addr[d] = addr[c] => nodev[d] /\ ~Leaves(d)

\* No claim is left behind: whatever is claimed is used, being brought up, given
\* up, or about to be dropped.  This is of the list: a lock file stays for good
\* when whitelist_cgpu removes the entry by which it is found.
ClaimIsUsed ==
    \A a \in inUse :
        \/ \E c \in Cgpus : addr[c] = a /\ (~nodev[c] \/ Leaves(c))
        \/ at = a /\ hotplug \in {"wait", "init", "giveback"}
        \/ DropDue(a)

\* libusb is initialised again only when no device is used; one may still be
\* closing.
ReinitUnused ==
    hotplug = "reinit" /\ once = {} => \A c \in Cgpus : open[c] => Leaves(c)

\* How far a cgpu was brought up says which threads may have to do with it, and the
\* one that is being detected is that of the hotplug thread.
StageMatches ==
    \A c \in Cgpus :
        /\ stage[c] = "free" <=> addr[c] = NoAddr
        /\ stage[c] = "free" => nodev[c] /\ ~open[c]
        /\ stage[c] = "detecting" =>
              /\ hotplug = "detect" /\ at = addr[c]
              /\ at \in Wanted \/ ~nodev[c]
              /\ \A d \in Cgpus \ {c} : stage[d] # "detecting"
        /\ \A t \in Threads : act[c][t] # "idle" =>
              IF t = "hotplug" THEN stage[c] = "added" \/ (stage[c] = "detecting" /\ at \in Wanted)
              ELSE stage[c] = "started"
        /\ c \in once => stage[c] = "started"
        /\ \A t \in Threads : act[c][t] = "struck" => c \in once
        /\ blacklisted[c] => c \in once

\* nodev is set before the device is closed, by the thread that will close it.
NodevFirst ==
    \A c \in Cgpus : /\ ~nodev[c] => open[c]
                     /\ Leaves(c) => nodev[c]
                     /\ open[c] /\ nodev[c] => Leaves(c)

\* The devlock of a cgpu that was not blacklisted: whoever writes is alone, and
\* nobody gives up what another gave up.
Writing == {"control", "mark", "close"}
DevlockHeld ==
    \A c \in Cgpus \ once, t \in Threads :
        /\ act[c][t] \in Writing =>
              \A u \in Threads : act[c][u] \in Writing \cup {"transfer"} => u = t
        /\ act[c][t] = "mark" => ~nodev[c]

\* What is asked of the resource thread, and answered, is what hotplug waits for.
AskedOnce ==
    /\ hotplug \in {"ask", "wait", "init", "detect", "giveback"} => at # NoAddr
    /\ \A a \in Addrs : reply[a] # "none" => hotplug = "wait" /\ at = a
    /\ \A i \in DOMAIN work : work[i].lock =>
          /\ hotplug = "wait" /\ at = work[i].addr /\ reply[at] = "none"
          /\ \A j \in DOMAIN work : work[j].lock => j = i

\* A claim is in one hand, from that of the hotplug thread over that of the cgpu
\* to the request that drops it; whatever was not blacklisted has just one.
Uses(c) == ~nodev[c] \/ Leaves(c)
Holds(a) == at = a /\ (hotplug \in {"init", "giveback"} \/ (hotplug = "wait" /\ reply[a] = "yes"))
ClaimInHand ==
    \A a \in inUse : (\E c \in Cgpus : addr[c] = a /\ Uses(c)) \/ Holds(a) \/ DropDue(a)
OneHand ==
    \A a \in Addrs : (\A d \in once : addr[d] # a) =>
        /\ \A c \in Cgpus : addr[c] = a /\ Uses(c) =>
              /\ a \in inUse /\ ~Holds(a) /\ ~DropDue(a)
              /\ \A d \in Cgpus : addr[d] = a /\ Uses(d) => d = c
        /\ Holds(a) => a \in inUse /\ ~DropDue(a)
        /\ DropDue(a) => a \in inUse
        /\ \A i, j \in DOMAIN work :
              work[i].addr = a /\ work[j].addr = a /\ ~work[i].lock /\ ~work[j].lock => i = j

\* The counts: no more zombies than cgpus that were given up, unless one was
\* blacklisted and given up twice.
StartedCgpus == {c \in Cgpus : stage[c] = "started"}
Zombies == {c \in Cgpus : stage[c] \in {"added", "started"} /\ nodev[c]}
Counts ==
    /\ total_devices = Cardinality(StartedCgpus)
    /\ once = {} => zombie_devs <= Cardinality(Zombies)
    /\ hotplug = "reinit" /\ once = {} => \A c \in Cgpus : nodev[c]

\* The inductive invariant
BusInv ==
    /\ BusTypeOK /\ StageMatches /\ NodevFirst /\ DevlockHeld /\ AskedOnce
    /\ ClaimInHand /\ OneHand /\ Counts /\ UseLive

\* A device that stays plugged is found and used in the end, whatever was plugged,
\* failed or given up before.
DeviceReturns ==
    \A a \in Wanted :
        <>[](a \in plugged /\ once = {}) =>
            <>[]((\E c \in Cgpus : addr[c] = a /\ stage[c] = "started" /\ ~nodev[c])
                 \/ LimitReached)

=============================================================================
