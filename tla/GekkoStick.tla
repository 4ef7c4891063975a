----------------------------- MODULE GekkoStick -----------------------------
(***************************************************************************)
(* The life of one stick, from its detection to its end: the state         *)
(* info->mining_state, which the miner thread (compac_scanwork), the       *)
(* listener (compac_listen2), the mining thread (compac_mine2), the nonce  *)
(* thread, the telemetry thread and the API write with no lock in common.  *)
(*                                                                         *)
(* A thread that reads mining_state and writes it with nothing but         *)
(* assignments in between does so in one step.  Where there is a sleep, a  *)
(* transfer or a lock in between the write is a step of its own, and what  *)
(* another thread wrote meanwhile is overwritten.                          *)
(*                                                                         *)
(* Whether the chips answer, whether a transfer fails, how hot they get    *)
(* and when a hash rate is too low is left open.  The other sticks are an  *)
(* environment that shares the static pointer init_count.                  *)
(***************************************************************************)
EXTENDS Integers

CONSTANTS
    Kinds,          \* which sticks: "GSF" (BM1397), "GSA1", "GSA2"
    NodevEvery,     \* 5: every so many preparations the stick is dropped
    DisableAbove,   \* 10: after more it is disabled
    TELEM_FAIL_MAX,
    CountSize,      \* 256: the counts are of type uint8_t
    MaxResets       \* bound: resets asked for through the API

ASSUME KindsAssumption == Kinds \subseteq {"GSF", "GSA1", "GSA2"}
ASSUME CountAssumption ==
    NodevEvery \in Nat \ {0} /\ DisableAbove \in Nat /\ TELEM_FAIL_MAX \in Nat /\ CountSize \in Nat \ {0}
ASSUME ResetsAssumption == MaxResets \in Nat

VARIABLES
    kind,
    mining_state,
    chips,          \* 0, or 1 for some
    dev_init_count, \* that of this stick's address
    init_count,     \* info->init_count
    pointer,        \* whose dev_init_count the static init_count points to
    deven, nodev,
    miner,          \* where the miner thread is; a state is that which it read
    rthr, wthr, nthr, tthr, \* where the driver's threads are: the listener, the
                    \* mining, the nonce and the telemetry thread
    has_telem, fail_telem,
    resets,
    overwritten     \* history: a state other than that which the writer read
                    \* was overwritten since the chips were last cleared

countVars == <<dev_init_count, init_count, pointer>>
devVars == <<deven, nodev>>
tthrVars == <<tthr, has_telem, fail_telem>>
restVars == <<chips, countVars, devVars, has_telem, fail_telem, overwritten>>
stickVars == <<kind, mining_state, chips, countVars, devVars, miner, rthr, wthr, nthr,
               tthrVars, resets, overwritten>>

States == {"REINIT", "INIT", "CHIP_COUNT", "CHIP_COUNT_XX", "CHIP_COUNT_OK", "OPEN_CORE",
           "OPEN_CORE_OK", "MINING", "MINING_DUPS", "RESET", "SHUTDOWN"}
Mining == {"MINING", "MINING_DUPS"}

\* info->reset_reinit
Reset == IF kind = "GSA2" THEN "REINIT" ELSE "RESET"

---------------------------------------------------------------------------
\* compac_prepare, once init_count is counted
Dropped(n) == n # 0 /\ n % NodevEvery = 0
Retired(n) == ~Dropped(n) /\ n > DisableAbove

\* The stick is detected and prepared, and its threads are started.  What its
\* address was counted before it was plugged in is still there.
StickInit ==
    /\ kind \in Kinds
    /\ mining_state = "INIT" /\ chips = 0
    /\ dev_init_count \in 0 .. CountSize - 1 /\ init_count = dev_init_count
    /\ pointer = "own"
    /\ nodev = Dropped(init_count)
    /\ deven = IF Retired(init_count) THEN "DISABLED" ELSE "ENABLED"
    /\ miner = "after"
    /\ rthr = "top" /\ wthr = "top" /\ nthr = "top"
    /\ tthr = IF kind = "GSF" THEN "ended" ELSE "top"
    /\ has_telem = FALSE /\ fail_telem = 0
    /\ resets = 0 /\ overwritten = FALSE

---------------------------------------------------------------------------
(* The miner thread: hash_queued_work with compac_scanwork *)

ScanGoes(from, to) == miner = from /\ miner' = to

\* scanwork returns -1: the loop ends, and compac_shutdown follows.
ScanGone ==
    /\ ScanGoes("top", "shutdown") /\ nodev
    /\ deven' = "DISABLED"
    /\ UNCHANGED <<mining_state, chips, countVars, nodev, has_telem, fail_telem, overwritten>>

\* compac_shutdown; nothing waits for the threads, which are detached.
Shutdown ==
    /\ ScanGoes("shutdown", "ended")
    /\ mining_state' = "SHUTDOWN"
    /\ UNCHANGED restVars

\* The states that take time are read, ...
Slow == {"REINIT", "INIT", "OPEN_CORE", "OPEN_CORE_OK", "RESET"}
            \cup (IF kind = "GSF" THEN {"CHIP_COUNT_OK"} ELSE {})

ScanRead ==
    /\ miner = "top" /\ ~nodev
    /\ mining_state \in Slow /\ miner' = mining_state
    /\ UNCHANGED <<mining_state, restVars>>

\* ... and the others dealt with at once: more than five seconds may have
\* passed since the reset, and duplicates are noted.
ScanQuick ==
    /\ ScanGoes("top", "after") /\ ~nodev
    /\ mining_state \notin Slow
    /\ mining_state' \in
          CASE mining_state = "CHIP_COUNT" -> {"CHIP_COUNT", Reset}
            [] mining_state = "MINING_DUPS" -> {"MINING"}
            [] OTHER -> {mining_state}
    /\ UNCHANGED restVars

\* It falls through to MINER_INIT.
ScanReinit ==
    /\ ScanGoes("REINIT", "INIT")
    /\ mining_state' = "INIT"
    /\ UNCHANGED restVars

ScanInit ==
    /\ ScanGoes("INIT", "after")
    /\ chips' = 0
    /\ mining_state' = "CHIP_COUNT"
    /\ overwritten' = FALSE
    /\ UNCHANGED <<countVars, devVars, has_telem, fail_telem>>

\* compac_send_chain_inactive, which makes it MINER_OPEN_CORE for a moment
ScanOpen ==
    /\ miner \in {"CHIP_COUNT_OK", "OPEN_CORE"} /\ miner' = "after"
    /\ mining_state' = "OPEN_CORE_OK"
    /\ UNCHANGED restVars

ScanStart ==
    /\ ScanGoes("OPEN_CORE_OK", "after")
    /\ mining_state' = "MINING"
    /\ UNCHANGED restVars

\* Mutant: info->init_count is not taken from the count of the address.
ScanPrepare_forgetful ==
    /\ ScanGoes("RESET", "prepared")
    /\ pointer' = "own"
    /\ dev_init_count' = (dev_init_count + 1) % CountSize
    /\ init_count' = 1 % CountSize
    /\ UNCHANGED <<mining_state, chips, devVars, has_telem, fail_telem, overwritten>>

\* MINER_RESET: the chips are reset, and compac_prepare counts, ...
ScanPrepare ==
    /\ ScanGoes("RESET", "prepared")
    /\ pointer' = "own"
    /\ dev_init_count' = (dev_init_count + 1) % CountSize
    /\ init_count' = dev_init_count'
    /\ UNCHANGED <<mining_state, chips, devVars, has_telem, fail_telem, overwritten>>

\* ... drops the stick, disables it or sleeps for five seconds.
ScanJudge ==
    /\ ScanGoes("prepared", "reset")
    /\ nodev' = (nodev \/ Dropped(init_count))
    /\ deven' = IF Retired(init_count) THEN "DISABLED" ELSE deven
    /\ UNCHANGED <<mining_state, chips, countVars, has_telem, fail_telem, overwritten>>

ScanReset ==
    /\ ScanGoes("reset", "forget")
    /\ mining_state' = "INIT"
    /\ UNCHANGED restVars

\* "force retry setup if miner should have telemetry"
ScanForget ==
    /\ ScanGoes("forget", "after")
    /\ has_telem' = FALSE /\ fail_telem' = 0
    /\ UNCHANGED <<mining_state, chips, countVars, devVars, overwritten>>

\* Back in hash_queued_work, which a disabled stick does not leave.
ScanAfter ==
    /\ ScanGoes("after", "top") /\ deven = "ENABLED"
    /\ UNCHANGED <<mining_state, restVars>>

ScanStep ==
    /\ \/ ScanGone \/ Shutdown \/ ScanRead \/ ScanQuick \/ ScanReinit \/ ScanInit \/ ScanOpen
       \/ ScanStart \/ ScanPrepare \/ ScanJudge \/ ScanReset \/ ScanForget \/ ScanAfter
    /\ UNCHANGED <<kind, rthr, wthr, nthr, tthr, resets>>

---------------------------------------------------------------------------
(* The listener: compac_listen2 *)

ListenGoes(from, to) == rthr = from /\ rthr' = to

ListenTop ==
    /\ ListenGoes("top", CASE mining_state = "SHUTDOWN" -> "ended"
                           [] mining_state = "CHIP_COUNT" -> "chippy"
                           [] OTHER -> "read")
    /\ UNCHANGED <<mining_state, chips, countVars, nthr, overwritten>>

\* The chips are asked to reply.
SendChippy ==
    /\ ListenGoes("chippy", "read")
    /\ mining_state' = "CHIP_COUNT_XX"
    /\ overwritten' = (overwritten \/ mining_state # "CHIP_COUNT")
    /\ UNCHANGED <<chips, countVars, nthr>>

\* A chip replies; more bytes may have come with its reply, or be all there is.
ReadChip ==
    /\ rthr = "read" /\ ~nodev
    /\ mining_state \in {"CHIP_COUNT", "CHIP_COUNT_XX"}
    /\ chips' = 1
    /\ \/ mining_state' = "CHIP_COUNT_XX" /\ rthr' = "top" /\ chips = 0
       \/ mining_state' = "CHIP_COUNT_OK" /\ rthr' = "forgive"
    /\ UNCHANGED <<countVars, nthr, overwritten>>

\* Mutant: that no chip replied is not noticed.
CountChips_any ==
    /\ rthr = "read" /\ mining_state = "CHIP_COUNT_XX"
    /\ \/ mining_state' = Reset /\ rthr' = "top"
       \/ mining_state' = "CHIP_COUNT_OK" /\ rthr' = "forgive"
    /\ UNCHANGED <<chips, countVars, nthr, overwritten>>

\* Nothing comes in time, or something else than the reply of a chip: there is
\* no chip, or fewer than expected_chips, or all is well.
CountChips ==
    /\ rthr = "read" /\ mining_state = "CHIP_COUNT_XX"
    /\ \/ mining_state' = Reset /\ rthr' = "top"
       \/ chips > 0 /\ mining_state' = "CHIP_COUNT_OK" /\ rthr' = "forgive"
    /\ UNCHANGED <<chips, countVars, nthr, overwritten>>

\* Mutant: one reset is forgiven, not all.
Forgive_one ==
    /\ ListenGoes("forgive", "top")
    /\ dev_init_count' = IF pointer = "own" THEN dev_init_count - 1 ELSE dev_init_count
    /\ init_count' = 0
    /\ UNCHANGED <<mining_state, chips, pointer, nthr, overwritten>>

\* Under static_lock.  The pointer may be that of another stick.
Forgive ==
    /\ ListenGoes("forgive", "top")
    /\ dev_init_count' = IF pointer = "own" THEN 0 ELSE dev_init_count
    /\ init_count' = 0
    /\ UNCHANGED <<mining_state, chips, pointer, nthr, overwritten>>

\* What is read while mining is kept as a nonce ...
ReadNonce ==
    /\ ListenGoes("read", "top") /\ ~nodev /\ mining_state = "MINING"
    /\ nthr' = IF nthr = "top" THEN "held" ELSE nthr
    /\ UNCHANGED <<mining_state, chips, countVars, overwritten>>

\* ... and otherwise ignored; or nothing came.
ReadNothing ==
    /\ ListenGoes("read", "top") /\ mining_state # "CHIP_COUNT_XX"
    /\ UNCHANGED <<mining_state, chips, countVars, nthr, overwritten>>

RthrStep ==
    /\ \/ ListenTop \/ SendChippy \/ ReadChip \/ CountChips \/ Forgive \/ ReadNonce \/ ReadNothing
    /\ UNCHANGED <<kind, devVars, miner, wthr, tthrVars, resets>>

---------------------------------------------------------------------------
(* The mining thread: compac_mine2 *)

MineGoes(from, to) == wthr = from /\ wthr' = to

\* Mutant: the thread waits for chips before it looks for the end.
MineTop_waits ==
    /\ chips > 0
    /\ \/ MineGoes("top", "ended") /\ mining_state = "SHUTDOWN"
       \/ /\ MineGoes("top", "work")
          /\ deven # "DISABLED" /\ ~nodev /\ mining_state \in Mining
    /\ UNCHANGED mining_state

MineTop ==
    /\ \/ MineGoes("top", "ended") /\ mining_state = "SHUTDOWN"
       \/ /\ MineGoes("top", "work")
          /\ chips > 0 /\ deven # "DISABLED" /\ ~nodev /\ mining_state \in Mining
    /\ UNCHANGED mining_state

\* A task is sent, or none is there.
MineSent ==
    /\ MineGoes("work", "top")
    /\ UNCHANGED mining_state

\* No nonces for too long, a hash rate too low, or a task that cannot be sent
MineReset ==
    /\ MineGoes("work", "top")
    /\ mining_state' = Reset

WthrStep ==
    /\ \/ MineTop \/ MineSent \/ MineReset
    /\ UNCHANGED <<kind, restVars, miner, rthr, nthr, tthr, resets>>

---------------------------------------------------------------------------
(* The nonce thread: compac_gsfak_nonce_que, compac_gsf_nonce, compac_gsa1_nonce *)

NonceGoes(from, to) == nthr = from /\ nthr' = to

\* What nstore still holds is left.
NonceEnds ==
    /\ nthr \in {"top", "held"} /\ nthr' = "ended" /\ mining_state = "SHUTDOWN"
    /\ UNCHANGED <<mining_state, overwritten>>

\* It is submitted, or fits no work.
NonceHandled ==
    /\ NonceGoes("held", "top")
    /\ UNCHANGED <<mining_state, overwritten>>

\* The chip reported it before.  At the first such the state is written, and
\* not looked at.
NonceDup ==
    /\ NonceGoes("held", "top")
    /\ mining_state' \in {mining_state, "MINING_DUPS"}
    /\ overwritten' = (overwritten \/ (mining_state' # mining_state /\ mining_state \notin Mining))

NthrStep ==
    /\ \/ NonceEnds \/ NonceHandled \/ NonceDup
    /\ UNCHANGED <<kind, chips, countVars, devVars, miner, rthr, wthr, tthrVars, resets>>

---------------------------------------------------------------------------
(* The telemetry thread of a GSA1 or GSA2: compac_telemetry *)

TelemGoes(from, to) == tthr = from /\ tthr' = to

TelemTop ==
    /\ \/ TelemGoes("top", "ended") /\ mining_state = "SHUTDOWN" /\ UNCHANGED <<mining_state, has_telem>>
       \/ /\ mining_state = "CHIP_COUNT_OK" /\ has_telem' = FALSE
          /\ IF fail_telem <= TELEM_FAIL_MAX
                THEN TelemGoes("top", "enable") /\ UNCHANGED mining_state
                ELSE TelemGoes("top", "top") /\ mining_state' = "OPEN_CORE"
       \/ /\ TelemGoes("top", "check") /\ mining_state = "MINING" /\ has_telem
          /\ UNCHANGED <<mining_state, has_telem>>
    /\ UNCHANGED <<fail_telem, overwritten>>

TelemEnabled ==
    /\ TelemGoes("enable", "top")
    /\ has_telem' = TRUE
    /\ mining_state' = "OPEN_CORE"
    /\ overwritten' = (overwritten \/ mining_state # "CHIP_COUNT_OK")
    /\ UNCHANGED fail_telem

\* Mutant: the cores are opened at a failure, which is not counted.
TelemFails_open ==
    /\ TelemGoes("enable", "top")
    /\ mining_state' = IF mining_state = "CHIP_COUNT_OK" THEN "OPEN_CORE" ELSE mining_state
    /\ UNCHANGED <<has_telem, fail_telem, overwritten>>

\* A transfer fails, or the version that is answered is not known: then
\* telemetry is given up at once.
TelemFails ==
    /\ TelemGoes("enable", "top")
    /\ fail_telem' \in {fail_telem + 1, TELEM_FAIL_MAX + 1}
    /\ UNCHANGED <<mining_state, has_telem, overwritten>>

\* The stick cooled down, or its regulator is to be turned on: a reset does it.
TelemCheck ==
    /\ TelemGoes("check", "top")
    /\ mining_state' \in {mining_state, Reset}
    /\ UNCHANGED <<has_telem, fail_telem, overwritten>>

TthrStep ==
    /\ \/ TelemTop \/ TelemEnabled \/ TelemFails \/ TelemCheck
    /\ UNCHANGED <<kind, chips, countVars, devVars, miner, rthr, wthr, nthr, resets>>

---------------------------------------------------------------------------
(* The operator, the bus and the other sticks *)

\* compac_api_set "reset"
ApiReset ==
    /\ resets < MaxResets
    /\ resets' = resets + 1
    /\ mining_state' = Reset
    /\ UNCHANGED <<kind, chips, countVars, devVars, miner, rthr, wthr, nthr, tthrVars,
                   overwritten>>

\* usb_nodev: of the operator, or of the usb layer when a transfer fails for good
Unplug ==
    /\ ~nodev /\ nodev' = TRUE
    /\ UNCHANGED <<kind, mining_state, chips, countVars, deven, miner, rthr, wthr,
                   nthr, tthrVars, resets, overwritten>>

\* Another stick is prepared, when it is detected and at every reset, ...
OtherPrepares ==
    /\ pointer' = "other"
    /\ UNCHANGED <<kind, mining_state, chips, dev_init_count, init_count, devVars, miner, rthr,
                   wthr, nthr, tthrVars, resets, overwritten>>

\* ... and its listener forgives whom the pointer points to.
OtherForgives ==
    /\ dev_init_count' = IF pointer = "own" THEN 0 ELSE dev_init_count
    /\ UNCHANGED <<kind, mining_state, chips, init_count, pointer, devVars, miner, rthr, wthr,
                   nthr, tthrVars, resets, overwritten>>

OtherStick == OtherPrepares \/ OtherForgives

---------------------------------------------------------------------------
StickNext ==
    \/ ScanStep \/ RthrStep \/ WthrStep \/ NthrStep \/ TthrStep
    \/ ApiReset \/ Unplug \/ OtherStick

StickSpec == StickInit /\ [][StickNext]_stickVars

\* Every thread runs when it can; nothing is asked of the chips, the bus and
\* the operator.
StickFairSpec ==
    /\ StickSpec
    /\ WF_stickVars(ScanStep) /\ WF_stickVars(RthrStep) /\ WF_stickVars(WthrStep)
    /\ WF_stickVars(NthrStep) /\ WF_stickVars(TthrStep)

---------------------------------------------------------------------------
StickTypeOK ==
    /\ kind \in Kinds
    /\ mining_state \in States
    /\ chips \in {0, 1}
    /\ dev_init_count \in 0 .. CountSize - 1 /\ init_count \in 0 .. CountSize - 1
    /\ pointer \in {"own", "other"}
    /\ deven \in {"ENABLED", "DISABLED"} /\ nodev \in BOOLEAN
    /\ miner \in {"top", "after", "shutdown", "ended", "prepared", "reset", "forget",
                  "REINIT", "INIT", "CHIP_COUNT_OK", "OPEN_CORE", "OPEN_CORE_OK", "RESET"}
    /\ rthr \in {"top", "chippy", "read", "forgive", "ended"}
    /\ wthr \in {"top", "work", "ended"}
    /\ nthr \in {"top", "held", "ended"}
    /\ tthr \in {"top", "enable", "check", "ended"}
    /\ has_telem \in BOOLEAN
    /\ fail_telem \in Nat /\ resets \in 0 .. MaxResets /\ overwritten \in BOOLEAN

\* A stick that mines has counted its chips, whoever wrote the state, unless
\* the listener, the nonce thread or the telemetry thread wrote it after a
\* transfer, or without a look, over what another thread had written.
MinesWithChips == mining_state \in Mining /\ ~overwritten => chips > 0

\* A GSA1 or GSA2 that mines has its temperature watched, or telemetry was
\* tried often enough; with the same exception.
OverheatWatched ==
    kind # "GSF" /\ mining_state \in Mining /\ ~overwritten =>
        has_telem \/ fail_telem > TELEM_FAIL_MAX

\* From the count of the chips on the miner knows of them, in the state it read
\* as in that which is written.
Opening == {"OPEN_CORE", "OPEN_CORE_OK"}
BroughtTo(S) == mining_state \in S \cup Mining \/ miner \in S
ChipsKnown == ~overwritten /\ BroughtTo(Opening \cup {"CHIP_COUNT_OK"}) => chips > 0

\* So it is with the telemetry from the opening of the cores on.  What takes it
\* away happens before: while the chips are counted, which does not begin as long
\* as the miner opens the cores, and in a reset.
TelemetryKnown ==
    /\ miner = "CHIP_COUNT_OK" => kind = "GSF"
    /\ kind # "GSF" /\ ~overwritten =>
          /\ BroughtTo(Opening) => has_telem \/ fail_telem > TELEM_FAIL_MAX
          /\ miner \in Opening
                => mining_state \notin {"CHIP_COUNT", "CHIP_COUNT_XX", "CHIP_COUNT_OK"}
          /\ miner = "forget" => mining_state \in {"INIT", Reset}

\* The inductive invariant
StickInv == StickTypeOK /\ ChipsKnown /\ TelemetryKnown

\* A stick is not reset for ever: even if its chips never answer it mines, or
\* is dropped or disabled, although other sticks move the pointer to the count
\* that is counted and forgiven, and other threads write the state.  What keeps
\* it from that is another stick that goes on counting its own chips and forgives
\* this one, and a GSA2's MINER_REINIT, which is not counted.
GivenUp ==
    <>[][~OtherForgives]_stickVars =>
        []<>(mining_state \in Mining \/ nodev \/ deven = "DISABLED" \/ overwritten \/ kind = "GSA2")

\* A shutdown ends every thread of the stick, whatever it was doing, if it lasts:
\* a reset that is written after it keeps them all for ever.
ShutdownEnds ==
    <>[](mining_state = "SHUTDOWN")
        => <>(rthr = "ended" /\ wthr = "ended" /\ nthr = "ended" /\ tthr = "ended")

=============================================================================
