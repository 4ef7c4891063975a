--------------------------- MODULE StratumSession ---------------------------
(***************************************************************************)
(* The session with one stratum pool and the work made in it.  The thread  *)
(* stratum_rthread subscribes, is authorised, and takes the pool's jobs,   *)
(* difficulties and extranonces; the scheduler makes work of what the pool *)
(* last sent; a miner asks for work, which may have become stale.  They    *)
(* meet in the pool's fields, under data_lock, in the flags stratum_active *)
(* and stratum_notify, without it, and in the staged work.                 *)
(*                                                                         *)
(* Pieces of work do not touch one another, so one is watched, any that is *)
(* made; of the others only their number is kept, in nonce2.               *)
(*                                                                         *)
(* What the pool sends is left open: any job at any time, clean or not, in *)
(* any session, and any extranonce, also one it gave before.  A job stands *)
(* for what it holds, so two jobs of one name are the same but for the     *)
(* extranonce.                                                             *)
(***************************************************************************)
EXTENDS Integers

CONSTANTS
    Diffs,          \* the difficulties a pool sets
    MaxJobs,        \* bound: the jobs a pool names
    MaxNonce1,      \* bound: the extranonces it gives out
    MaxNonce2       \* bound: work made since nonce2 last started

ASSUME DiffsAssumption == Diffs \subseteq Nat \ {0}
ASSUME BoundsAssumption == MaxJobs \in Nat /\ MaxNonce1 \in Nat /\ MaxNonce2 \in Nat

Jobs == 1 .. MaxJobs
Nonce1s == 1 .. MaxNonce1

VARIABLES
    conn,                               \* where stratum_rthread is
    stratum_active, stratum_notify,
    nonce1,                             \* 0 for NULL
    nonce1bin,                          \* the last one there was
    job_id,                             \* the name of the last job, 0 for NULL
    job, coinbase,                      \* the job whose coinbase the pool has, and the
                                        \* extranonce in it
    nonce2,
    sdiff, next_diff, diff_after,
    sched,                              \* the scheduler: "idle", or about to make work
    work, place,                        \* the work that is watched, in a set, and where it is
    latest,                             \* history: the last difficulty set,
    lagging,                            \* whether nonce1 may differ from the coinbase's,
    seen,                               \* the nonce1s since the work passed as active,
    renamed,                            \* whether its job was sent with another extranonce,
    past                                \* and whether nonce2 started again since it was made

session == <<stratum_active, stratum_notify, nonce1, nonce1bin, lagging>>
jobs == <<job_id, job, coinbase>>
diffs == <<sdiff, next_diff, diff_after, latest>>
watched == <<work, place, seen, renamed, past>>
vars == <<conn, session, jobs, nonce2, diffs, sched, watched>>

Works == [job_id : Nat, job : Nat, coinbase : Nat, nonce2 : Nat]

Init ==
    /\ conn = "down"
    /\ stratum_active = FALSE /\ stratum_notify = FALSE
    /\ nonce1 = 0 /\ nonce1bin = 0 /\ lagging = FALSE
    /\ job_id = 0 /\ job = 0 /\ coinbase = 0 /\ nonce2 = 0
    /\ sdiff = 0 /\ next_diff = 0 /\ diff_after = 0 /\ latest = 0
    /\ sched = "idle"
    /\ work = {} /\ place = "none" /\ seen = {} /\ renamed = FALSE /\ past = "none"

---------------------------------------------------------------------------
(* What the pool sends: parse_method *)

\* While subscribing and while being authorised the answer is waited for.
Receives == conn \in {"up", "subscribe", "auth"}

\* The difficulties set are taken one per job.
NextDiff ==
    IF next_diff > 0
       THEN sdiff' = next_diff /\ next_diff' = diff_after /\ diff_after' = 0
       ELSE UNCHANGED <<sdiff, next_diff, diff_after>>

\* History: a job that is clean lets nonce2 start again; with the job of the
\* watched work it then makes the same work again.
Heard(clean) ==
    /\ renamed' = (renamed \/ \E w \in work : w.job_id = job_id' /\ w.coinbase # coinbase')
    /\ past' = LET p == IF clean /\ past = "made" THEN "clean" ELSE past
               IN  IF p = "clean" /\ \E w \in work : w.job = job' /\ w.coinbase = coinbase'
                      THEN "again" ELSE p
    /\ UNCHANGED <<work, place, seen>>

\* Mutant: nonce2 starts again with every job.
Notify_restart(id, clean) ==
    /\ Receives
    /\ job_id' = id /\ job' = id /\ coinbase' = nonce1bin
    /\ nonce2' = 0
    /\ NextDiff
    /\ stratum_notify' = TRUE /\ lagging' = (conn = "subscribe")
    /\ Heard(clean)
    /\ UNCHANGED <<conn, stratum_active, nonce1, nonce1bin, latest, sched>>

\* parse_notify
Notify(id, clean) ==
    /\ Receives
    /\ job_id' = id /\ job' = id /\ coinbase' = nonce1bin
    /\ nonce2' = IF clean THEN 0 ELSE nonce2
    /\ NextDiff
    /\ stratum_notify' = TRUE /\ lagging' = (conn = "subscribe")
    /\ Heard(clean)
    /\ UNCHANGED <<conn, stratum_active, nonce1, nonce1bin, latest, sched>>

\* A notify that does not parse ...
BadNotify ==
    /\ Receives /\ stratum_notify' = FALSE
    /\ UNCHANGED <<conn, stratum_active, nonce1, nonce1bin, lagging, jobs, nonce2, diffs, sched,
                   watched>>

\* ... or that fails over the merkle branches, the header or the coinbase, when
\* its name is taken already, and its difficulty, and perhaps nonce2 reset.
BadContent(id, clean) ==
    /\ Receives /\ stratum_notify' = FALSE
    /\ job_id' = id /\ UNCHANGED <<job, coinbase>>
    /\ nonce2' \in IF clean THEN {0, nonce2} ELSE {nonce2}
    /\ NextDiff
    /\ Heard(clean)
    /\ UNCHANGED <<conn, stratum_active, nonce1, nonce1bin, lagging, latest, sched>>

\* Mutant: a difficulty that is set while one waits is dropped.
SetDiff_once(d) ==
    /\ Receives
    /\ latest' = d
    /\ next_diff' = IF next_diff # 0 THEN next_diff ELSE d
    /\ UNCHANGED <<conn, session, jobs, nonce2, sdiff, diff_after, sched, watched>>

\* parse_diff: "We can only change one diff per notify"
SetDiff(d) ==
    /\ Receives
    /\ latest' = d
    /\ IF next_diff # 0 THEN diff_after' = d /\ UNCHANGED next_diff
                        ELSE next_diff' = d /\ UNCHANGED diff_after
    /\ UNCHANGED <<conn, session, jobs, nonce2, sdiff, sched, watched>>

SetNonce1(n) ==
    /\ nonce1' = n
    /\ seen' = IF place = "passed" THEN seen \cup {n} ELSE seen
    /\ UNCHANGED <<work, place, renamed, past>>

\* parse_extranonce: the coinbase has it from the next job on
SetExtranonce(n) ==
    /\ Receives
    /\ SetNonce1(n) /\ nonce1bin' = n /\ lagging' = TRUE
    /\ UNCHANGED <<conn, stratum_active, stratum_notify, jobs, nonce2, diffs, sched>>

---------------------------------------------------------------------------
(* stratum_rthread *)

Goes(from, to) == conn = from /\ conn' = to

Suspend == stratum_active' = FALSE /\ stratum_notify' = FALSE

\* The connection breaks, or client.reconnect is asked for: the staged work is
\* dropped first, and the session ended later, in restart_stratum ...
Interrupted ==
    /\ Goes("up", "dropping")
    /\ UNCHANGED <<session, jobs, nonce2, diffs, sched, watched>>

\* ... whereas it is ended first where it is not needed.
Unneeded ==
    /\ Goes("up", "dropping")
    /\ Suspend
    /\ UNCHANGED <<nonce1, nonce1bin, lagging, jobs, nonce2, diffs, sched, watched>>

\* clear_pool_work
ClearPoolWork ==
    /\ place' = IF place = "staged" THEN "gone" ELSE place
    /\ UNCHANGED <<session, jobs, nonce2, diffs, sched, work, seen, renamed, past>>

ClearWork == Goes("dropping", "down") /\ ClearPoolWork

\* restart_stratum suspends an active session only; setup_stratum_socket clears
\* stratum_active alone.
Restart ==
    /\ Goes("down", "subscribe")
    /\ stratum_active' = FALSE
    /\ stratum_notify' = IF stratum_active THEN FALSE ELSE stratum_notify
    /\ UNCHANGED <<nonce1, nonce1bin, lagging, jobs, nonce2, diffs, sched, watched>>

NoSocket ==
    /\ Goes("subscribe", "down")
    /\ UNCHANGED <<session, jobs, nonce2, diffs, sched, watched>>

\* A session is opened, or the last one resumed.
Subscribed(n) ==
    /\ Goes("subscribe", "subscribed")
    /\ SetNonce1(n) /\ nonce1bin' = n
    /\ UNCHANGED <<stratum_active, stratum_notify, lagging, jobs, nonce2, diffs, sched>>

\* Without the lock.  The difficulty starts at 1; one that was set before the
\* answer came is forgotten.
Active ==
    /\ Goes("subscribed", "auth")
    /\ stratum_active' = TRUE
    /\ sdiff' = 1 /\ next_diff' = 0 /\ diff_after' = 0 /\ latest' = 1
    /\ UNCHANGED <<stratum_notify, nonce1, nonce1bin, lagging, jobs, nonce2, sched, watched>>

\* "Failed to resume stratum, trying afresh"
Afresh ==
    /\ conn = "subscribe"
    /\ SetNonce1(0)
    /\ UNCHANGED <<conn, stratum_active, stratum_notify, nonce1bin, lagging, jobs, nonce2, diffs,
                   sched>>

Refused ==
    /\ conn \in {"subscribe", "auth"} /\ conn' = "down"
    /\ Suspend
    /\ UNCHANGED <<nonce1, nonce1bin, lagging, jobs, nonce2, diffs, sched, watched>>

Authorised ==
    /\ Goes("auth", "up")
    /\ UNCHANGED <<session, jobs, nonce2, diffs, sched, watched>>

\* The connection breaks while it is authorised.
BrokenOff ==
    /\ Goes("auth", "down")
    /\ UNCHANGED <<session, jobs, nonce2, diffs, sched, watched>>

---------------------------------------------------------------------------
(* gen_stratum_work: of what there is, whichever session it came in.  It    *)
(* copies the strings of nonce1 and the job, and there is no step where one *)
(* of them is NULL, which the program would not survive.                    *)

Header(n) == [job |-> job, coinbase |-> coinbase, nonce2 |-> n]
Made(w) == [job |-> w.job, coinbase |-> w.coinbase, nonce2 |-> w.nonce2]

Watch(where) ==
    /\ work = {}
    /\ work' = {[job_id |-> job_id, job |-> job, coinbase |-> coinbase, nonce2 |-> nonce2]}
    /\ place' = where /\ past' = "made"
    /\ UNCHANGED <<seen, renamed>>

GenStratumWork(where) ==
    /\ nonce1 # 0 /\ job_id # 0 /\ job # 0 /\ nonce2 < MaxNonce2
    /\ nonce2' = nonce2 + 1
    /\ Watch(where) \/ UNCHANGED watched
    /\ UNCHANGED <<conn, session, jobs, diffs>>

\* The receive thread makes work to inform test_work_current, and frees it.
OwnWork == conn = "up" /\ GenStratumWork("gone") /\ UNCHANGED sched

\* The scheduler asks pool_unusable, ...
Choose ==
    /\ sched = "idle" /\ stratum_active /\ stratum_notify
    /\ sched' = "chosen"
    /\ UNCHANGED <<conn, session, jobs, nonce2, diffs, watched>>

\* ... then makes work and stages it.
GenWork == sched = "chosen" /\ sched' = "idle" /\ GenStratumWork("staged")

---------------------------------------------------------------------------
(* The staged work, and a miner: get_work *)

\* switch_pools clears the work of the pool it leaves.
Left == place = "staged" /\ ClearPoolWork /\ UNCHANGED conn

Moves(from, to) ==
    /\ place = from /\ place' = to
    /\ UNCHANGED <<conn, session, jobs, nonce2, diffs, sched, work, renamed, past>>

\* Work is taken, ...
Take == Moves("staged", "taken") /\ UNCHANGED seen

\* Mutant: stale_work only compares the job.
Pass_job ==
    /\ Moves("taken", "passed") /\ seen' = {nonce1}

\* ... and is stale unless the session is active ...
Pass ==
    /\ stratum_active /\ stratum_notify
    /\ Moves("taken", "passed") /\ seen' = {nonce1}

\* ... and it is of the last job; what is not is dropped, as is what is of a
\* block or an age that is past.
Hand ==
    /\ \E w \in work : w.job_id = job_id
    /\ Moves("passed", "gone") /\ seen' = {}

Drop == \E from \in {"taken", "passed"} : Moves(from, "gone") /\ seen' = {}

---------------------------------------------------------------------------
Receive ==
    \/ \E id \in Jobs, clean \in BOOLEAN : Notify(id, clean) \/ BadContent(id, clean)
    \/ BadNotify
    \/ \E d \in Diffs : SetDiff(d)
    \/ \E n \in Nonce1s : SetExtranonce(n)

Thread ==
    \/ Interrupted \/ Unneeded \/ ClearWork \/ Restart \/ NoSocket \/ Active \/ Afresh
    \/ (\E n \in Nonce1s : Subscribed(n)) \/ Refused \/ Authorised \/ BrokenOff

Next ==
    \/ Receive \/ Thread
    \/ OwnWork \/ Choose \/ GenWork
    \/ Left \/ Take \/ Pass \/ Hand \/ Drop

Spec == Init /\ [][Next]_vars
---------------------------------------------------------------------------
TypeOK ==
    /\ conn \in {"down", "subscribe", "subscribed", "auth", "up", "dropping"}
    /\ stratum_active \in BOOLEAN /\ stratum_notify \in BOOLEAN /\ lagging \in BOOLEAN
    /\ nonce1 \in Nat /\ nonce1bin \in Nat
    /\ job_id \in Nat /\ job \in Nat /\ coinbase \in Nat /\ nonce2 \in Nat
    /\ sdiff \in Nat /\ next_diff \in Nat /\ diff_after \in Nat /\ latest \in Nat
    /\ sched \in {"idle", "chosen"}
    /\ work \subseteq Works
    /\ place \in {"none", "staged", "taken", "passed", "gone"}
    /\ seen \subseteq Nat /\ renamed \in BOOLEAN
    /\ past \in {"none", "made", "clean", "again"}

\* The session has the extranonce of the job it offers, unless the pool changed
\* it since, or sent the job before it answered the subscription.
SessionFlags ==
    /\ conn \in {"subscribe", "subscribed"} => ~stratum_active
    /\ conn \in {"auth", "up"} => stratum_active
    /\ conn \in {"subscribed", "auth", "up"} => nonce1 = nonce1bin
    /\ stratum_notify => lagging \/ (stratum_active /\ coinbase = nonce1)

\* Work fits the coinbase of its job; and while it passes for work of an active
\* session, that coinbase is of a session there is or was.
Fits ==
    /\ \A w \in work : ~renamed /\ w.job_id = job_id => w.coinbase = coinbase
    /\ place = "passed" => nonce1 \in seen /\ (lagging \/ coinbase \in seen)
    /\ past = "none" <=> work = {}
    /\ \A v, w \in work : v = w

\* nonce2 is past that of the work, or the work is not of the job there is.
Beyond ==
    \A w \in work :
        \/ past = "again"
        \/ past = "made" /\ w.nonce2 < nonce2
        \/ past = "clean" /\ ~(w.job = job /\ w.coinbase = coinbase)

DiffOrder == diff_after # 0 => next_diff # 0

\* Work that a miner is given has the extranonce of a session that was in force
\* while stale_work looked at it, although the scheduler may make work of an
\* old job in a new session and staged work may outlive its session.  Not so if
\* the pool changed the extranonce of a job that goes on, or sent the job
\* before it opened the session; nor if it sent the name of the work's job
\* again with another extranonce, as stale_work only compares names.
FitsSession ==
    [][Hand => lagging \/ renamed \/ \A w \in work : w.coinbase \in seen]_vars

\* The work that would be made next was not made before, unless the pool asked
\* for it: with a clean job since, whether or not that could be used, and the
\* same job then or after it, as one does that lets a session be resumed and
\* begins with its last job.
NoWorkTwice == \A w \in work : Header(nonce2) = Made(w) => past = "again"

\* The difficulty that was set last is in force, or waits its turn, whichever
\* way difficulties and jobs alternate.
LatestDiff ==
    latest = IF diff_after # 0 THEN diff_after ELSE IF next_diff # 0 THEN next_diff ELSE sdiff

\* The inductive invariant
SessionInv ==
    /\ TypeOK /\ SessionFlags /\ Fits /\ Beyond /\ DiffOrder
    /\ NoWorkTwice /\ LatestDiff

=============================================================================
