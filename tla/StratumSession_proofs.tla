----------------------- MODULE StratumSession_proofs -----------------------
(***************************************************************************)
(* Proofs about StratumSession, for any number of jobs, extranonces and    *)
(* work, and any difficulties.                                             *)
(***************************************************************************)
EXTENDS StratumSession, TLAPS

\* What does not mention the work that is watched
Base == TypeOK /\ SessionFlags /\ DiffOrder /\ LatestDiff

\* What is about that work
Worked == Fits /\ Beyond

\* The work of a job stays behind nonce2 until a clean job, and then is the
\* work of another job until its own is sent again.
LEMMA BeyondSuffices == TypeOK /\ Beyond => NoWorkTwice
<1> SUFFICES ASSUME TypeOK, Beyond, NEW w \in work, Header(nonce2) = Made(w)
             PROVE  past = "again"
  BY DEF NoWorkTwice
<1>1. w.job = job /\ w.coinbase = coinbase /\ w.nonce2 = nonce2
  BY DEF Header, Made
<1> QED BY <1>1 DEF Beyond, TypeOK

LEMMA InitSessionInv == Init => Base /\ Worked
<1> SUFFICES ASSUME Init PROVE Base /\ Worked
  OBVIOUS
<1>1. TypeOK
  BY DEF Init, TypeOK
<1>2. SessionFlags /\ DiffOrder /\ LatestDiff
  BY DEF Init, SessionFlags, DiffOrder, LatestDiff
<1>3. Fits /\ Beyond
  BY DEF Init, Fits, Beyond
<1> QED BY <1>1, <1>2, <1>3 DEF Base, Worked

LEMMA HeardType ==
    ASSUME TypeOK, NEW clean \in BOOLEAN, Heard(clean)
    PROVE  renamed' \in BOOLEAN /\ past' \in {"none", "made", "clean", "again"}
<1>1. renamed' \in BOOLEAN
  BY DEF Heard, TypeOK
<1>2. past' \in {"none", "made", "clean", "again"}
  BY DEF Heard, TypeOK
<1> QED BY <1>1, <1>2

LEMMA NextDiffBase ==
    ASSUME TypeOK, DiffOrder, LatestDiff, NextDiff, latest' = latest
    PROVE  /\ sdiff' \in Nat /\ next_diff' \in Nat /\ diff_after' \in Nat
           /\ DiffOrder' /\ LatestDiff'
BY DEF NextDiff, TypeOK, DiffOrder, LatestDiff

\* A job has the extranonce of the session, unless it comes before it is opened.
LEMMA ReceiveBase == ASSUME Base, Receive PROVE Base'
<1>1. ASSUME NEW id \in Jobs, NEW clean \in BOOLEAN, Notify(id, clean) PROVE Base'
  <2>1. DiffOrder' /\ LatestDiff' /\ sdiff' \in Nat /\ next_diff' \in Nat /\ diff_after' \in Nat
    BY <1>1, NextDiffBase DEF Base, Notify
  <2>2. renamed' \in BOOLEAN /\ past' \in {"none", "made", "clean", "again"}
    BY <1>1, HeardType DEF Base, Notify
  <2>3. TypeOK'
    <3>1. job_id' \in Nat /\ job' \in Nat /\ coinbase' \in Nat /\ nonce2' \in Nat
      BY <1>1 DEF Notify, Base, TypeOK, Jobs
    <3>2. lagging' \in BOOLEAN /\ stratum_notify' \in BOOLEAN
      BY <1>1 DEF Notify
    <3>3. UNCHANGED <<conn, stratum_active, nonce1, nonce1bin, latest, sched, work, place, seen>>
      BY <1>1 DEF Notify, Heard
    <3> QED BY <2>1, <2>2, <3>1, <3>2, <3>3 DEF Base, TypeOK
  <2>4. SessionFlags'
    BY <1>1 DEF Notify, Receives, Base, SessionFlags
  <2> QED BY <2>1, <2>3, <2>4 DEF Base
<1>2. ASSUME NEW id \in Jobs, NEW clean \in BOOLEAN, BadContent(id, clean) PROVE Base'
  <2>1. DiffOrder' /\ LatestDiff' /\ sdiff' \in Nat /\ next_diff' \in Nat /\ diff_after' \in Nat
    BY <1>2, NextDiffBase DEF Base, BadContent
  <2>2. renamed' \in BOOLEAN /\ past' \in {"none", "made", "clean", "again"}
    BY <1>2, HeardType DEF Base, BadContent
  <2>3. TypeOK'
    <3>1. job_id' \in Nat /\ stratum_notify' \in BOOLEAN
      <4>1. job_id' = id /\ stratum_notify' = FALSE
        BY <1>2 DEF BadContent
      <4>2. id \in Nat
        BY BoundsAssumption DEF Jobs
      <4>3. stratum_notify' \in BOOLEAN
        BY <4>1
      <4> QED BY <4>1, <4>2, <4>3
    <3>3. nonce2' \in Nat
      <4>1. nonce2' \in {0, nonce2}
        BY <1>2 DEF BadContent
      <4> QED BY <4>1 DEF Base, TypeOK
    <3>2. UNCHANGED <<conn, stratum_active, nonce1, nonce1bin, lagging, job, coinbase, latest, sched,
                      work, place, seen>>
      BY <1>2 DEF BadContent, Heard
    <3> QED BY <2>1, <2>2, <3>1, <3>2, <3>3 DEF Base, TypeOK
  <2>4. SessionFlags'
    BY <1>2 DEF BadContent, Base, SessionFlags
  <2> QED BY <2>1, <2>3, <2>4 DEF Base
<1>3. CASE BadNotify
  <2>1. stratum_notify' = FALSE
        /\ UNCHANGED <<conn, stratum_active, nonce1, nonce1bin, lagging, job_id, job, coinbase, nonce2,
                       sdiff, next_diff, diff_after, latest, sched, work, place, seen, renamed, past>>
    BY <1>3 DEF BadNotify, jobs, diffs, watched
  <2>2. TypeOK'
    BY <2>1 DEF Base, TypeOK
  <2>3. SessionFlags'
    BY <2>1 DEF Base, SessionFlags
  <2>4. DiffOrder' /\ LatestDiff'
    BY <2>1 DEF Base, DiffOrder, LatestDiff
  <2> QED BY <2>2, <2>3, <2>4 DEF Base
<1>4. ASSUME NEW d \in Diffs, SetDiff(d) PROVE Base'
  BY <1>4, DiffsAssumption
     DEF SetDiff, session, jobs, watched, Base, TypeOK, SessionFlags, DiffOrder, LatestDiff
<1>5. ASSUME NEW n \in Nonce1s, SetExtranonce(n) PROVE Base'
  BY <1>5 DEF SetExtranonce, SetNonce1, Nonce1s, jobs, diffs, Base, TypeOK, SessionFlags,
              DiffOrder, LatestDiff
<1> QED BY <1>1, <1>2, <1>3, <1>4, <1>5 DEF Receive

\* A session that is opened anew offers no job that it did not get.
LEMMA ThreadBase == ASSUME Base, Thread PROVE Base'
<1> USE DEF Base, TypeOK, SessionFlags, DiffOrder, LatestDiff, Goes, session, jobs, diffs, watched
<1>1. CASE Interrupted
  BY <1>1 DEF Interrupted
<1>2. CASE Unneeded
  BY <1>2 DEF Unneeded, Suspend
<1>3. CASE ClearWork
  BY <1>3 DEF ClearWork, ClearPoolWork
<1>4. CASE Restart
  <2>1. stratum_active' = FALSE /\ stratum_notify' = (IF stratum_active THEN FALSE ELSE stratum_notify)
    BY <1>4 DEF Restart
  <2>2. stratum_active' \in BOOLEAN /\ stratum_notify' \in BOOLEAN
    BY <2>1
  <2>3. SessionFlags'
    BY <1>4, <2>1 DEF Restart
  <2>4. TypeOK' /\ DiffOrder' /\ LatestDiff'
    BY <1>4, <2>2 DEF Restart
  <2> QED BY <2>3, <2>4
<1>5. CASE NoSocket
  BY <1>5 DEF NoSocket
<1>6. ASSUME NEW n \in Nonce1s, Subscribed(n) PROVE Base'
  BY <1>6 DEF Subscribed, SetNonce1, Nonce1s
<1>7. CASE Active
  BY <1>7 DEF Active
<1>8. CASE Afresh
  BY <1>8 DEF Afresh, SetNonce1
<1>9. CASE Refused
  BY <1>9 DEF Refused, Suspend
<1>10. CASE Authorised
  BY <1>10 DEF Authorised
<1>11. CASE BrokenOff
  BY <1>11 DEF BrokenOff
<1> QED BY <1>1, <1>2, <1>3, <1>4, <1>5, <1>6, <1>7, <1>8, <1>9, <1>10, <1>11 DEF Thread

Making == OwnWork \/ GenWork
Mining == Choose \/ Left \/ Take \/ Pass \/ Hand \/ Drop

LEMMA MakingBase == ASSUME Base, Making PROVE Base'
<1>1. PICK where \in {"gone", "staged"} : GenStratumWork(where)
  BY DEF Making, OwnWork, GenWork
<1>2. sched' \in {"idle", "chosen"}
  BY DEF Making, OwnWork, GenWork, Base, TypeOK
<1>3. UNCHANGED <<conn, session, jobs, diffs>> /\ nonce2' = nonce2 + 1
  BY <1>1 DEF GenStratumWork
<1>4. /\ work' \subseteq Works /\ place' \in {"none", "staged", "taken", "passed", "gone"}
      /\ seen' \subseteq Nat /\ renamed' \in BOOLEAN /\ past' \in {"none", "made", "clean", "again"}
  <2>1. CASE Watch(where)
    BY <2>1 DEF Watch, Works, Base, TypeOK
  <2>2. CASE UNCHANGED watched
    BY <2>2 DEF watched, Base, TypeOK
  <2> QED BY <2>1, <2>2, <1>1 DEF GenStratumWork
<1> QED BY <1>2, <1>3, <1>4
        DEF Base, TypeOK, SessionFlags, DiffOrder, LatestDiff, session, jobs, diffs

LEMMA MiningBase == ASSUME Base, Mining PROVE Base'
<1> USE DEF Base, TypeOK, SessionFlags, DiffOrder, LatestDiff, Moves, session, jobs, diffs, watched
<1>1. CASE Choose
  BY <1>1 DEF Choose
<1>2. CASE Left
  BY <1>2 DEF Left, ClearPoolWork
<1>3. CASE Take
  BY <1>3 DEF Take
<1>4. CASE Pass
  BY <1>4 DEF Pass
<1>5. CASE Hand
  BY <1>5 DEF Hand
<1>6. CASE Drop
  BY <1>6 DEF Drop
<1> QED BY <1>1, <1>2, <1>3, <1>4, <1>5, <1>6 DEF Mining

\* After any notify the work has the coinbase there is, or its name was taken
\* for another; and nonce2 starts again only with a clean one.
LEMMA HeardWorked ==
    ASSUME Base, Worked, NEW clean \in BOOLEAN, Heard(clean), nonce2' \in Nat,
           clean \/ nonce2' = nonce2,
           \/ UNCHANGED <<job, coinbase, lagging>>
           \/ lagging' \/ coinbase' = nonce1,
           nonce1' = nonce1
    PROVE  Worked'
<1>1. UNCHANGED <<work, place, seen>>
  BY DEF Heard
<1>2. \A w \in work : ~renamed' /\ w.job_id = job_id' => w.coinbase = coinbase'
  BY DEF Heard
<1>3. place = "passed" => nonce1' \in seen /\ (lagging' \/ coinbase' \in seen)
  BY DEF Worked, Fits
<1>4. past' = "none" <=> work = {}
  BY DEF Heard, Worked, Fits
<1>5. Fits'
  BY <1>1, <1>2, <1>3, <1>4 DEF Worked, Fits
<1>6. Beyond'
  <2> SUFFICES ASSUME NEW w \in work
               PROVE  \/ past' = "again"
                      \/ past' = "made" /\ w.nonce2 < nonce2'
                      \/ past' = "clean" /\ ~(w.job = job' /\ w.coinbase = coinbase')
    BY <1>1 DEF Beyond
  <2>1. CASE past = "again"
    BY <2>1 DEF Heard
  <2>2. CASE past = "made" /\ ~clean
    BY <2>2 DEF Heard, Worked, Beyond
  <2>3. CASE past = "clean" \/ (past = "made" /\ clean)
    BY <2>3 DEF Heard
  <2> QED BY <2>1, <2>2, <2>3 DEF Worked, Beyond
<1> QED BY <1>5, <1>6 DEF Worked

LEMMA ReceiveWorked == ASSUME Base, Base', Worked, Receive PROVE Worked'
<1>1. ASSUME NEW id \in Jobs, NEW clean \in BOOLEAN, Notify(id, clean) PROVE Worked'
  <2>1. lagging' \/ coinbase' = nonce1
    BY <1>1 DEF Notify, Receives, Base, SessionFlags
  <2>2. Heard(clean) /\ nonce1' = nonce1 /\ (clean \/ nonce2' = nonce2)
    BY <1>1 DEF Notify
  <2>3. nonce2' \in Nat
    BY DEF Base, TypeOK
  <2> QED BY <2>1, <2>2, <2>3, HeardWorked
<1>2. ASSUME NEW id \in Jobs, NEW clean \in BOOLEAN, BadContent(id, clean) PROVE Worked'
  <2>1. Heard(clean) /\ UNCHANGED <<job, coinbase, lagging, nonce1>> /\ (clean \/ nonce2' = nonce2)
    BY <1>2 DEF BadContent
  <2>2. nonce2' \in Nat
    BY DEF Base, TypeOK
  <2> QED BY <2>1, <2>2, HeardWorked
<1>3. CASE BadNotify
  BY <1>3 DEF BadNotify, jobs, watched, Worked, Fits, Beyond
<1>4. ASSUME NEW d \in Diffs, SetDiff(d) PROVE Worked'
  BY <1>4 DEF SetDiff, session, jobs, watched, Worked, Fits, Beyond
<1>5. ASSUME NEW n \in Nonce1s, SetExtranonce(n) PROVE Worked'
  BY <1>5 DEF SetExtranonce, SetNonce1, jobs, Worked, Fits, Beyond
<1> QED BY <1>1, <1>2, <1>3, <1>4, <1>5 DEF Receive

LEMMA ThreadWorked == ASSUME Base, Worked, Thread PROVE Worked'
<1> USE DEF Worked, Fits, Beyond, Goes, session, jobs, watched
<1>1. CASE Interrupted \/ Unneeded \/ Restart \/ NoSocket
  <2>1. UNCHANGED <<nonce1, lagging, job_id, job, coinbase, nonce2, work, place, seen, renamed, past>>
    BY <1>1 DEF Interrupted, Unneeded, Restart, NoSocket
  <2> QED BY <2>1
<1>2. CASE ClearWork
  BY <1>2 DEF ClearWork, ClearPoolWork
<1>3. ASSUME NEW n \in Nonce1s, Subscribed(n) PROVE Worked'
  BY <1>3 DEF Subscribed, SetNonce1
<1>4. CASE Afresh
  BY <1>4 DEF Afresh, SetNonce1
<1>5. CASE Active \/ Refused \/ Authorised \/ BrokenOff
  BY <1>5 DEF Active, Refused, Authorised, BrokenOff
<1> QED BY <1>1, <1>2, <1>3, <1>4, <1>5 DEF Thread

\* gen_stratum_work takes a nonce2 and goes past it.
LEMMA MakingWorked == ASSUME Base, Worked, Making PROVE Worked'
<1>1. PICK where \in {"gone", "staged"} : GenStratumWork(where)
  BY DEF Making, OwnWork, GenWork
<1>2. UNCHANGED <<session, jobs>> /\ nonce2' = nonce2 + 1 /\ nonce2 \in Nat
  BY <1>1 DEF GenStratumWork, Base, TypeOK
<1>3. CASE Watch(where)
  <2> DEFINE w == [job_id |-> job_id, job |-> job, coinbase |-> coinbase, nonce2 |-> nonce2]
  <2>1. work' = {w} /\ past' = "made" /\ place' \in {"gone", "staged"}
    BY <1>3 DEF Watch
  <2>2. w.coinbase = coinbase /\ w.nonce2 = nonce2
    OBVIOUS
  <2> HIDE DEF w
  <2>3. Fits'
    BY <2>1, <2>2, <1>2 DEF Fits, jobs
  <2>4. Beyond'
    BY <2>1, <2>2, <1>2 DEF Beyond
  <2> QED BY <2>3, <2>4 DEF Worked
<1>4. CASE UNCHANGED watched
  <2>1. \A w \in work : w.nonce2 \in Nat
    BY DEF Base, TypeOK, Works
  <2> QED BY <1>2, <1>4, <2>1 DEF Worked, Fits, Beyond, watched, session, jobs
<1> QED BY <1>1, <1>3, <1>4 DEF GenStratumWork

LEMMA MiningWorked == ASSUME Base, Worked, Mining PROVE Worked'
<1> USE DEF Worked, Fits, Beyond, Moves, session, jobs, watched
<1>1. CASE Choose
  BY <1>1 DEF Choose
<1>2. CASE Left
  BY <1>2 DEF Left, ClearPoolWork
<1>3. CASE Take
  BY <1>3 DEF Take
<1>4. CASE Pass
  BY <1>4 DEF Pass, Base, SessionFlags
<1>5. CASE Hand
  BY <1>5 DEF Hand
<1>6. CASE Drop
  BY <1>6 DEF Drop
<1> QED BY <1>1, <1>2, <1>3, <1>4, <1>5, <1>6 DEF Mining

LEMMA NextSessionInv == SessionInv /\ [Next]_vars => SessionInv'
<1> SUFFICES ASSUME SessionInv, [Next]_vars PROVE SessionInv'
  OBVIOUS
<1>1. Base /\ Worked
  BY DEF SessionInv, Base, Worked
<1>2. Base' /\ Worked'
  <2>1. CASE Receive
    BY <1>1, <2>1, ReceiveBase, ReceiveWorked
  <2>2. CASE Thread
    BY <1>1, <2>2, ThreadBase, ThreadWorked
  <2>3. CASE Making
    BY <1>1, <2>3, MakingBase, MakingWorked
  <2>4. CASE Mining
    BY <1>1, <2>4, MiningBase, MiningWorked
  <2>5. CASE UNCHANGED vars
    BY <1>1, <2>5 DEF Base, TypeOK, SessionFlags, DiffOrder, LatestDiff, Worked, Fits, Beyond,
                      vars, session, jobs, diffs, watched
  <2> QED BY <2>1, <2>2, <2>3, <2>4, <2>5 DEF Next, Making, Mining
<1>3. NoWorkTwice'
  <2>1. (TypeOK /\ Beyond => NoWorkTwice)'
    BY BeyondSuffices, PTL
  <2> QED BY <1>2, <2>1 DEF Base, Worked
<1> QED BY <1>2, <1>3 DEF Base, Worked, SessionInv

\* The inductive invariant: what the flags of the session say of its
\* extranonce and its coinbase, how the work that is watched stands to them and
\* to nonce2, and the difficulties (parse_notify, initiate_stratum,
\* gen_stratum_work, stale_work).  Nothing is assumed of what the pool sends.
THEOREM SessionInvariant == Spec => []SessionInv
<1>1. Init => SessionInv
  BY InitSessionInv, BeyondSuffices DEF Base, Worked, SessionInv
<1>2. SessionInv /\ [Next]_vars => SessionInv'
  BY NextSessionInv
<1> QED BY <1>1, <1>2, PTL DEF Spec

\* Work that stale_work lets pass has the extranonce of a session that was in
\* force while it looked, whatever the scheduler, the receive thread and the
\* pool do, but for an extranonce that is changed under a job and the name of a
\* job that is sent again with another one (cgminer.c:5645, 5658, 8444).
THEOREM FitsSessionHolds == Spec => FitsSession
<1> DEFINE Fit == lagging \/ renamed \/ \A w \in work : w.coinbase \in seen
<1>1. SessionInv /\ [Next]_vars => [Hand => Fit]_vars
  <2> SUFFICES ASSUME SessionInv, Hand PROVE Fit
    OBVIOUS
  <2>1. place = "passed" /\ \A w \in work : w.job_id = job_id
    BY DEF Hand, Moves, SessionInv, Fits
  <2> QED BY <2>1 DEF SessionInv, Fits
<1> QED BY <1>1, SessionInvariant, PTL DEF Spec, FitsSession

\* The next work was not made before, but where the pool sends a clean job and
\* the job of that work after it (util.c:2417, cgminer.c:8409).
THEOREM NoWorkTwiceHolds == Spec => []NoWorkTwice
<1>1. SessionInv => NoWorkTwice
  BY DEF SessionInv
<1> QED BY <1>1, SessionInvariant, PTL

\* The last difficulty set is in force or next in turn (util.c:2540).
THEOREM LatestDiffHolds == Spec => []LatestDiff
<1>1. SessionInv => LatestDiff
  BY DEF SessionInv
<1> QED BY <1>1, SessionInvariant, PTL

=============================================================================
