------------------------ MODULE StratumShares_proofs ------------------------
(***************************************************************************)
(* Proofs about the shares submitted to stratum pools.  SInv says who has  *)
(* each share and what its counts are; AwaitedIsCounted, which compares    *)
(* pool->sshares with a cardinality, is proved after it.                   *)
(***************************************************************************)
EXTENDS StratumShares, FiniteSetTheorems, TLAPS

\* ShareInv but for the counter sshares
SInv == TypeOK /\ HeldOwn /\ SendingHeld /\ AnswerMatches /\ CountedOnce

\* The entries of a pool are finitely many.
LEMMA TrackedFinite ==
  \A p \in Pools : IsFiniteSet(Tracked(p)) /\ Cardinality(Tracked(p)) \in Nat
  BY SharesAssumption, FS_Subset, FS_CardinalityType DEF Tracked

\* Closing a connection loses the answers that were due, and no other.
LEMMA SuspendFacts ==
  ASSUME TypeOK, NEW p \in Pools, Unanswered(p)
  PROVE  /\ answer' \in [Shares -> {"none", "due", "lost", "read"}]
         /\ \A s \in Shares :
              /\ answer'[s] = "none" <=> answer[s] = "none"
              /\ answer'[s] = "read" <=> answer[s] = "read"
<1>1. \A s \in Shares : answer[s] \in {"none", "due", "lost", "read"}
  BY DEF TypeOK
<1>2. \A s \in Shares :
        answer'[s] = IF pool[s] = p /\ answer[s] = "due" THEN "lost" ELSE answer[s]
  BY DEF Unanswered
<1>3. answer' \in [Shares -> {"none", "due", "lost", "read"}]
  BY <1>1 DEF Unanswered
<1> QED BY <1>1, <1>2, <1>3

\* Records that are freed and counted as stale
Gone(S) ==
  /\ share' = [s \in Shares |-> IF s \in S THEN "freed" ELSE share[s]]
  /\ stale' = [s \in Shares |-> IF s \in S THEN stale[s] + 1 ELSE stale[s]]

\* Freeing records that were not free yet, and counting them as stale, keeps
\* every share counted once.
LEMMA GoneFacts ==
  ASSUME TypeOK, CountedOnce, AnswerMatches, NEW S \in SUBSET Shares,
         \A s \in S : share[s] # "freed", Gone(S), UNCHANGED <<answered, untracked>>
  PROVE  /\ share' \in [Shares -> {"none", "queued", "sending", "tracked", "freed", "dropped"}]
         /\ stale' \in [Shares -> Nat]
         /\ CountedOnce'
         /\ \A s \in Shares : share'[s] = IF s \in S THEN "freed" ELSE share[s]
<1>1. share' \in [Shares -> {"none", "queued", "sending", "tracked", "freed", "dropped"}]
  BY DEF Gone, TypeOK
<1>2. \A s \in Shares : stale[s] \in Nat /\ answered[s] \in Nat
  BY DEF TypeOK
<1>3. stale' \in [Shares -> Nat]
  BY <1>2 DEF Gone
<1>4. \A s \in Shares : /\ share'[s] = IF s \in S THEN "freed" ELSE share[s]
                        /\ stale'[s] = IF s \in S THEN stale[s] + 1 ELSE stale[s]
  BY DEF Gone
<1>5. ASSUME NEW s \in Shares
      PROVE  answered'[s] + stale'[s] = IF share'[s] = "freed" THEN 1 ELSE 0
  BY <1>2, <1>4 DEF CountedOnce
<1>6. CountedOnce'
  BY <1>5 DEF CountedOnce
<1> QED BY <1>1, <1>3, <1>4, <1>6

\* A share that is discarded is one such record.
LEMMA DiscardGone ==
  ASSUME TypeOK, NEW s \in Shares, Discard(s)
  PROVE  Gone({s})
  BY DEF Discard, Gone, TypeOK

\* The table of a pool is emptied of such records, and the counter follows.
LEMMA ClearFacts ==
  ASSUME TypeOK, CountedOnce, AnswerMatches, NEW p \in Pools, clear_stratum_shares(p),
         UNCHANGED <<answered, untracked>>
  PROVE  /\ share' \in [Shares -> {"none", "queued", "sending", "tracked", "freed", "dropped"}]
         /\ stale' \in [Shares -> Nat]
         /\ sshares' \in [Pools -> Int]
         /\ CountedOnce'
         /\ \A s \in Shares : share'[s] = IF s \in Tracked(p) THEN "freed" ELSE share[s]
<1>1. Cardinality(Tracked(p)) \in Nat
  BY TrackedFinite
<1>2. sshares' \in [Pools -> Int]
  BY <1>1 DEF clear_stratum_shares, TypeOK
<1>3. Gone(Tracked(p)) /\ Tracked(p) \in SUBSET Shares
  BY DEF Gone, clear_stratum_shares, Tracked
<1>4. \A s \in Tracked(p) : share[s] # "freed"
  BY DEF Tracked
<1> QED BY <1>2, <1>3, <1>4, GoneFacts

\* Forgetting the session of a pool
LEMMA RenouncedType == \A p \in Pools : Renounced(p) \in [Shares -> BOOLEAN]
  BY Zenon DEF Renounced

\* Every step of every thread keeps the owners and the counts of the shares.
LEMMA NextSInv == SInv /\ [Next]_vars => SInv'
<1> SUFFICES ASSUME SInv, [Next]_vars
             PROVE  SInv'
  OBVIOUS
<1> USE SharesAssumption, LowmemAssumption
<1>0. TypeOK /\ HeldOwn /\ SendingHeld /\ AnswerMatches /\ CountedOnce
  BY DEF SInv
<1>1. ASSUME NEW s \in Shares, submit_work_async(s)
      PROVE  SInv'
  <2>b. /\ share' \in [Shares -> {"none", "queued", "sending", "tracked", "freed", "dropped"}]
        /\ stale' \in [Shares -> Nat] /\ CountedOnce'
    <3>1. CASE Discard(s)
      <4>1. Gone({s})
        BY <1>0, <3>1, DiscardGone
      <4> QED BY <1>0, <1>1, <4>1, GoneFacts DEF submit_work_async
    <3>2. CASE /\ share' = [share EXCEPT ![s] = IF sthread[pool[s]] = "exit" THEN "dropped" ELSE "queued"]
               /\ UNCHANGED stale
      BY <1>0, <1>1, <3>2 DEF submit_work_async, TypeOK, CountedOnce
    <3> QED BY <1>1, <3>1, <3>2 DEF submit_work_async
  <2>d. session' \in [Shares -> BOOLEAN]
    BY <1>0, <1>1 DEF submit_work_async, TypeOK
  <2>1. TypeOK'
    BY <1>0, <1>1, <2>b, <2>d DEF submit_work_async, poolVars, TypeOK
  <2>2. HeldOwn'
    BY <1>0, <1>1, <2>1 DEF submit_work_async, Discard, poolVars, countVars, TypeOK, HeldOwn, SendingHeld, AnswerMatches
  <2>3. SendingHeld'
    BY <1>0, <1>1, <2>1 DEF submit_work_async, Discard, poolVars, countVars, TypeOK, SendingHeld, HeldOwn
  <2>4. AnswerMatches'
    BY <1>0, <1>1, <2>1 DEF submit_work_async, Discard, poolVars, countVars, TypeOK, AnswerMatches, HeldOwn, CountedOnce
  <2>5. CountedOnce'
    BY <2>b
  <2> QED BY <2>1, <2>2, <2>3, <2>4, <2>5 DEF SInv
<1>2. ASSUME NEW s \in Shares, Age(s)
      PROVE  SInv'
  <2>1. TypeOK'
    BY <1>0, <1>2 DEF Age, poolVars, countVars, TypeOK
  <2>2. HeldOwn'
    BY <1>0, <1>2, <2>1 DEF Age, poolVars, countVars, TypeOK, HeldOwn, SendingHeld, AnswerMatches
  <2>3. SendingHeld'
    BY <1>0, <1>2, <2>1 DEF Age, poolVars, countVars, TypeOK, SendingHeld, HeldOwn
  <2>4. AnswerMatches'
    BY <1>0, <1>2, <2>1 DEF Age, poolVars, countVars, TypeOK, AnswerMatches, HeldOwn, CountedOnce
  <2>5. CountedOnce'
    BY <1>0, <1>2, <2>1 DEF Age, poolVars, countVars, TypeOK, CountedOnce, AnswerMatches, HeldOwn
  <2> QED BY <2>1, <2>2, <2>3, <2>4, <2>5 DEF SInv
<1>3. ASSUME NEW p \in Pools, SendTop(p)
      PROVE  SInv'
  <2>1. TypeOK'
    BY <1>0, <1>3 DEF SendTop, poolVars, countVars, TypeOK
  <2>2. HeldOwn'
    BY <1>0, <1>3, <2>1 DEF SendTop, poolVars, countVars, TypeOK, HeldOwn, SendingHeld, AnswerMatches
  <2>3. SendingHeld'
    BY <1>0, <1>3, <2>1 DEF SendTop, poolVars, countVars, TypeOK, SendingHeld, HeldOwn
  <2>4. AnswerMatches'
    BY <1>0, <1>3, <2>1 DEF SendTop, poolVars, countVars, TypeOK, AnswerMatches, HeldOwn, CountedOnce
  <2>5. CountedOnce'
    BY <1>0, <1>3, <2>1 DEF SendTop, poolVars, countVars, TypeOK, CountedOnce, AnswerMatches, HeldOwn
  <2> QED BY <2>1, <2>2, <2>3, <2>4, <2>5 DEF SInv
<1>4. ASSUME NEW p \in Pools, PopShare(p)
      PROVE  SInv'
  <2>1. TypeOK'
    BY <1>0, <1>4 DEF PopShare, SharesOf, poolVars, countVars, TypeOK
  <2>2. HeldOwn'
    BY <1>0, <1>4, <2>1 DEF PopShare, SharesOf, poolVars, countVars, TypeOK, HeldOwn, SendingHeld, AnswerMatches
  <2>3. SendingHeld'
    BY <1>0, <1>4, <2>1 DEF PopShare, SharesOf, poolVars, countVars, TypeOK, SendingHeld, HeldOwn
  <2>4. AnswerMatches'
    BY <1>0, <1>4, <2>1 DEF PopShare, SharesOf, poolVars, countVars, TypeOK, AnswerMatches, HeldOwn, CountedOnce
  <2>5. CountedOnce'
    BY <1>0, <1>4, <2>1 DEF PopShare, SharesOf, poolVars, countVars, TypeOK, CountedOnce, AnswerMatches, HeldOwn
  <2> QED BY <2>1, <2>2, <2>3, <2>4, <2>5 DEF SInv
<1>5. ASSUME NEW p \in Pools, SendOk(p)
      PROVE  SInv'
  <2>1. TypeOK'
    BY <1>0, <1>5 DEF SendOk, poolVars, countVars, TypeOK
  <2>2. HeldOwn'
    BY <1>0, <1>5, <2>1 DEF SendOk, poolVars, countVars, TypeOK, HeldOwn, SendingHeld, AnswerMatches
  <2>3. SendingHeld'
    BY <1>0, <1>5, <2>1 DEF SendOk, poolVars, countVars, TypeOK, SendingHeld, HeldOwn
  <2>4. AnswerMatches'
    <3>1. held[p] \in Shares /\ answer[held[p]] = "none" /\ share[held[p]] = "sending"
      BY <1>0, <1>5 DEF SendOk, HeldOwn, TypeOK
    <3>2. \A t \in Shares : answer'[t] = IF t = held[p] THEN "due" ELSE answer[t]
      BY <1>0, <1>5 DEF SendOk, TypeOK
    <3> QED BY <1>0, <1>5, <3>1, <3>2 DEF SendOk, countVars, AnswerMatches
  <2>5. CountedOnce'
    BY <1>0, <1>5, <2>1 DEF SendOk, poolVars, countVars, TypeOK, CountedOnce, AnswerMatches, HeldOwn
  <2> QED BY <2>1, <2>2, <2>3, <2>4, <2>5 DEF SInv
<1>6. ASSUME NEW p \in Pools, SendFails(p)
      PROVE  SInv'
  <2>a. /\ answer' \in [Shares -> {"none", "due", "lost", "read"}]
        /\ \A t \in Shares : /\ answer'[t] = "none" <=> answer[t] = "none"
                             /\ answer'[t] = "read" <=> answer[t] = "read"
    BY <1>0, <1>6, SuspendFacts DEF SendFails, suspend_stratum, TypeOK
  <2>1. TypeOK'
    BY <1>0, <1>6, <2>a DEF SendFails, suspend_stratum, poolVars, countVars, TypeOK
  <2>2. HeldOwn'
    BY <1>0, <1>6, <2>a, <2>1 DEF SendFails, suspend_stratum, poolVars, countVars, TypeOK, HeldOwn, SendingHeld, AnswerMatches
  <2>3. SendingHeld'
    BY <1>0, <1>6, <2>a, <2>1 DEF SendFails, suspend_stratum, poolVars, countVars, TypeOK, SendingHeld, HeldOwn
  <2>4. AnswerMatches'
    BY <1>0, <1>6, <2>a, <2>1 DEF SendFails, suspend_stratum, poolVars, countVars, TypeOK, AnswerMatches, HeldOwn, CountedOnce
  <2>5. CountedOnce'
    BY <1>0, <1>6, <2>a, <2>1 DEF SendFails, suspend_stratum, poolVars, countVars, TypeOK, CountedOnce, AnswerMatches, HeldOwn
  <2> QED BY <2>1, <2>2, <2>3, <2>4, <2>5 DEF SInv
<1>7. ASSUME NEW p \in Pools, Retry(p)
      PROVE  SInv'
  <2>1. TypeOK'
    BY <1>0, <1>7 DEF Retry, poolVars, countVars, TypeOK
  <2>2. HeldOwn'
    BY <1>0, <1>7, <2>1 DEF Retry, poolVars, countVars, TypeOK, HeldOwn, SendingHeld, AnswerMatches
  <2>3. SendingHeld'
    BY <1>0, <1>7, <2>1 DEF Retry, poolVars, countVars, TypeOK, SendingHeld, HeldOwn
  <2>4. AnswerMatches'
    BY <1>0, <1>7, <2>1 DEF Retry, poolVars, countVars, TypeOK, AnswerMatches, HeldOwn, CountedOnce
  <2>5. CountedOnce'
    BY <1>0, <1>7, <2>1 DEF Retry, poolVars, countVars, TypeOK, CountedOnce, AnswerMatches, HeldOwn
  <2> QED BY <2>1, <2>2, <2>3, <2>4, <2>5 DEF SInv
<1>8. ASSUME NEW p \in Pools, GiveUp(p)
      PROVE  SInv'
  <2>a. held[p] \in Shares /\ share[held[p]] = "sending"
    BY <1>0, <1>8 DEF GiveUp, HeldOwn, TypeOK
  <2>b. /\ share' \in [Shares -> {"none", "queued", "sending", "tracked", "freed", "dropped"}]
        /\ stale' \in [Shares -> Nat] /\ CountedOnce'
    <3>1. Gone({held[p]})
      BY <1>0, <1>8, <2>a, DiscardGone DEF GiveUp
    <3> QED BY <1>0, <1>8, <2>a, <3>1, GoneFacts DEF GiveUp
  <2>1. TypeOK'
    BY <1>0, <1>8, <2>b DEF GiveUp, poolVars, TypeOK
  <2>2. HeldOwn'
    BY <1>0, <1>8, <2>1 DEF GiveUp, Discard, poolVars, countVars, TypeOK, HeldOwn, SendingHeld, AnswerMatches
  <2>3. SendingHeld'
    BY <1>0, <1>8, <2>1 DEF GiveUp, Discard, poolVars, countVars, TypeOK, SendingHeld, HeldOwn
  <2>4. AnswerMatches'
    BY <1>0, <1>8, <2>1 DEF GiveUp, Discard, poolVars, countVars, TypeOK, AnswerMatches, HeldOwn, CountedOnce
  <2>5. CountedOnce'
    BY <2>b
  <2> QED BY <2>1, <2>2, <2>3, <2>4, <2>5 DEF SInv
<1>9. ASSUME NEW p \in Pools, Track(p)
      PROVE  SInv'
  <2>a. sshares' \in [Pools -> Int]
    BY <1>0, <1>9 DEF Track, TypeOK
  <2>b. share' \in [Shares -> {"none", "queued", "sending", "tracked", "freed", "dropped"}]
    BY <1>0, <1>9 DEF Track, TypeOK
  <2>1. TypeOK'
    BY <1>0, <1>9, <2>a, <2>b DEF Track, poolVars, countVars, TypeOK
  <2>2. HeldOwn'
    BY <1>0, <1>9, <2>1 DEF Track, poolVars, countVars, TypeOK, HeldOwn, SendingHeld, AnswerMatches
  <2>3. SendingHeld'
    BY <1>0, <1>9, <2>1 DEF Track, poolVars, countVars, TypeOK, SendingHeld, HeldOwn
  <2>4. AnswerMatches'
    BY <1>0, <1>9, <2>1 DEF Track, poolVars, countVars, TypeOK, AnswerMatches, HeldOwn, CountedOnce
  <2>5. CountedOnce'
    BY <1>0, <1>9, <2>1 DEF Track, poolVars, countVars, TypeOK, CountedOnce, AnswerMatches, HeldOwn
  <2> QED BY <2>1, <2>2, <2>3, <2>4, <2>5 DEF SInv
<1>10. ASSUME NEW p \in Pools, RecvRemoved(p)
      PROVE  SInv'
  <2>a. /\ answer' \in [Shares -> {"none", "due", "lost", "read"}]
        /\ \A t \in Shares : /\ answer'[t] = "none" <=> answer[t] = "none"
                             /\ answer'[t] = "read" <=> answer[t] = "read"
    BY <1>0, <1>10, SuspendFacts DEF RecvRemoved, suspend_stratum, TypeOK
  <2>1. TypeOK'
    BY <1>0, <1>10, <2>a DEF RecvRemoved, RecvGoes, suspend_stratum, poolVars, countVars, TypeOK
  <2>2. HeldOwn'
    BY <1>0, <1>10, <2>a, <2>1 DEF RecvRemoved, RecvGoes, suspend_stratum, poolVars, countVars, TypeOK, HeldOwn, SendingHeld, AnswerMatches
  <2>3. SendingHeld'
    BY <1>0, <1>10, <2>a, <2>1 DEF RecvRemoved, RecvGoes, suspend_stratum, poolVars, countVars, TypeOK, SendingHeld, HeldOwn
  <2>4. AnswerMatches'
    BY <1>0, <1>10, <2>a, <2>1 DEF RecvRemoved, RecvGoes, suspend_stratum, poolVars, countVars, TypeOK, AnswerMatches, HeldOwn, CountedOnce
  <2>5. CountedOnce'
    BY <1>0, <1>10, <2>a, <2>1 DEF RecvRemoved, RecvGoes, suspend_stratum, poolVars, countVars, TypeOK, CountedOnce, AnswerMatches, HeldOwn
  <2> QED BY <2>1, <2>2, <2>3, <2>4, <2>5 DEF SInv
<1>11. ASSUME NEW p \in Pools, Unneeded(p)
      PROVE  SInv'
  <2>1. TypeOK'
    BY <1>0, <1>11 DEF Unneeded, RecvGoes, poolVars, countVars, TypeOK
  <2>2. HeldOwn'
    BY <1>0, <1>11, <2>1 DEF Unneeded, RecvGoes, poolVars, countVars, TypeOK, HeldOwn, SendingHeld, AnswerMatches
  <2>3. SendingHeld'
    BY <1>0, <1>11, <2>1 DEF Unneeded, RecvGoes, poolVars, countVars, TypeOK, SendingHeld, HeldOwn
  <2>4. AnswerMatches'
    BY <1>0, <1>11, <2>1 DEF Unneeded, RecvGoes, poolVars, countVars, TypeOK, AnswerMatches, HeldOwn, CountedOnce
  <2>5. CountedOnce'
    BY <1>0, <1>11, <2>1 DEF Unneeded, RecvGoes, poolVars, countVars, TypeOK, CountedOnce, AnswerMatches, HeldOwn
  <2> QED BY <2>1, <2>2, <2>3, <2>4, <2>5 DEF SInv
<1>12. ASSUME NEW p \in Pools, IdleSuspend(p)
      PROVE  SInv'
  <2>a. /\ answer' \in [Shares -> {"none", "due", "lost", "read"}]
        /\ \A t \in Shares : /\ answer'[t] = "none" <=> answer[t] = "none"
                             /\ answer'[t] = "read" <=> answer[t] = "read"
    BY <1>0, <1>12, SuspendFacts DEF IdleSuspend, suspend_stratum, TypeOK
  <2>1. TypeOK'
    BY <1>0, <1>12, <2>a DEF IdleSuspend, RecvGoes, suspend_stratum, poolVars, countVars, TypeOK
  <2>2. HeldOwn'
    BY <1>0, <1>12, <2>a, <2>1 DEF IdleSuspend, RecvGoes, suspend_stratum, poolVars, countVars, TypeOK, HeldOwn, SendingHeld, AnswerMatches
  <2>3. SendingHeld'
    BY <1>0, <1>12, <2>a, <2>1 DEF IdleSuspend, RecvGoes, suspend_stratum, poolVars, countVars, TypeOK, SendingHeld, HeldOwn
  <2>4. AnswerMatches'
    BY <1>0, <1>12, <2>a, <2>1 DEF IdleSuspend, RecvGoes, suspend_stratum, poolVars, countVars, TypeOK, AnswerMatches, HeldOwn, CountedOnce
  <2>5. CountedOnce'
    BY <1>0, <1>12, <2>a, <2>1 DEF IdleSuspend, RecvGoes, suspend_stratum, poolVars, countVars, TypeOK, CountedOnce, AnswerMatches, HeldOwn
  <2> QED BY <2>1, <2>2, <2>3, <2>4, <2>5 DEF SInv
<1>13. ASSUME NEW p \in Pools, IdleClear(p)
      PROVE  SInv'
  <2>c. /\ share' \in [Shares -> {"none", "queued", "sending", "tracked", "freed", "dropped"}]
        /\ stale' \in [Shares -> Nat] /\ sshares' \in [Pools -> Int] /\ CountedOnce'
        /\ \A t \in Shares : share'[t] = IF t \in Tracked(p) THEN "freed" ELSE share[t]
    BY <1>0, <1>13, ClearFacts DEF IdleClear, poolVars
  <2>1. TypeOK'
    BY <1>0, <1>13, <2>c DEF IdleClear, RecvGoes, Tracked, poolVars, countVars, TypeOK
  <2>2. HeldOwn'
    BY <1>0, <1>13, <2>c, <2>1 DEF IdleClear, RecvGoes, Tracked, poolVars, countVars, TypeOK, HeldOwn, SendingHeld, AnswerMatches
  <2>3. SendingHeld'
    BY <1>0, <1>13, <2>c, <2>1 DEF IdleClear, RecvGoes, Tracked, poolVars, countVars, TypeOK, SendingHeld, HeldOwn
  <2>4. AnswerMatches'
    <3>1. \A t \in Shares : share'[t] # share[t] => share[t] = "tracked" /\ share'[t] = "freed"
      BY <2>c DEF Tracked
    <3>2. UNCHANGED <<answer, answered, untracked>>
      BY <1>13 DEF IdleClear
    <3> QED BY <1>0, <3>1, <3>2 DEF AnswerMatches
  <2>5. CountedOnce'
    BY <2>c
  <2> QED BY <2>1, <2>2, <2>3, <2>4, <2>5 DEF SInv
<1>14. ASSUME NEW p \in Pools, Unpark(p)
      PROVE  SInv'
  <2>1. TypeOK'
    BY <1>0, <1>14 DEF Unpark, RecvGoes, poolVars, countVars, TypeOK
  <2>2. HeldOwn'
    BY <1>0, <1>14, <2>1 DEF Unpark, RecvGoes, poolVars, countVars, TypeOK, HeldOwn, SendingHeld, AnswerMatches
  <2>3. SendingHeld'
    BY <1>0, <1>14, <2>1 DEF Unpark, RecvGoes, poolVars, countVars, TypeOK, SendingHeld, HeldOwn
  <2>4. AnswerMatches'
    BY <1>0, <1>14, <2>1 DEF Unpark, RecvGoes, poolVars, countVars, TypeOK, AnswerMatches, HeldOwn, CountedOnce
  <2>5. CountedOnce'
    BY <1>0, <1>14, <2>1 DEF Unpark, RecvGoes, poolVars, countVars, TypeOK, CountedOnce, AnswerMatches, HeldOwn
  <2> QED BY <2>1, <2>2, <2>3, <2>4, <2>5 DEF SInv
<1>15. ASSUME NEW p \in Pools, NEW s \in Shares, parse_stratum_response(p, s)
      PROVE  SInv'
  <2>1. TypeOK'
    BY <1>0, <1>15 DEF parse_stratum_response, poolVars, countVars, TypeOK
  <2>2. HeldOwn'
    BY <1>0, <1>15, <2>1 DEF parse_stratum_response, poolVars, countVars, TypeOK, HeldOwn, SendingHeld, AnswerMatches
  <2>3. SendingHeld'
    BY <1>0, <1>15, <2>1 DEF parse_stratum_response, poolVars, countVars, TypeOK, SendingHeld, HeldOwn
  <2>4. AnswerMatches'
    <3>1. answer[s] = "due" /\ answered[s] = 0 /\ untracked[s] = 0
      BY <1>0, <1>15 DEF parse_stratum_response, AnswerMatches
    <3>2. \A t \in Shares \ {s} : /\ share'[t] = share[t] /\ answer'[t] = answer[t]
                                  /\ answered'[t] = answered[t] /\ untracked'[t] = untracked[t]
      BY <1>0, <1>15 DEF parse_stratum_response, TypeOK
    <3>3. answer'[s] = "read" /\ stale' = stale
      BY <1>0, <1>15 DEF parse_stratum_response, TypeOK
    <3>4. \/ share[s] = "tracked" /\ share'[s] = "freed" /\ answered'[s] = answered[s] + 1 /\ untracked'[s] = untracked[s]
          \/ share[s] # "tracked" /\ share'[s] = share[s] /\ answered'[s] = answered[s] /\ untracked'[s] = untracked[s] + 1
      BY <1>0, <1>15 DEF parse_stratum_response, TypeOK
    <3> QED BY <1>0, <3>1, <3>2, <3>3, <3>4 DEF AnswerMatches
  <2>5. CountedOnce'
    <3>1. answer[s] = "due" /\ answered[s] = 0 /\ untracked[s] = 0
      BY <1>0, <1>15 DEF parse_stratum_response, AnswerMatches
    <3>2. \A t \in Shares \ {s} : /\ share'[t] = share[t] /\ answer'[t] = answer[t]
                                  /\ answered'[t] = answered[t] /\ untracked'[t] = untracked[t]
      BY <1>0, <1>15 DEF parse_stratum_response, TypeOK
    <3>3. answer'[s] = "read" /\ stale' = stale
      BY <1>0, <1>15 DEF parse_stratum_response, TypeOK
    <3>4. \/ share[s] = "tracked" /\ share'[s] = "freed" /\ answered'[s] = answered[s] + 1 /\ untracked'[s] = untracked[s]
          \/ share[s] # "tracked" /\ share'[s] = share[s] /\ answered'[s] = answered[s] /\ untracked'[s] = untracked[s] + 1
      BY <1>0, <1>15 DEF parse_stratum_response, TypeOK
    <3>5. \A t \in Shares : stale[t] \in Nat
      BY <1>0 DEF TypeOK
    <3>6. ASSUME NEW t \in Shares
          PROVE  /\ answered'[t] + stale'[t] = IF share'[t] = "freed" THEN 1 ELSE 0
                 /\ untracked'[t] <= 1
                 /\ untracked'[t] = 1 => answered'[t] = 0
      BY <1>0, <3>1, <3>2, <3>3, <3>4, <3>5 DEF CountedOnce
    <3> QED BY <3>6 DEF CountedOnce
  <2> QED BY <2>1, <2>2, <2>3, <2>4, <2>5 DEF SInv
<1>16. ASSUME NEW p \in Pools, Interrupted(p)
      PROVE  SInv'
  <2>a. /\ answer' \in [Shares -> {"none", "due", "lost", "read"}]
        /\ \A t \in Shares : /\ answer'[t] = "none" <=> answer[t] = "none"
                             /\ answer'[t] = "read" <=> answer[t] = "read"
    BY <1>0, <1>16, SuspendFacts DEF Interrupted, suspend_stratum, TypeOK
  <2>1. TypeOK'
    BY <1>0, <1>16, <2>a DEF Interrupted, RecvGoes, suspend_stratum, poolVars, countVars, TypeOK
  <2>2. HeldOwn'
    BY <1>0, <1>16, <2>a, <2>1 DEF Interrupted, RecvGoes, suspend_stratum, poolVars, countVars, TypeOK, HeldOwn, SendingHeld, AnswerMatches
  <2>3. SendingHeld'
    BY <1>0, <1>16, <2>a, <2>1 DEF Interrupted, RecvGoes, suspend_stratum, poolVars, countVars, TypeOK, SendingHeld, HeldOwn
  <2>4. AnswerMatches'
    BY <1>0, <1>16, <2>a, <2>1 DEF Interrupted, RecvGoes, suspend_stratum, poolVars, countVars, TypeOK, AnswerMatches, HeldOwn, CountedOnce
  <2>5. CountedOnce'
    BY <1>0, <1>16, <2>a, <2>1 DEF Interrupted, RecvGoes, suspend_stratum, poolVars, countVars, TypeOK, CountedOnce, AnswerMatches, HeldOwn
  <2> QED BY <2>1, <2>2, <2>3, <2>4, <2>5 DEF SInv
<1>17. ASSUME NEW p \in Pools, LostClear(p)
      PROVE  SInv'
  <2>c. /\ share' \in [Shares -> {"none", "queued", "sending", "tracked", "freed", "dropped"}]
        /\ stale' \in [Shares -> Nat] /\ sshares' \in [Pools -> Int] /\ CountedOnce'
        /\ \A t \in Shares : share'[t] = share[t] \/ (share[t] = "tracked" /\ share'[t] = "freed")
    <3>1. CASE clear_stratum_shares(p)
      BY <1>0, <1>17, <3>1, ClearFacts DEF LostClear, Tracked
    <3>2. CASE UNCHANGED <<share, stale, sshares>>
      BY <1>0, <1>17, <3>2 DEF LostClear, TypeOK, CountedOnce
    <3> QED BY <1>17, <3>1, <3>2 DEF LostClear
  <2>1. TypeOK'
    BY <1>0, <1>17, <2>c DEF LostClear, RecvGoes, Tracked, poolVars, countVars, TypeOK
  <2>2. HeldOwn'
    BY <1>0, <1>17, <2>c, <2>1 DEF LostClear, RecvGoes, Tracked, poolVars, countVars, TypeOK, HeldOwn, SendingHeld, AnswerMatches
  <2>3. SendingHeld'
    BY <1>0, <1>17, <2>c, <2>1 DEF LostClear, RecvGoes, Tracked, poolVars, countVars, TypeOK, SendingHeld, HeldOwn
  <2>4. AnswerMatches'
    <3>1. \A t \in Shares : share'[t] # share[t] => share[t] = "tracked" /\ share'[t] = "freed"
      BY <2>c DEF Tracked
    <3>2. UNCHANGED <<answer, answered, untracked>>
      BY <1>17 DEF LostClear
    <3> QED BY <1>0, <3>1, <3>2 DEF AnswerMatches
  <2>5. CountedOnce'
    BY <2>c
  <2> QED BY <2>1, <2>2, <2>3, <2>4, <2>5 DEF SInv
<1>18. ASSUME NEW p \in Pools, InitiateFails(p)
      PROVE  SInv'
  <2>a. /\ answer' \in [Shares -> {"none", "due", "lost", "read"}]
        /\ \A t \in Shares : /\ answer'[t] = "none" <=> answer[t] = "none"
                             /\ answer'[t] = "read" <=> answer[t] = "read"
    BY <1>0, <1>18, SuspendFacts DEF InitiateFails, suspend_stratum, TypeOK
  <2>b. resume' \in [Pools -> BOOLEAN]
    BY <1>0, <1>18 DEF InitiateFails, TypeOK
  <2>e. session' \in [Shares -> BOOLEAN]
    BY <1>0, <1>18, RenouncedType DEF InitiateFails, TypeOK
  <2>d. rthread' \in [Pools -> {"top", "idle", "clear", "parked", "lost", "restart", "auth", "exit"}]
    BY <1>0, <1>18 DEF InitiateFails, RecvGoes, TypeOK
  <2>1. TypeOK'
    BY <1>0, <1>18, <2>a, <2>b, <2>d, <2>e DEF InitiateFails, suspend_stratum, countVars, TypeOK
  <2>2. HeldOwn'
    BY <1>0, <1>18, <2>a, <2>1 DEF InitiateFails, RecvGoes, suspend_stratum, Renounced, poolVars, countVars, TypeOK, HeldOwn, SendingHeld, AnswerMatches
  <2>3. SendingHeld'
    BY <1>0, <1>18, <2>a, <2>1 DEF InitiateFails, RecvGoes, suspend_stratum, Renounced, poolVars, countVars, TypeOK, SendingHeld, HeldOwn
  <2>4. AnswerMatches'
    BY <1>0, <1>18, <2>a, <2>1 DEF InitiateFails, RecvGoes, suspend_stratum, Renounced, poolVars, countVars, TypeOK, AnswerMatches, HeldOwn, CountedOnce
  <2>5. CountedOnce'
    BY <1>0, <1>18, <2>a, <2>1 DEF InitiateFails, RecvGoes, suspend_stratum, Renounced, poolVars, countVars, TypeOK, CountedOnce, AnswerMatches, HeldOwn
  <2> QED BY <2>1, <2>2, <2>3, <2>4, <2>5 DEF SInv
<1>19. ASSUME NEW p \in Pools, InitiateOk(p)
      PROVE  SInv'
  <2>a. /\ answer' \in [Shares -> {"none", "due", "lost", "read"}]
        /\ \A t \in Shares : /\ answer'[t] = "none" <=> answer[t] = "none"
                             /\ answer'[t] = "read" <=> answer[t] = "read"
    BY <1>0, <1>19, SuspendFacts DEF InitiateOk, TypeOK
  <2>b. resume' \in [Pools -> BOOLEAN]
    BY <1>0, <1>19 DEF InitiateOk, TypeOK
  <2>e. session' \in [Shares -> BOOLEAN]
    BY <1>0, <1>19, RenouncedType DEF InitiateOk, TypeOK
  <2>d. rthread' \in [Pools -> {"top", "idle", "clear", "parked", "lost", "restart", "auth", "exit"}]
    BY <1>0, <1>19 DEF InitiateOk, RecvGoes, TypeOK
  <2>1. TypeOK'
    BY <1>0, <1>19, <2>a, <2>b, <2>d, <2>e DEF InitiateOk, countVars, TypeOK
  <2>2. HeldOwn'
    BY <1>0, <1>19, <2>a, <2>1 DEF InitiateOk, RecvGoes, Renounced, poolVars, countVars, TypeOK, HeldOwn, SendingHeld, AnswerMatches
  <2>3. SendingHeld'
    BY <1>0, <1>19, <2>a, <2>1 DEF InitiateOk, RecvGoes, Renounced, poolVars, countVars, TypeOK, SendingHeld, HeldOwn
  <2>4. AnswerMatches'
    BY <1>0, <1>19, <2>a, <2>1 DEF InitiateOk, RecvGoes, Renounced, poolVars, countVars, TypeOK, AnswerMatches, HeldOwn, CountedOnce
  <2>5. CountedOnce'
    BY <1>0, <1>19, <2>a, <2>1 DEF InitiateOk, RecvGoes, Renounced, poolVars, countVars, TypeOK, CountedOnce, AnswerMatches, HeldOwn
  <2> QED BY <2>1, <2>2, <2>3, <2>4, <2>5 DEF SInv
<1>20. ASSUME NEW p \in Pools, AuthOk(p)
      PROVE  SInv'
  <2>1. TypeOK'
    BY <1>0, <1>20 DEF AuthOk, RecvGoes, AuthAnswer, SharesOf, poolVars, countVars, TypeOK
  <2>2. HeldOwn'
    BY <1>0, <1>20, <2>1 DEF AuthOk, RecvGoes, AuthAnswer, SharesOf, poolVars, countVars, TypeOK, HeldOwn, SendingHeld, AnswerMatches
  <2>3. SendingHeld'
    BY <1>0, <1>20, <2>1 DEF AuthOk, RecvGoes, AuthAnswer, SharesOf, poolVars, countVars, TypeOK, SendingHeld, HeldOwn
  <2>4. AnswerMatches'
    <3>1. \A t \in Shares : answer'[t] = answer[t] \/ (answer[t] = "due" /\ answer'[t] = "lost")
      BY <1>0, <1>20 DEF AuthOk, AuthAnswer, SharesOf, TypeOK
    <3> QED BY <1>0, <1>20, <3>1 DEF AuthOk, countVars, AnswerMatches
  <2>5. CountedOnce'
    BY <1>0, <1>20, <2>1 DEF AuthOk, RecvGoes, AuthAnswer, SharesOf, poolVars, countVars, TypeOK, CountedOnce, AnswerMatches, HeldOwn
  <2> QED BY <2>1, <2>2, <2>3, <2>4, <2>5 DEF SInv
<1>21. ASSUME NEW p \in Pools, AuthFails(p)
      PROVE  SInv'
  <2>a. /\ answer' \in [Shares -> {"none", "due", "lost", "read"}]
        /\ \A t \in Shares : /\ answer'[t] = "none" <=> answer[t] = "none"
                             /\ answer'[t] = "read" <=> answer[t] = "read"
    BY <1>0, <1>21, SuspendFacts DEF AuthFails, suspend_stratum, TypeOK
  <2>1. TypeOK'
    BY <1>0, <1>21, <2>a DEF AuthFails, RecvGoes, suspend_stratum, poolVars, countVars, TypeOK
  <2>2. HeldOwn'
    BY <1>0, <1>21, <2>a, <2>1 DEF AuthFails, RecvGoes, suspend_stratum, poolVars, countVars, TypeOK, HeldOwn, SendingHeld, AnswerMatches
  <2>3. SendingHeld'
    BY <1>0, <1>21, <2>a, <2>1 DEF AuthFails, RecvGoes, suspend_stratum, poolVars, countVars, TypeOK, SendingHeld, HeldOwn
  <2>4. AnswerMatches'
    BY <1>0, <1>21, <2>a, <2>1 DEF AuthFails, RecvGoes, suspend_stratum, poolVars, countVars, TypeOK, AnswerMatches, HeldOwn, CountedOnce
  <2>5. CountedOnce'
    BY <1>0, <1>21, <2>a, <2>1 DEF AuthFails, RecvGoes, suspend_stratum, poolVars, countVars, TypeOK, CountedOnce, AnswerMatches, HeldOwn
  <2> QED BY <2>1, <2>2, <2>3, <2>4, <2>5 DEF SInv
<1>22. ASSUME NEW p \in Pools, prune_stratum_shares(p)
      PROVE  SInv'
  <2>1. TypeOK'
    BY <1>0, <1>22 DEF prune_stratum_shares, Tracked, poolVars, countVars, TypeOK
  <2>2. HeldOwn'
    BY <1>0, <1>22, <2>1 DEF prune_stratum_shares, Tracked, poolVars, countVars, TypeOK, HeldOwn, SendingHeld, AnswerMatches
  <2>3. SendingHeld'
    BY <1>0, <1>22, <2>1 DEF prune_stratum_shares, Tracked, poolVars, countVars, TypeOK, SendingHeld, HeldOwn
  <2>4. AnswerMatches'
    BY <1>0, <1>22, <2>1 DEF prune_stratum_shares, Tracked, poolVars, countVars, TypeOK, AnswerMatches, HeldOwn, CountedOnce
  <2>5. CountedOnce'
    <3> DEFINE late == {s \in Tracked(p) : old[s]}
    <3>1. late \in SUBSET Shares /\ \A s \in late : share[s] # "freed"
      BY DEF Tracked
    <3>2. Gone(late) /\ UNCHANGED <<answered, untracked>>
      BY <1>22 DEF prune_stratum_shares, Gone
    <3> QED BY <1>0, <3>1, <3>2, GoneFacts
  <2> QED BY <2>1, <2>2, <2>3, <2>4, <2>5 DEF SInv
<1>23. ASSUME NEW p \in Pools, Environment(p)
      PROVE  SInv'
  <2>1. TypeOK'
    BY <1>0, <1>23 DEF Environment, poolVars, countVars, TypeOK
  <2>2. HeldOwn'
    BY <1>0, <1>23, <2>1 DEF Environment, poolVars, countVars, TypeOK, HeldOwn, SendingHeld, AnswerMatches
  <2>3. SendingHeld'
    BY <1>0, <1>23, <2>1 DEF Environment, poolVars, countVars, TypeOK, SendingHeld, HeldOwn
  <2>4. AnswerMatches'
    BY <1>0, <1>23, <2>1 DEF Environment, poolVars, countVars, TypeOK, AnswerMatches, HeldOwn, CountedOnce
  <2>5. CountedOnce'
    BY <1>0, <1>23, <2>1 DEF Environment, poolVars, countVars, TypeOK, CountedOnce, AnswerMatches, HeldOwn
  <2> QED BY <2>1, <2>2, <2>3, <2>4, <2>5 DEF SInv
<1>24. ASSUME NEW p \in Pools, remove_pool(p)
      PROVE  SInv'
  <2>1. TypeOK'
    BY <1>0, <1>24 DEF remove_pool, poolVars, countVars, TypeOK
  <2>2. HeldOwn'
    BY <1>0, <1>24, <2>1 DEF remove_pool, poolVars, countVars, TypeOK, HeldOwn, SendingHeld, AnswerMatches
  <2>3. SendingHeld'
    BY <1>0, <1>24, <2>1 DEF remove_pool, poolVars, countVars, TypeOK, SendingHeld, HeldOwn
  <2>4. AnswerMatches'
    BY <1>0, <1>24, <2>1 DEF remove_pool, poolVars, countVars, TypeOK, AnswerMatches, HeldOwn, CountedOnce
  <2>5. CountedOnce'
    BY <1>0, <1>24, <2>1 DEF remove_pool, poolVars, countVars, TypeOK, CountedOnce, AnswerMatches, HeldOwn
  <2> QED BY <2>1, <2>2, <2>3, <2>4, <2>5 DEF SInv
<1>25. CASE UNCHANGED vars
  BY <1>0, <1>25 DEF vars, poolVars, countVars, SInv, TypeOK, HeldOwn, SendingHeld, AnswerMatches, CountedOnce
<1> QED
  BY <1>1, <1>2, <1>3, <1>4, <1>5, <1>6, <1>7, <1>8, <1>9, <1>10, <1>11, <1>12, <1>13, <1>14, <1>15, <1>16, <1>17, <1>18, <1>19, <1>20, <1>21, <1>22, <1>23, <1>24, <1>25
     DEF Next, SendStep, RecvStep

---------------------------------------------------------------------------
(* pool->sshares and the table *)

\* The bound survives when no share enters the table.
LEMMA CountKept ==
  ASSUME TypeOK, AwaitedIsCounted, UNCHANGED <<pool, sshares>>,
         \A t \in Shares : share'[t] = "tracked" => share[t] = "tracked"
  PROVE  AwaitedIsCounted'
<1>1. ASSUME NEW q \in Pools
      PROVE  sshares'[q] >= Cardinality(Tracked(q)')
  <2>1. Tracked(q)' \subseteq Tracked(q)
    BY DEF Tracked
  <2>2. Cardinality(Tracked(q)') \in Nat /\ Cardinality(Tracked(q)') <= Cardinality(Tracked(q))
    BY <2>1, TrackedFinite, FS_Subset, FS_CardinalityType
  <2> QED BY <2>2, TrackedFinite DEF AwaitedIsCounted, TypeOK
<1> QED BY <1>1 DEF AwaitedIsCounted

\* It survives when the table of a pool is cleared.
LEMMA CountCleared ==
  ASSUME TypeOK, AwaitedIsCounted, NEW p \in Pools, clear_stratum_shares(p), UNCHANGED pool
  PROVE  AwaitedIsCounted'
<1>1. \A t \in Shares : share'[t] = IF t \in Tracked(p) THEN "freed" ELSE share[t]
  BY DEF clear_stratum_shares
<1>2. ASSUME NEW q \in Pools
      PROVE  sshares'[q] >= Cardinality(Tracked(q)')
  <2>1. CASE q = p
    <3>1. Tracked(q)' = {}
      BY <1>1, <2>1 DEF Tracked
    <3>2. sshares'[q] = sshares[q] - Cardinality(Tracked(q))
      BY <2>1 DEF clear_stratum_shares, TypeOK
    <3> QED BY <3>1, <3>2, FS_EmptySet, TrackedFinite DEF AwaitedIsCounted, TypeOK
  <2>2. CASE q # p
    <3>1. Tracked(q)' = Tracked(q)
      BY <1>1, <2>2 DEF Tracked
    <3>2. sshares'[q] = sshares[q]
      BY <2>2 DEF clear_stratum_shares, TypeOK
    <3> QED BY <3>1, <3>2 DEF AwaitedIsCounted
  <2> QED BY <2>1, <2>2
<1> QED BY <1>2 DEF AwaitedIsCounted

\* Every step of every thread keeps the counter at or above the entries of the
\* table.
LEMMA NextCount == SInv /\ AwaitedIsCounted /\ [Next]_vars => AwaitedIsCounted'
<1> SUFFICES ASSUME SInv, AwaitedIsCounted, [Next]_vars
             PROVE  AwaitedIsCounted'
  OBVIOUS
<1>0. TypeOK /\ HeldOwn
  BY DEF SInv
<1>1. ASSUME NEW p \in Pools, Track(p)
      PROVE  AwaitedIsCounted'
  <2> DEFINE h == held[p]
  <2>1. h \in Shares /\ share[h] = "sending" /\ pool[h] = p
    BY <1>0, <1>1 DEF Track, HeldOwn, TypeOK
  <2>2. \A t \in Shares : share'[t] = IF t = h THEN "tracked" ELSE share[t]
    BY <1>0, <1>1 DEF Track, TypeOK
  <2>3. \A q \in Pools : sshares'[q] = IF q = p THEN sshares[q] + 1 ELSE sshares[q]
    BY <1>0, <1>1 DEF Track, TypeOK
  <2>4. ASSUME NEW q \in Pools
        PROVE  sshares'[q] >= Cardinality(Tracked(q)')
    <3>1. CASE q = p
      <4>1. Tracked(q)' = Tracked(q) \cup {h} /\ h \notin Tracked(q)
        BY <1>1, <2>1, <2>2, <3>1 DEF Tracked, Track
      <4>2. Cardinality(Tracked(q)') = Cardinality(Tracked(q)) + 1
        BY <4>1, TrackedFinite, FS_AddElement
      <4> QED BY <1>0, <2>3, <3>1, <4>2, TrackedFinite DEF AwaitedIsCounted, TypeOK
    <3>2. CASE q # p
      <4>1. Tracked(q)' = Tracked(q)
        BY <1>1, <2>1, <2>2, <3>2 DEF Tracked, Track
      <4> QED BY <2>3, <3>2, <4>1 DEF AwaitedIsCounted
    <3> QED BY <3>1, <3>2
  <2> QED BY <2>4 DEF AwaitedIsCounted
<1>2. ASSUME NEW p \in Pools, NEW s \in Shares, parse_stratum_response(p, s)
      PROVE  AwaitedIsCounted'
  <2>1. CASE share[s] # "tracked"
    BY <1>0, <1>2, <2>1, CountKept DEF parse_stratum_response
  <2>2. CASE share[s] = "tracked"
    <3>1. \A t \in Shares : share'[t] = IF t = s THEN "freed" ELSE share[t]
      BY <1>0, <1>2, <2>2 DEF parse_stratum_response, TypeOK
    <3>2. \A q \in Pools : sshares'[q] = IF q = p THEN sshares[q] - 1 ELSE sshares[q]
      BY <1>0, <1>2, <2>2 DEF parse_stratum_response, TypeOK
    <3>3. ASSUME NEW q \in Pools
          PROVE  sshares'[q] >= Cardinality(Tracked(q)')
      <4>1. CASE q = p
        <5>1. Tracked(q)' = Tracked(q) \ {s} /\ s \in Tracked(q)
          BY <1>2, <2>2, <3>1, <4>1 DEF Tracked, parse_stratum_response
        <5>2. Cardinality(Tracked(q)') = Cardinality(Tracked(q)) - 1
          BY <5>1, TrackedFinite, FS_RemoveElement
        <5> QED BY <1>0, <3>2, <4>1, <5>2, TrackedFinite DEF AwaitedIsCounted, TypeOK
      <4>2. CASE q # p
        <5>1. Tracked(q)' = Tracked(q)
          BY <1>2, <2>2, <3>1, <4>2 DEF Tracked, parse_stratum_response
        <5> QED BY <3>2, <4>2, <5>1 DEF AwaitedIsCounted
      <4> QED BY <4>1, <4>2
    <3> QED BY <3>3 DEF AwaitedIsCounted
  <2> QED BY <2>1, <2>2
<1>3. ASSUME NEW p \in Pools, IdleClear(p)
      PROVE  AwaitedIsCounted'
  BY <1>0, <1>3, CountCleared DEF IdleClear
<1>4. ASSUME NEW p \in Pools, LostClear(p)
      PROVE  AwaitedIsCounted'
  <2>1. CASE clear_stratum_shares(p)
    BY <1>0, <1>4, <2>1, CountCleared DEF LostClear
  <2>2. CASE UNCHANGED <<share, stale, sshares>>
    BY <1>0, <1>4, <2>2, CountKept DEF LostClear
  <2> QED BY <1>4, <2>1, <2>2 DEF LostClear
<1>5. ASSUME NEW s \in Shares, submit_work_async(s)
      PROVE  AwaitedIsCounted'
  <2>1. \A t \in Shares : share'[t] = "tracked" => share[t] = "tracked"
    BY <1>0, <1>5 DEF submit_work_async, Discard, TypeOK, HeldOwn
  <2> QED BY <1>0, <1>5, <2>1, CountKept DEF submit_work_async
<1>6. ASSUME NEW s \in Shares, Age(s)
      PROVE  AwaitedIsCounted'
  <2>1. \A t \in Shares : share'[t] = "tracked" => share[t] = "tracked"
    BY <1>0, <1>6 DEF Age, TypeOK, HeldOwn
  <2> QED BY <1>0, <1>6, <2>1, CountKept DEF Age
<1>7. ASSUME NEW p \in Pools, SendTop(p)
      PROVE  AwaitedIsCounted'
  <2>1. \A t \in Shares : share'[t] = "tracked" => share[t] = "tracked"
    BY <1>0, <1>7 DEF SendTop, TypeOK, HeldOwn
  <2> QED BY <1>0, <1>7, <2>1, CountKept DEF SendTop
<1>8. ASSUME NEW p \in Pools, PopShare(p)
      PROVE  AwaitedIsCounted'
  <2>1. \A t \in Shares : share'[t] = "tracked" => share[t] = "tracked"
    BY <1>0, <1>8 DEF PopShare, TypeOK, HeldOwn
  <2> QED BY <1>0, <1>8, <2>1, CountKept DEF PopShare
<1>9. ASSUME NEW p \in Pools, SendOk(p)
      PROVE  AwaitedIsCounted'
  <2>1. \A t \in Shares : share'[t] = "tracked" => share[t] = "tracked"
    BY <1>0, <1>9 DEF SendOk, TypeOK, HeldOwn
  <2> QED BY <1>0, <1>9, <2>1, CountKept DEF SendOk
<1>10. ASSUME NEW p \in Pools, SendFails(p)
      PROVE  AwaitedIsCounted'
  <2>1. \A t \in Shares : share'[t] = "tracked" => share[t] = "tracked"
    BY <1>0, <1>10 DEF SendFails, TypeOK, HeldOwn
  <2> QED BY <1>0, <1>10, <2>1, CountKept DEF SendFails
<1>11. ASSUME NEW p \in Pools, Retry(p)
      PROVE  AwaitedIsCounted'
  <2>1. \A t \in Shares : share'[t] = "tracked" => share[t] = "tracked"
    BY <1>0, <1>11 DEF Retry, TypeOK, HeldOwn
  <2> QED BY <1>0, <1>11, <2>1, CountKept DEF Retry
<1>12. ASSUME NEW p \in Pools, GiveUp(p)
      PROVE  AwaitedIsCounted'
  <2>1. \A t \in Shares : share'[t] = "tracked" => share[t] = "tracked"
    BY <1>0, <1>12 DEF GiveUp, Discard, TypeOK, HeldOwn
  <2> QED BY <1>0, <1>12, <2>1, CountKept DEF GiveUp
<1>13. ASSUME NEW p \in Pools, RecvRemoved(p)
      PROVE  AwaitedIsCounted'
  <2>1. \A t \in Shares : share'[t] = "tracked" => share[t] = "tracked"
    BY <1>0, <1>13 DEF RecvRemoved, TypeOK, HeldOwn
  <2> QED BY <1>0, <1>13, <2>1, CountKept DEF RecvRemoved
<1>14. ASSUME NEW p \in Pools, Unneeded(p)
      PROVE  AwaitedIsCounted'
  <2>1. \A t \in Shares : share'[t] = "tracked" => share[t] = "tracked"
    BY <1>0, <1>14 DEF Unneeded, TypeOK, HeldOwn
  <2> QED BY <1>0, <1>14, <2>1, CountKept DEF Unneeded
<1>15. ASSUME NEW p \in Pools, IdleSuspend(p)
      PROVE  AwaitedIsCounted'
  <2>1. \A t \in Shares : share'[t] = "tracked" => share[t] = "tracked"
    BY <1>0, <1>15 DEF IdleSuspend, TypeOK, HeldOwn
  <2> QED BY <1>0, <1>15, <2>1, CountKept DEF IdleSuspend
<1>16. ASSUME NEW p \in Pools, Unpark(p)
      PROVE  AwaitedIsCounted'
  <2>1. \A t \in Shares : share'[t] = "tracked" => share[t] = "tracked"
    BY <1>0, <1>16 DEF Unpark, TypeOK, HeldOwn
  <2> QED BY <1>0, <1>16, <2>1, CountKept DEF Unpark
<1>17. ASSUME NEW p \in Pools, Interrupted(p)
      PROVE  AwaitedIsCounted'
  <2>1. \A t \in Shares : share'[t] = "tracked" => share[t] = "tracked"
    BY <1>0, <1>17 DEF Interrupted, TypeOK, HeldOwn
  <2> QED BY <1>0, <1>17, <2>1, CountKept DEF Interrupted
<1>18. ASSUME NEW p \in Pools, InitiateFails(p)
      PROVE  AwaitedIsCounted'
  <2>1. \A t \in Shares : share'[t] = "tracked" => share[t] = "tracked"
    BY <1>0, <1>18 DEF InitiateFails, TypeOK, HeldOwn
  <2> QED BY <1>0, <1>18, <2>1, CountKept DEF InitiateFails
<1>19. ASSUME NEW p \in Pools, InitiateOk(p)
      PROVE  AwaitedIsCounted'
  <2>1. \A t \in Shares : share'[t] = "tracked" => share[t] = "tracked"
    BY <1>0, <1>19 DEF InitiateOk, TypeOK, HeldOwn
  <2> QED BY <1>0, <1>19, <2>1, CountKept DEF InitiateOk
<1>20. ASSUME NEW p \in Pools, AuthOk(p)
      PROVE  AwaitedIsCounted'
  <2>1. \A t \in Shares : share'[t] = "tracked" => share[t] = "tracked"
    BY <1>0, <1>20 DEF AuthOk, TypeOK, HeldOwn
  <2> QED BY <1>0, <1>20, <2>1, CountKept DEF AuthOk
<1>21. ASSUME NEW p \in Pools, AuthFails(p)
      PROVE  AwaitedIsCounted'
  <2>1. \A t \in Shares : share'[t] = "tracked" => share[t] = "tracked"
    BY <1>0, <1>21 DEF AuthFails, TypeOK, HeldOwn
  <2> QED BY <1>0, <1>21, <2>1, CountKept DEF AuthFails
<1>22. ASSUME NEW p \in Pools, prune_stratum_shares(p)
      PROVE  AwaitedIsCounted'
  <2>1. \A t \in Shares : share'[t] = "tracked" => share[t] = "tracked"
    BY <1>0, <1>22 DEF prune_stratum_shares, Tracked, TypeOK, HeldOwn
  <2> QED BY <1>0, <1>22, <2>1, CountKept DEF prune_stratum_shares
<1>23. ASSUME NEW p \in Pools, Environment(p)
      PROVE  AwaitedIsCounted'
  <2>1. \A t \in Shares : share'[t] = "tracked" => share[t] = "tracked"
    BY <1>0, <1>23 DEF Environment, TypeOK, HeldOwn
  <2> QED BY <1>0, <1>23, <2>1, CountKept DEF Environment
<1>24. ASSUME NEW p \in Pools, remove_pool(p)
      PROVE  AwaitedIsCounted'
  <2>1. \A t \in Shares : share'[t] = "tracked" => share[t] = "tracked"
    BY <1>0, <1>24 DEF remove_pool, TypeOK, HeldOwn
  <2> QED BY <1>0, <1>24, <2>1, CountKept DEF remove_pool
<1>25. CASE UNCHANGED vars
  BY <1>0, <1>25, CountKept DEF vars
<1> QED
  BY <1>1, <1>2, <1>3, <1>4, <1>5, <1>6, <1>7, <1>8, <1>9, <1>10, <1>11, <1>12, <1>13,
     <1>14, <1>15, <1>16, <1>17, <1>18, <1>19, <1>20, <1>21, <1>22, <1>23, <1>24, <1>25
     DEF Next, SendStep, RecvStep

---------------------------------------------------------------------------

\* Initially no share was found.
LEMMA InitShareInv == Init => ShareInv
<1> SUFFICES ASSUME Init
             PROVE  ShareInv
  OBVIOUS
<1> USE SharesAssumption DEF Init
<1>1. /\ share \in [Shares -> {"none", "queued", "sending", "tracked", "freed", "dropped"}]
      /\ answer \in [Shares -> {"none", "due", "lost", "read"}]
      /\ pool \in [Shares -> Pools]
      /\ held \in [Pools -> Shares \cup {NoShare}]
  OBVIOUS
<1>2. /\ answered \in [Shares -> Nat] /\ untracked \in [Shares -> Nat] /\ stale \in [Shares -> Nat]
      /\ sshares \in [Pools -> Int]
  OBVIOUS
<1>3. /\ old \in [Shares -> BOOLEAN] /\ session \in [Shares -> BOOLEAN]
      /\ active \in [Pools -> BOOLEAN] /\ resume \in [Pools -> BOOLEAN]
      /\ removed \in [Pools -> BOOLEAN]
  OBVIOUS
<1>4. /\ demand \in [Pools -> {"none", "enabled", "wanted"}]
      /\ sthread \in [Pools -> {"top", "pop", "send", "failed", "track", "exit"}]
      /\ rthread \in [Pools -> {"top", "idle", "clear", "parked", "lost", "restart", "auth", "exit"}]
  OBVIOUS
<1>5. TypeOK
  BY <1>1, <1>2, <1>3, <1>4 DEF TypeOK
<1>6. HeldOwn /\ SendingHeld /\ AnswerMatches
  BY DEF HeldOwn, SendingHeld, AnswerMatches
<1>7. CountedOnce
  BY DEF CountedOnce
<1>8. \A p \in Pools : Tracked(p) = {}
  BY DEF Tracked
<1>9. AwaitedIsCounted
  <2>1. \A p \in Pools : sshares[p] = 0 /\ Cardinality(Tracked(p)) = 0
    BY <1>8, FS_EmptySet
  <2> QED BY <2>1 DEF AwaitedIsCounted
<1> QED BY <1>5, <1>6, <1>7, <1>9 DEF ShareInv

\* The inductive invariant of the shares holds for any number of pools and
\* shares, with and without --lowmem.
THEOREM ShareInvariant == Spec => []ShareInv
<1>1. ShareInv /\ [Next]_vars => ShareInv'
  BY NextSInv, NextCount DEF ShareInv, SInv
<1> QED BY <1>1, InitShareInv, PTL DEF Spec

\* Every share is counted once, when its record is freed.
THEOREM CountedOnceHolds == Spec => []CountedOnce
<1>1. ShareInv => CountedOnce
  BY DEF ShareInv
<1> QED BY <1>1, ShareInvariant, PTL

\* A connection is kept while the answer to a share in the table is awaited.
THEOREM AwaitedIsCountedHolds == Spec => []AwaitedIsCounted
<1>1. ShareInv => AwaitedIsCounted
  BY DEF ShareInv
<1> QED BY <1>1, ShareInvariant, PTL

=============================================================================
