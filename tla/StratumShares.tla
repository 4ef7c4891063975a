--------------------------- MODULE StratumShares ---------------------------
(***************************************************************************)
(* The shares submitted to stratum pools.  For each pool stratum_sthread   *)
(* sends them and enters them in the table stratum_shares, stratum_rthread *)
(* reads the answers and takes them out, and watchpool_thread prunes those *)
(* that were never answered.  pool->sshares counts the entries, and        *)
(* cnx_needed keeps the connection open while it is not zero.              *)
(*                                                                         *)
(* A section under sshare_lock or stratum_lock is one step.  stratum_q is  *)
(* taken as a set: the order shares are sent in matters to nothing here.   *)
(* Each thread of a pool other than these is an environment that disables, *)
(* enables, selects or removes the pool.  Messages other than the answers  *)
(* to shares, share differences and the logs are left out.                 *)
(***************************************************************************)
EXTENDS Integers, FiniteSets

CONSTANTS
    Pools,      \* stratum pools with their two threads; there may be others
    Shares,     \* bound: the shares that are ever found
    NoShare,
    opt_lowmem

ASSUME SharesAssumption == IsFiniteSet(Shares) /\ NoShare \notin Shares
ASSUME LowmemAssumption == opt_lowmem \in BOOLEAN

VARIABLES
    share,      \* where each share is; "tracked" is stratum_shares
    pool,       \* work->pool
    old,        \* more than 120 seconds have passed since sshare_time
    session,    \* work->nonce1 is still pool->nonce1
    answer,     \* whether the pool will answer on the connection it came by
    answered, untracked, stale,     \* how often each share was counted as such
    sshares,    \* pool->sshares
    active,     \* pool->stratum_active
    resume,     \* supports_resume(pool): it gave a session id
    demand,     \* whether something else than sshares needs the connection
    removed,    \* pool->removed
    sthread, held,  \* where stratum_sthread is, and the share it holds
    rthread     \* where stratum_rthread is

countVars == <<answered, untracked, stale>>
poolVars == <<active, resume, demand, removed>>
vars == <<share, pool, old, session, answer, countVars, sshares, poolVars, sthread, held, rthread>>

SharesOf(p) == {s \in Shares : share[s] # "none" /\ pool[s] = p}

\* The entries of stratum_shares that belong to the pool
Tracked(p) == {s \in Shares : share[s] = "tracked" /\ pool[s] = p}

\* cnx_needed.  "none": the pool is not enabled; "wanted": it is current, or
\* preferred to the current one, or idle, or all pools or any pool are needed.
cnx_needed(p) == demand[p] = "wanted" \/ (demand[p] = "enabled" /\ sshares[p] # 0)

---------------------------------------------------------------------------
Init ==
    /\ share = [s \in Shares |-> "none"]
    /\ pool \in [Shares -> Pools]
    /\ old = [s \in Shares |-> FALSE]
    /\ session = [s \in Shares |-> TRUE]
    /\ answer = [s \in Shares |-> "none"]
    /\ answered = [s \in Shares |-> 0]
    /\ untracked = [s \in Shares |-> 0]
    /\ stale = [s \in Shares |-> 0]
    /\ sshares = [p \in Pools |-> 0]
    /\ active = [p \in Pools |-> TRUE]
    /\ resume \in [Pools -> BOOLEAN]
    /\ demand = [p \in Pools |-> "wanted"]
    /\ removed = [p \in Pools |-> FALSE]
    /\ sthread = [p \in Pools |-> "top"]
    /\ held = [p \in Pools |-> NoShare]
    /\ rthread = [p \in Pools |-> "top"]

---------------------------------------------------------------------------
(* What the threads share *)

\* The connection is closed: what the pool has not answered yet is lost.
Unanswered(p) ==
    answer' = [s \in Shares |-> IF pool[s] = p /\ answer[s] = "due" THEN "lost" ELSE answer[s]]

\* suspend_stratum
suspend_stratum(p) == active' = [active EXCEPT ![p] = FALSE] /\ Unanswered(p)

\* clear_stratum_shares
clear_stratum_shares(p) ==
    LET mine == Tracked(p) IN
    /\ share' = [s \in Shares |-> IF s \in mine THEN "freed" ELSE share[s]]
    /\ stale' = [s \in Shares |-> IF s \in mine THEN stale[s] + 1 ELSE stale[s]]
    /\ sshares' = [sshares EXCEPT ![p] = @ - Cardinality(mine)]

\* The share is given up: it is freed and counted as stale.
Discard(s) ==
    /\ share' = [share EXCEPT ![s] = "freed"]
    /\ stale' = [stale EXCEPT ![s] = @ + 1]

---------------------------------------------------------------------------
(* The miners: submit_work_async *)

\* A share is found for the pool.  If its work is stale it is discarded, else
\* pushed on stratum_q; the queue of a removed pool is frozen and takes none.
submit_work_async(s) ==
    /\ share[s] = "none"
    /\ \/ share' = [share EXCEPT ![s] = IF sthread[pool[s]] = "exit" THEN "dropped" ELSE "queued"]
          /\ UNCHANGED stale
       \/ Discard(s)
    /\ session' \in {session, [session EXCEPT ![s] = FALSE]}
    /\ UNCHANGED <<pool, old, answer, answered, untracked, sshares, poolVars, sthread, held, rthread>>

---------------------------------------------------------------------------
(* stratum_sthread *)

\* The top of the loop: leave if the pool was removed, and freeze the queue.
SendTop(p) ==
    /\ sthread[p] = "top"
    /\ sthread' = [sthread EXCEPT ![p] = IF removed[p] THEN "exit" ELSE "pop"]
    /\ UNCHANGED <<share, pool, old, session, answer, countVars, sshares, poolVars, held, rthread>>

\* tq_pop.  A share that repeats the one before it is filtered out, as is one
\* whose nonce2 is too long.
PopShare(p) ==
    /\ sthread[p] = "pop"
    /\ \E s \in SharesOf(p) :
        /\ share[s] = "queued"
        /\ \/ /\ share' = [share EXCEPT ![s] = "dropped"]
              /\ sthread' = [sthread EXCEPT ![p] = "top"]
              /\ UNCHANGED held
           \/ /\ share' = [share EXCEPT ![s] = "sending"]
              /\ sthread' = [sthread EXCEPT ![p] = "send"]
              /\ held' = [held EXCEPT ![p] = s]
    /\ UNCHANGED <<pool, old, session, answer, countVars, sshares, poolVars, rthread>>

\* stratum_send succeeds: the pool may answer from here on.
SendOk(p) ==
    /\ sthread[p] = "send" /\ ~old[held[p]] /\ active[p]
    /\ answer' = [answer EXCEPT ![held[p]] = "due"]
    /\ sthread' = [sthread EXCEPT ![p] = "track"]
    /\ UNCHANGED <<share, pool, old, session, countVars, sshares, poolVars, held, rthread>>

\* stratum_send fails, and closes the connection if it was open.
SendFails(p) ==
    /\ sthread[p] = "send" /\ ~old[held[p]]
    /\ sthread' = [sthread EXCEPT ![p] = "failed"]
    /\ IF active[p] THEN suspend_stratum(p) ELSE UNCHANGED <<active, answer>>
    /\ UNCHANGED <<share, pool, old, session, countVars, sshares, resume, demand, removed, held, rthread>>

\* It is tried again after five seconds while the session is the same, ...
Retry(p) ==
    /\ sthread[p] = "failed" /\ ~opt_lowmem /\ session[held[p]]
    /\ sthread' = [sthread EXCEPT ![p] = "send"]
    /\ UNCHANGED <<share, pool, old, session, answer, countVars, sshares, poolVars, held, rthread>>

\* ... and given up when it is not, or when two minutes have passed.
GiveUp(p) ==
    /\ \/ sthread[p] = "failed" /\ (opt_lowmem \/ ~session[held[p]])
       \/ sthread[p] = "send" /\ old[held[p]]
    /\ Discard(held[p])
    /\ sthread' = [sthread EXCEPT ![p] = "top"]
    /\ held' = [held EXCEPT ![p] = NoShare]
    /\ UNCHANGED <<pool, old, session, answer, answered, untracked, sshares, poolVars, rthread>>

\* The share that was sent is entered in stratum_shares.
Track(p) ==
    /\ sthread[p] = "track"
    /\ share' = [share EXCEPT ![held[p]] = "tracked"]
    /\ sshares' = [sshares EXCEPT ![p] = @ + 1]
    /\ sthread' = [sthread EXCEPT ![p] = "top"]
    /\ held' = [held EXCEPT ![p] = NoShare]
    /\ UNCHANGED <<pool, old, session, answer, countVars, poolVars, rthread>>

SendStep(p) == SendTop(p) \/ PopShare(p) \/ SendOk(p) \/ SendFails(p) \/ Retry(p) \/ GiveUp(p) \/ Track(p)

---------------------------------------------------------------------------
(* stratum_rthread *)

RecvGoes(p, from, to) == rthread[p] = from /\ rthread' = [rthread EXCEPT ![p] = to]

\* The top of the loop: the pool was removed.
RecvRemoved(p) ==
    /\ RecvGoes(p, "top", "exit") /\ removed[p]
    /\ suspend_stratum(p)
    /\ UNCHANGED <<share, pool, old, session, countVars, sshares, resume, demand, removed, sthread, held>>

\* No answer has arrived and the connection is not needed (sshares is read
\* without a lock): close it, ...
Unneeded(p) ==
    /\ RecvGoes(p, "top", "idle") /\ ~removed[p] /\ ~cnx_needed(p)
    /\ UNCHANGED <<share, pool, old, session, answer, countVars, sshares, poolVars, sthread, held>>

IdleSuspend(p) ==
    /\ RecvGoes(p, "idle", "clear")
    /\ suspend_stratum(p)
    /\ UNCHANGED <<share, pool, old, session, countVars, sshares, resume, demand, removed, sthread, held>>

\* ... forget what was sent over it and wait in wait_lpcurrent ...
IdleClear(p) ==
    /\ RecvGoes(p, "clear", "parked")
    /\ clear_stratum_shares(p)
    /\ UNCHANGED <<pool, old, session, answer, answered, untracked, poolVars, sthread, held>>

\* ... until it is needed again.
Unpark(p) ==
    /\ RecvGoes(p, "parked", "restart") /\ cnx_needed(p)
    /\ UNCHANGED <<share, pool, old, session, answer, countVars, sshares, poolVars, sthread, held>>

\* Mutant: the count is lowered for every answer.
parse_stratum_response_uncounted(p, s) ==
    /\ rthread[p] = "top" /\ ~removed[p]
    /\ answer[s] = "due" /\ pool[s] = p
    /\ answer' = [answer EXCEPT ![s] = "read"]
    /\ sshares' = [sshares EXCEPT ![p] = @ - 1]
    /\ IF share[s] = "tracked"
          THEN /\ share' = [share EXCEPT ![s] = "freed"]
               /\ answered' = [answered EXCEPT ![s] = @ + 1]
               /\ UNCHANGED untracked
          ELSE /\ untracked' = [untracked EXCEPT ![s] = @ + 1]
               /\ UNCHANGED <<share, answered>>
    /\ UNCHANGED <<pool, old, session, stale, poolVars, sthread, held, rthread>>

\* parse_stratum_response, and stratum_share_result or the count of an
\* untracked share
parse_stratum_response(p, s) ==
    /\ rthread[p] = "top" /\ ~removed[p]
    /\ answer[s] = "due" /\ pool[s] = p
    /\ answer' = [answer EXCEPT ![s] = "read"]
    /\ IF share[s] = "tracked"
          THEN /\ share' = [share EXCEPT ![s] = "freed"]
               /\ sshares' = [sshares EXCEPT ![p] = @ - 1]
               /\ answered' = [answered EXCEPT ![s] = @ + 1]
               /\ UNCHANGED untracked
          ELSE /\ untracked' = [untracked EXCEPT ![s] = @ + 1]
               /\ UNCHANGED <<share, sshares, answered>>
    /\ UNCHANGED <<pool, old, session, stale, poolVars, sthread, held, rthread>>

\* No line: the connection is closed by recv_line, or silent for too long.
Interrupted(p) ==
    /\ RecvGoes(p, "top", "lost") /\ ~removed[p]
    /\ \/ suspend_stratum(p)
       \/ UNCHANGED <<active, answer>>
    /\ UNCHANGED <<share, pool, old, session, countVars, sshares, resume, demand, removed, sthread, held>>

\* The shares are cleared unless the session may be resumed.
LostClear(p) ==
    /\ RecvGoes(p, "lost", "restart")
    /\ IF ~resume[p] \/ opt_lowmem THEN clear_stratum_shares(p) ELSE UNCHANGED <<share, stale, sshares>>
    /\ UNCHANGED <<pool, old, session, answer, answered, untracked, poolVars, sthread, held>>

Renounced(p) == [s \in Shares |-> session[s] /\ pool[s] # p]

\* restart_stratum: what is left of the connection is closed, and
\* initiate_stratum fails.  It forgets the session if the pool refused it.
InitiateFails(p) ==
    /\ RecvGoes(p, "restart", IF removed[p] THEN "exit" ELSE "restart")
    /\ suspend_stratum(p)
    /\ \/ UNCHANGED <<resume, session>>
       \/ resume' = [resume EXCEPT ![p] = FALSE] /\ session' = Renounced(p)
    /\ UNCHANGED <<share, pool, old, countVars, sshares, demand, removed, sthread, held>>

\* initiate_stratum succeeds, with the nonce1 of the session or another one.
InitiateOk(p) ==
    /\ RecvGoes(p, "restart", "auth")
    /\ Unanswered(p)
    /\ active' = [active EXCEPT ![p] = TRUE]
    /\ \E r \in BOOLEAN : resume' = [resume EXCEPT ![p] = r]
    /\ session' \in {session, Renounced(p)}
    /\ UNCHANGED <<share, pool, old, countVars, sshares, demand, removed, sthread, held>>

\* auth_stratum takes the next answer for that of its own request, even if it
\* is that of a share sent since.
AuthAnswer(p) ==
    \/ UNCHANGED answer
    \/ \E s \in SharesOf(p) : answer[s] = "due" /\ answer' = [answer EXCEPT ![s] = "lost"]

AuthOk(p) ==
    /\ RecvGoes(p, "auth", "top") /\ active[p]
    /\ AuthAnswer(p)
    /\ UNCHANGED <<share, pool, old, session, countVars, sshares, poolVars, sthread, held>>

\* Refused, closed, or no answer in time: then stratum_active is left alone.
AuthFails(p) ==
    /\ RecvGoes(p, "auth", IF removed[p] THEN "exit" ELSE "restart")
    /\ \/ suspend_stratum(p)
       \/ UNCHANGED <<active, answer>>
    /\ UNCHANGED <<share, pool, old, session, countVars, sshares, resume, demand, removed, sthread, held>>

RecvStep(p) ==
    \/ RecvRemoved(p) \/ Unneeded(p) \/ IdleSuspend(p) \/ IdleClear(p) \/ Unpark(p)
    \/ \E s \in Shares : parse_stratum_response(p, s)
    \/ Interrupted(p) \/ LostClear(p) \/ InitiateFails(p) \/ InitiateOk(p)
    \/ AuthOk(p) \/ AuthFails(p)

---------------------------------------------------------------------------
(* watchpool_thread, the clock, and whatever else changes a pool *)

\* Mutant: only pools that are connected are pruned.
prune_stratum_shares_connected(p) ==
    LET late == {s \in Tracked(p) : old[s]} IN
    /\ late # {} /\ ~removed[p] /\ active[p]
    /\ share' = [s \in Shares |-> IF s \in late THEN "freed" ELSE share[s]]
    /\ stale' = [s \in Shares |-> IF s \in late THEN stale[s] + 1 ELSE stale[s]]
    /\ UNCHANGED <<pool, old, session, answer, answered, untracked, sshares, poolVars, sthread, held, rthread>>

\* Mutant: the shares that are pruned stay in the table.
prune_stratum_shares_kept(p) ==
    LET late == {s \in Tracked(p) : old[s] /\ stale[s] < 2} IN
    /\ late # {} /\ ~removed[p]
    /\ stale' = [s \in Shares |-> IF s \in late THEN stale[s] + 1 ELSE stale[s]]
    /\ UNCHANGED <<share, pool, old, session, answer, answered, untracked, sshares, poolVars, sthread, held, rthread>>

\* prune_stratum_shares, of each pool in the list of pools.  pool->sshares is
\* not lowered.
prune_stratum_shares(p) ==
    LET late == {s \in Tracked(p) : old[s]} IN
    /\ late # {} /\ ~removed[p]
    /\ share' = [s \in Shares |-> IF s \in late THEN "freed" ELSE share[s]]
    /\ stale' = [s \in Shares |-> IF s \in late THEN stale[s] + 1 ELSE stale[s]]
    /\ UNCHANGED <<pool, old, session, answer, answered, untracked, sshares, poolVars, sthread, held, rthread>>

\* Two minutes have passed since stratum_sthread took the share.
Age(s) ==
    /\ share[s] \in {"sending", "tracked"} /\ ~old[s]
    /\ old' = [old EXCEPT ![s] = TRUE]
    /\ UNCHANGED <<share, pool, session, answer, countVars, sshares, poolVars, sthread, held, rthread>>

\* The pool is selected or left, enabled, disabled or found to be rejecting.
Environment(p) ==
    /\ ~removed[p]
    /\ \E d \in {"none", "enabled", "wanted"} : demand' = [demand EXCEPT ![p] = d]
    /\ UNCHANGED <<share, pool, old, session, answer, countVars, sshares, active, resume, removed, sthread, held, rthread>>

\* remove_pool, of a pool that was disabled before.  The last one stays: there
\* are other pools, of Pools or not.
remove_pool(p) ==
    /\ ~removed[p]
    /\ removed' = [removed EXCEPT ![p] = TRUE]
    /\ demand' = [demand EXCEPT ![p] = "none"]
    /\ UNCHANGED <<share, pool, old, session, answer, countVars, sshares, active, resume, sthread, held, rthread>>

---------------------------------------------------------------------------
Next ==
    \/ \E s \in Shares : submit_work_async(s) \/ Age(s)
    \/ \E p \in Pools :
        SendStep(p) \/ RecvStep(p) \/ prune_stratum_shares(p) \/ Environment(p) \/ remove_pool(p)

Spec == Init /\ [][Next]_vars

\* stratum_sthread runs, the watchpool comes round every five seconds and time
\* passes.  Nothing is asked of the pool, nor of stratum_rthread.
FairSpec ==
    /\ Spec
    /\ \A p \in Pools : WF_vars(SendStep(p)) /\ WF_vars(prune_stratum_shares(p))
    /\ \A s \in Shares : WF_vars(Age(s))

---------------------------------------------------------------------------
TypeOK ==
    /\ share \in [Shares -> {"none", "queued", "sending", "tracked", "freed", "dropped"}]
    /\ pool \in [Shares -> Pools]
    /\ old \in [Shares -> BOOLEAN] /\ session \in [Shares -> BOOLEAN]
    /\ answer \in [Shares -> {"none", "due", "lost", "read"}]
    /\ answered \in [Shares -> Nat] /\ untracked \in [Shares -> Nat] /\ stale \in [Shares -> Nat]
    /\ sshares \in [Pools -> Int]
    /\ active \in [Pools -> BOOLEAN] /\ resume \in [Pools -> BOOLEAN]
    /\ demand \in [Pools -> {"none", "enabled", "wanted"}]
    /\ removed \in [Pools -> BOOLEAN]
    /\ sthread \in [Pools -> {"top", "pop", "send", "failed", "track", "exit"}]
    /\ held \in [Pools -> Shares \cup {NoShare}]
    /\ rthread \in [Pools -> {"top", "idle", "clear", "parked", "lost", "restart", "auth", "exit"}]

\* A share that was submitted is counted exactly once, as answered by its pool
\* or as stale, at the moment its record is freed: whichever of the answer,
\* the disconnection, the prune and the sender comes first, no other can free
\* or count it again, and no answer is counted twice.
CountedOnce ==
    \A s \in Shares :
        /\ answered[s] + stale[s] = IF share[s] = "freed" THEN 1 ELSE 0
        /\ untracked[s] <= 1
        /\ untracked[s] = 1 => answered[s] = 0

\* The share each stratum_sthread works on is its own, and has a pool that
\* may answer only once it was sent.
HeldOwn ==
    \A p \in Pools :
        /\ held[p] # NoShare <=> sthread[p] \in {"send", "failed", "track"}
        /\ held[p] # NoShare => share[held[p]] = "sending" /\ pool[held[p]] = p
        /\ sthread[p] \in {"send", "failed"} => answer[held[p]] = "none"
        /\ sthread[p] = "track" => answer[held[p]] # "none"

SendingHeld == \A s \in Shares : share[s] = "sending" => held[pool[s]] = s

AnswerMatches ==
    \A s \in Shares :
        /\ share[s] \in {"none", "queued", "dropped"} => answer[s] = "none"
        /\ share[s] = "tracked" => answer[s] # "none"
        /\ answer[s] # "read" => answered[s] = 0 /\ untracked[s] = 0
        /\ share[s] # "freed" => answered[s] = 0

\* sshares counts at least the entries of the table, so that cnx_needed never
\* lets go of a connection that answers are awaited from: pool->sshares only
\* reaches zero when the table holds nothing of the pool, although it is
\* changed by the threads of a pool while those of other pools change theirs.
AwaitedIsCounted == \A p \in Pools : sshares[p] >= Cardinality(Tracked(p))

\* The inductive invariant
ShareInv == TypeOK /\ HeldOwn /\ SendingHeld /\ AnswerMatches /\ CountedOnce /\ AwaitedIsCounted

\* Every share that is submitted is settled in the end, whatever the pool and
\* the connection do: no record is kept for ever, unless the pool is removed.
ShareSettled ==
    \A s \in Shares :
        share[s] \in {"queued", "sending", "tracked"} ~> (share[s] \in {"freed", "dropped"} \/ removed[pool[s]])

=============================================================================
