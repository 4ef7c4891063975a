----------------------------- MODULE GekkoWork -----------------------------
(***************************************************************************)
(* The work of one GekkoScience stick with BM1397 chips (driver-gekko.c),  *)
(* from the thread that fetches it to the nonce that is submitted for it.  *)
(*                                                                         *)
(*   hash      hash_queued_work keeps cgpu->unqueued_work filled           *)
(*   mine      compac_mine2 takes it, puts it into the ring info->work     *)
(*             under the next job_id, sends it as a task, and completes    *)
(*             the work the ring held there before                         *)
(*   listener  compac_listen2 appends the nonces of the chips to nstore    *)
(*   nonce     compac_gsfak_nonce_que looks the work of a nonce up in the  *)
(*             ring, by the job id the chip reports and then, because that *)
(*             may be wrong, by the ids of the last few tasks              *)
(*   restart   restart_thread drops the unqueued work at a new block       *)
(*                                                                         *)
(* mine changes the ring and job_id without a lock; it holds info->lock    *)
(* only to complete work, and nonce holds it while it looks at work.  A    *)
(* section under qlock is one step.  Midstates, tickets, hash rates and    *)
(* the states of the chips other than mining are left out: whether mine    *)
(* may send, and whether a task reaches the chips, is always open.         *)
(***************************************************************************)
EXTENDS Integers, Sequences

CONSTANTS
    Works,          \* addresses of struct work; bounds how many exist at once
    NoWork,         \* a null pointer
    Restarters,     \* restart threads that may run at once
    min_job_id, max_job_id,     \* in units of add_job_id, which is 4
    Attempts,       \* CUR_ATTEMPT_1397: how many of the last tasks are tried
    MaxNonces       \* bound: nonces waiting in nstore

ASSUME NoWorkAssumption == NoWork \notin Works
ASSUME JobAssumption == min_job_id \in Nat /\ max_job_id \in Nat /\ min_job_id < max_job_id
ASSUME BoundsAssumption == Attempts \in Nat \ {0} /\ MaxNonces \in Nat

VARIABLES
    live,           \* of each address: "free", "fresh" or "stale" work
    hashing,        \* the local work of fill_queue
    unqueued_work,
    queued_work,
    flushing,       \* the local work of flush_queue, of each restart thread
    ring, job_id,   \* info->work, info->job_id
    mine, new, old_work,    \* where compac_mine2 is, and its locals
    recent,         \* the job ids given to the last tasks, newest first
    sent,           \* those of them the chips may answer for
    nstore,         \* nonces read and not looked at
    nonce, item, try, found \* where the nonce thread is, and its locals

hashVars == <<hashing, unqueued_work>>
mineVars == <<ring, job_id, mine, new, old_work, recent, sent>>
nonceVars == <<nonce, item, try, found>>
vars == <<live, hashVars, queued_work, flushing, mineVars, nstore, nonceVars>>

Pointers == Works \cup {NoWork}
Slots == 0 .. max_job_id

\* A nonce: the work that it solves (NoWork once that is freed) and the job id
\* that the chip reports with it
Nonces == [of : Pointers, id : Slots]

NoNonce == [of |-> NoWork, id |-> 0]

Unused == {w \in Works : live[w] = "free"}

\* free_work, after which no nonce fits what is at that address
Forget(n, w) == IF n.of = w THEN [n EXCEPT !.of = NoWork] ELSE n
free_work(w) ==
    /\ live' = [live EXCEPT ![w] = "free"]
    /\ nstore' = [i \in DOMAIN nstore |-> Forget(nstore[i], w)]
    /\ item' = Forget(item, w)

\* info->lock is held by the nonce thread; mine takes it in one step
InfoLocked == nonce \in {"look", "test", "dump"}

---------------------------------------------------------------------------
(* The job ids *)

Span == max_job_id + 1 - min_job_id

\* 2^32 / add_job_id % Span, of the uint32_t arithmetic of JOB_ID_ROLL
WordModSpan == ((32768 % Span) * (32768 % Span)) % Span

\* JOB_ID_ROLL(jid, -back, info).  The difference is unsigned: below zero it
\* is 2^32 more.
JOB_ID_ROLL(jid, back) ==
    LET diff == jid - back - min_job_id IN
    min_job_id + (IF diff < 0 THEN (WordModSpan + diff) % Span ELSE diff % Span)

\* The slot of the ring the nonce thread looks at: that of the reported id at
\* first, then cur_attempt_1397[try - 1] behind the id of the newest task
Slot == IF try = 0 THEN item.id ELSE JOB_ID_ROLL(job_id, try - 1)

---------------------------------------------------------------------------
TypeOK ==
    /\ live \in [Works -> {"free", "fresh", "stale"}]
    /\ hashing \in Pointers /\ unqueued_work \in Pointers
    /\ queued_work \subseteq Works
    /\ flushing \in [Restarters -> Pointers]
    /\ ring \in [Slots -> Pointers]
    /\ job_id \in 0 .. (max_job_id + 1)
    /\ mine \in {"top", "bump", "roll", "place", "send"}
    /\ new \in Pointers /\ old_work \in Pointers
    /\ recent \in Seq(Slots) /\ sent \subseteq Slots
    /\ nstore \in Seq(Nonces)
    /\ nonce \in {"idle", "start", "look", "test", "dump", "submit"}
    /\ item \in Nonces
    /\ try \in 0 .. (Attempts + 1)
    /\ found \in Pointers

Init ==
    /\ live = [w \in Works |-> "free"]
    /\ hashing = NoWork /\ unqueued_work = NoWork /\ queued_work = {}
    /\ flushing = [r \in Restarters |-> NoWork]
    /\ ring = [j \in Slots |-> NoWork] /\ job_id = 0
    /\ mine = "top" /\ new = NoWork /\ old_work = NoWork
    /\ recent = <<>> /\ sent = {}
    /\ nstore = <<>>
    /\ nonce = "idle" /\ item = NoNonce /\ try = 0 /\ found = NoWork

---------------------------------------------------------------------------
(* hash: fill_queue.  The queue of this driver is never full *)

\* need_work is read without a lock, and get_work returns after a while
Fetch ==
    /\ hashing = NoWork /\ unqueued_work = NoWork
    /\ \E w \in Unused : hashing' = w /\ live' = [live EXCEPT ![w] = "fresh"]
    /\ UNCHANGED <<unqueued_work, queued_work, flushing, mineVars, nstore, nonceVars>>

\* Only this thread fills unqueued_work, so that it is still empty when it is
\* looked at again under qlock; else the new work would be discarded.
Offer ==
    /\ hashing # NoWork
    /\ unqueued_work' = hashing /\ hashing' = NoWork
    /\ UNCHANGED <<live, queued_work, flushing, mineVars, nstore, nonceVars>>

---------------------------------------------------------------------------
(* restart: flush_queue, and what makes work stale *)

\* wr_trylock succeeded
FlushTake(r) ==
    /\ flushing[r] = NoWork /\ unqueued_work # NoWork
    /\ flushing' = [flushing EXCEPT ![r] = unqueued_work]
    /\ unqueued_work' = NoWork
    /\ UNCHANGED <<live, hashing, queued_work, mineVars, nstore, nonceVars>>

FlushFree(r) ==
    /\ flushing[r] # NoWork
    /\ flushing' = [flushing EXCEPT ![r] = NoWork]
    /\ free_work(flushing[r])
    /\ UNCHANGED <<hashVars, queued_work, mineVars, nonce, try, found>>

\* A new block, or a pool is lost; work that was queued is not asked again
Outdate ==
    /\ \E w \in Works : live[w] = "fresh" /\ w \notin queued_work
    /\ live' = [w \in Works |-> IF live[w] = "fresh" /\ w \notin queued_work
                                THEN "stale" ELSE live[w]]
    /\ UNCHANGED <<hashVars, queued_work, flushing, mineVars, nstore, nonceVars>>

---------------------------------------------------------------------------
(* mine: compac_mine2 *)

\* Mutant: the work is completed without info->lock.
Complete_unlocked ==
    /\ mine = "top" /\ old_work # NoWork
    /\ queued_work' = queued_work \ {old_work}
    /\ old_work' = NoWork
    /\ free_work(old_work)
    /\ UNCHANGED <<hashVars, flushing, ring, job_id, mine, new, recent, sent, nonce, try, found>>

\* work_completed, under info->lock
Complete ==
    /\ mine = "top" /\ old_work # NoWork /\ ~InfoLocked
    /\ queued_work' = queued_work \ {old_work}
    /\ old_work' = NoWork
    /\ free_work(old_work)
    /\ UNCHANGED <<hashVars, flushing, ring, job_id, mine, new, recent, sent, nonce, try, found>>

\* get_queued, when the loop gets to it
GetQueued ==
    /\ mine = "top" /\ old_work = NoWork
    /\ unqueued_work # NoWork /\ live[unqueued_work] = "fresh"
    /\ new' = unqueued_work /\ unqueued_work' = NoWork
    /\ queued_work' = queued_work \cup {unqueued_work}
    /\ mine' = "bump"
    /\ UNCHANGED <<live, hashing, flushing, ring, job_id, old_work, recent, sent, nstore, nonceVars>>

\* __get_queued finds it stale: there is no work this time
GetStale ==
    /\ mine = "top" /\ old_work = NoWork
    /\ unqueued_work # NoWork /\ live[unqueued_work] = "stale"
    /\ unqueued_work' = NoWork
    /\ free_work(unqueued_work)
    /\ UNCHANGED <<hashing, queued_work, flushing, mineVars, nonce, try, found>>

\* info->job_id += info->add_job_id
Bump ==
    /\ mine = "bump"
    /\ job_id' = job_id + 1
    /\ mine' = IF job_id' > max_job_id THEN "roll" ELSE "place"
    /\ UNCHANGED <<live, hashVars, queued_work, flushing, ring, new, old_work, recent, sent, nstore, nonceVars>>

Roll ==
    /\ mine = "roll" /\ mine' = "place"
    /\ job_id' = min_job_id
    /\ UNCHANGED <<live, hashVars, queued_work, flushing, ring, new, old_work, recent, sent, nstore, nonceVars>>

\* Mutant: the slot is read after it was written.
Place_swapped ==
    /\ mine = "place" /\ mine' = "send"
    /\ old_work' = new
    /\ ring' = [ring EXCEPT ![job_id] = new]
    /\ new' = NoWork
    /\ recent' = <<job_id>> \o SubSeq(recent, 1, IF Len(recent) < Attempts THEN Len(recent)
                                                                    ELSE Attempts - 1)
    /\ sent' = (sent \ {job_id}) \cap {recent'[i] : i \in DOMAIN recent'}
    /\ UNCHANGED <<live, hashVars, queued_work, flushing, job_id, nstore, nonceVars>>

\* The work joins the ring; what it displaces is completed in the next turn.
Place ==
    /\ mine = "place" /\ mine' = "send"
    /\ old_work' = ring[job_id]
    /\ ring' = [ring EXCEPT ![job_id] = new]
    /\ new' = NoWork
    /\ recent' = <<job_id>> \o SubSeq(recent, 1, IF Len(recent) < Attempts THEN Len(recent)
                                                                    ELSE Attempts - 1)
    /\ sent' = (sent \ {job_id}) \cap {recent'[i] : i \in DOMAIN recent'}
    /\ UNCHANGED <<live, hashVars, queued_work, flushing, job_id, nstore, nonceVars>>

\* usb_write: the task is sent; or it is cut short, or full of 0xff while
\* duplicates are reported; or it fails, and the chips are reset
Send ==
    /\ mine = "send" /\ mine' = "top"
    /\ sent' \in {sent \cup {job_id}, sent, {}}
    /\ UNCHANGED <<live, hashVars, queued_work, flushing, ring, job_id, new, old_work, recent, nstore, nonceVars>>

MineStep == Complete \/ GetQueued \/ GetStale \/ Bump \/ Roll \/ Place \/ Send

---------------------------------------------------------------------------
(* The chips with the listener, and nonce: compac_gsf_nonce *)

\* A chip solves one of its tasks, and reports it with an id that may be wrong;
\* or the bytes that were read are no answer to any task, and tried as a nonce
\* all the same.
Listen ==
    /\ Len(nstore) < MaxNonces
    /\ \E w \in {ring[j] : j \in sent} \cup {NoWork}, i \in Slots :
        nstore' = Append(nstore, [of |-> w, id |-> i])
    /\ UNCHANGED <<live, hashVars, queued_work, flushing, mineVars, nonceVars>>

TakeNonce ==
    /\ nonce = "idle" /\ nstore # <<>>
    /\ item' = Head(nstore) /\ nstore' = Tail(nstore)
    /\ nonce' = "start" /\ try' = 0
    /\ UNCHANGED <<live, hashVars, queued_work, flushing, mineVars, found>>

\* The nonce is dealt with, and its item returned to nlist.
NonceDone == nonce' = "idle" /\ item' = NoNonce /\ try' = 0 /\ found' = NoWork

\* The chip reported this nonce before.
Duplicate ==
    /\ nonce = "start" /\ NonceDone
    /\ UNCHANGED <<live, hashVars, queued_work, flushing, mineVars, nstore>>

LockInfo ==
    /\ nonce = "start" /\ nonce' = "look"
    /\ UNCHANGED <<live, hashVars, queued_work, flushing, mineVars, nstore, item, try, found>>

\* work = info->work[w_job_id]
Look ==
    /\ nonce = "look" /\ nonce' = "test"
    /\ found' = ring[Slot]
    /\ UNCHANGED <<live, hashVars, queued_work, flushing, mineVars, nstore, item, try>>

\* test_nonce_value succeeds: unlock
TestRight ==
    /\ nonce = "test" /\ found # NoWork /\ found = item.of
    /\ nonce' = "submit"
    /\ UNCHANGED <<live, hashVars, queued_work, flushing, mineVars, nstore, item, try, found>>

\* Mutant: the last attempt is not made.
TestWrong_short ==
    /\ nonce = "test" /\ (found = NoWork \/ found # item.of)
    /\ try' = try + 1 /\ found' = NoWork
    /\ nonce' = IF try + 1 < Attempts THEN "look" ELSE "dump"
    /\ UNCHANGED <<live, hashVars, queued_work, flushing, mineVars, nstore, item>>

\* found is set again before it is used again
TestWrong ==
    /\ nonce = "test" /\ (found = NoWork \/ found # item.of)
    /\ try' = try + 1 /\ found' = NoWork
    /\ nonce' = IF try < Attempts THEN "look" ELSE "dump"
    /\ UNCHANGED <<live, hashVars, queued_work, flushing, mineVars, nstore, item>>

\* No work fits: a hardware error is counted
Dump ==
    /\ nonce = "dump" /\ NonceDone
    /\ UNCHANGED <<live, hashVars, queued_work, flushing, mineVars, nstore>>

\* submit_nonce, after info->lock was given up
Submit ==
    /\ nonce = "submit" /\ NonceDone
    /\ UNCHANGED <<live, hashVars, queued_work, flushing, mineVars, nstore>>

NonceStep ==
    TakeNonce \/ Duplicate \/ LockInfo \/ Look \/ TestRight \/ TestWrong \/ Dump \/ Submit

Next ==
    \/ Fetch \/ Offer
    \/ \E r \in Restarters : FlushTake(r) \/ FlushFree(r)
    \/ Outdate
    \/ MineStep
    \/ Listen \/ NonceStep

Spec == Init /\ [][Next]_vars

---------------------------------------------------------------------------
\* Work in the ring, and work outside the queue
InRing == {ring[j] : j \in Slots} \ {NoWork}
InHand == ({hashing, unqueued_work} \cup {flushing[r] : r \in Restarters}) \ {NoWork}

\* Every piece of work is in exactly one place from get_work to free_work,
\* although four threads pass it on and two of them take no common lock: none
\* is leaked or freed twice, and work_completed takes from queued_work only
\* what is in it.
WorkOwned ==
    /\ \A w \in Works : live[w] # "free" <=> w \in queued_work \cup InHand
    /\ queued_work \cap InHand = {}
    /\ queued_work = InRing \cup ({new, old_work} \ {NoWork})
    /\ new \notin InRing /\ old_work \notin InRing
    /\ \A i, j \in Slots : ring[i] = ring[j] /\ ring[i] # NoWork => i = j
    /\ hashing # NoWork => unqueued_work = NoWork
    /\ \A r \in Restarters : flushing[r] # NoWork =>
          /\ flushing[r] \notin {hashing, unqueued_work}
          /\ \A s \in Restarters \ {r} : flushing[r] # flushing[s]

\* The work the nonce thread looks at under info->lock is not freed under its
\* hands, although mine may take it out of the ring meanwhile.
NonceWorkLive == nonce = "test" /\ found # NoWork => live[found] # "free" /\ found \in queued_work

\* The locals of mine are set where its code uses them, job_id is that of a slot
\* except between its two assignments, and only so many attempts are made.
MineMatches ==
    /\ new # NoWork <=> mine \in {"bump", "roll", "place"}
    /\ old_work # NoWork => mine \in {"top", "send"}
    /\ job_id > max_job_id <=> mine = "roll"
    /\ nonce = "start" => try = 0
    /\ nonce \in {"look", "test"} => try <= Attempts

\* The inductive invariant
GekkoInv == TypeOK /\ MineMatches /\ WorkOwned /\ NonceWorkLive

\* The work of the last tasks, counted back from job_id
Counted == IF mine \in {"roll", "place"} THEN Attempts - 1 ELSE Attempts
LastWork == {ring[recent[i]] : i \in {k \in DOMAIN recent : k <= Counted}} \ {NoWork}

\* Their ids are consecutive: job_id was not set back to min_job_id among them.
NotRolled ==
    /\ mine # "roll" /\ recent # <<>> => job_id >= recent[1]
    /\ \A i \in DOMAIN recent : recent[i] >= min_job_id /\ recent[i] = recent[1] - (i - 1)

\* A nonce with a wrong job id is dumped as a hardware error only if its work
\* is not that of one of the last tasks, even though mine moves job_id on while
\* the nonce thread tries one after the other; that is, as long as job_id was
\* not set back to min_job_id among them.
RecoveredUnlessRolled == nonce = "dump" /\ NotRolled => item.of \notin LastWork

\* The newest id is job_id until that is increased, or set back at its maximum.
JobMatches == recent # <<>> =>
    /\ mine \in {"top", "bump", "send"} => job_id = recent[1]
    /\ mine = "roll" => job_id = recent[1] + 1
    /\ mine = "place" => \/ job_id = recent[1] + 1
                         \/ job_id = min_job_id /\ recent[1] = max_job_id

\* The work of a nonce is in the ring, or what mine took out of it last.
InRingOrOld(w) == w = NoWork \/ w = old_work \/ \E j \in Slots : w = ring[j]
OfInRing == InRingOrOld(item.of) /\ \A k \in DOMAIN nstore : InRingOrOld(nstore[k].of)

\* NotRolled of the newest i tasks alone
NotRolledTo(i) ==
    /\ mine # "roll" => job_id >= recent[1]
    /\ \A j \in 1 .. i : recent[j] >= min_job_id /\ recent[j] = recent[1] - (j - 1)

\* The id jid is less than all the nonce thread has tried.
BehindTries(jid) ==
    /\ nonce = "look" /\ try > 0 => jid <= job_id - (try - 1)
    /\ nonce = "test" /\ try > 0 /\ found # item.of => jid <= job_id - try
    /\ nonce = "dump" => jid <= job_id - Attempts

\* The tries go back from job_id, which only moves away from the ids of the
\* tasks sent before: they cannot have passed the task of the nonce.
NotPassed == \A i \in DOMAIN recent :
    NotRolledTo(i) /\ item.of # NoWork /\ ring[recent[i]] = item.of => BehindTries(recent[i])

\* The inductive invariant of the search
LookupInv == GekkoInv /\ JobMatches /\ OfInRing /\ NotPassed

=============================================================================
