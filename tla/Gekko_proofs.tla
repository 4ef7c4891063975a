---------------------------- MODULE Gekko_proofs ----------------------------
(***************************************************************************)
(* Proofs about a stick: of its work, that GekkoInv and LookupInv are      *)
(* inductive, for any ring, any number of attempts and of restart threads  *)
(* and any memory; and of the states it goes through, that StickInv is,    *)
(* for every kind of stick, any limits of the counts and any number of     *)
(* resets.  The two have no variable in common.                            *)
(***************************************************************************)
EXTENDS GekkoWork, GekkoStick, SequenceTheorems, TLAPS

---------------------------------------------------------------------------
(* The work: GekkoWork *)

\* Rolling a job id forth or back leads to a slot of the ring.
LEMMA RollInSlots ==
  ASSUME NEW jid \in Nat, NEW back \in Nat
  PROVE  JOB_ID_ROLL(jid, back) \in Slots
<1>1. Span \in Nat \ {0}
  BY JobAssumption DEF Span
<1>2. ASSUME NEW x \in Int
      PROVE  x % Span \in 0 .. Span - 1
  BY <1>1
<1>3. WordModSpan \in Int
  BY <1>1, <1>2 DEF WordModSpan
<1> DEFINE diff == jid - back - min_job_id
<1>4. diff \in Int /\ WordModSpan + diff \in Int
  BY <1>3, JobAssumption
<1>5. diff % Span \in 0 .. Span - 1 /\ (WordModSpan + diff) % Span \in 0 .. Span - 1
  BY <1>2, <1>4
<1>6. JOB_ID_ROLL(jid, back) = min_job_id + (IF diff < 0 THEN (WordModSpan + diff) % Span ELSE diff % Span)
  BY DEF JOB_ID_ROLL
<1> HIDE DEF diff
<1> QED BY <1>1, <1>5, <1>6, JobAssumption DEF Span, Slots

\* Rolling an id back to one in the range just subtracts.
LEMMA RollIsBack ==
  ASSUME NEW jid \in Nat, NEW back \in Nat, jid - back \in min_job_id .. max_job_id
  PROVE  JOB_ID_ROLL(jid, back) = jid - back
<1> DEFINE diff == jid - back - min_job_id
<1>1. Span \in Nat \ {0} /\ diff \in 0 .. Span - 1
  BY JobAssumption DEF Span
<1>2. JOB_ID_ROLL(jid, back) = min_job_id + (IF diff < 0 THEN (WordModSpan + diff) % Span ELSE diff % Span)
  BY DEF JOB_ID_ROLL
<1>3. jid - back = min_job_id + diff
  BY JobAssumption
<1> HIDE DEF diff
<1>4. diff % Span = diff
  BY <1>1
<1> QED BY <1>1, <1>2, <1>3, <1>4

\* The nonce thread looks at a slot of the ring, whatever the chip reports and
\* whichever of its two values job_id has.
LEMMA SlotInSlots == TypeOK => Slot \in Slots
<1> SUFFICES ASSUME TypeOK PROVE Slot \in Slots
  OBVIOUS
<1>1. CASE try = 0
  BY <1>1 DEF TypeOK, Slot, Nonces
<1>2. CASE try # 0
  <2>1. try - 1 \in Nat /\ job_id \in Nat
    BY <1>2, BoundsAssumption, JobAssumption DEF TypeOK
  <2> QED BY <1>2, <2>1, RollInSlots DEF Slot
<1> QED BY <1>1, <1>2

\* Freed work is forgotten by the nonces, which stay nonces.
LEMMA ForgetTypes ==
  ASSUME NEW w \in Works
  PROVE  /\ \A n \in Nonces : Forget(n, w) \in Nonces
         /\ \A s \in Seq(Nonces) : [i \in DOMAIN s |-> Forget(s[i], w)] \in Seq(Nonces)
<1>1. ASSUME NEW n \in Nonces
      PROVE  Forget(n, w) \in Nonces
  BY DEF Forget, Nonces, Pointers
<1>2. ASSUME NEW s \in Seq(Nonces)
      PROVE  [i \in DOMAIN s |-> Forget(s[i], w)] \in Seq(Nonces)
  <2>1. Len(s) \in Nat /\ DOMAIN s = 1 .. Len(s) /\ \A i \in 1 .. Len(s) : s[i] \in Nonces
    OBVIOUS
  <2>2. [i \in DOMAIN s |-> Forget(s[i], w)] \in [1 .. Len(s) -> Nonces]
    BY <1>1, <2>1
  <2> QED BY <2>1, <2>2, SeqDef
<1> QED BY <1>1, <1>2

\* The list of the last tasks stays a list of slots.
LEMMA RecentPlaced ==
  ASSUME recent \in Seq(Slots), job_id \in Slots
  PROVE  <<job_id>> \o SubSeq(recent, 1, IF Len(recent) < Attempts THEN Len(recent)
                                                               ELSE Attempts - 1) \in Seq(Slots)
<1> DEFINE n == IF Len(recent) < Attempts THEN Len(recent) ELSE Attempts - 1
<1>1. n \in 0 .. Len(recent)
  BY BoundsAssumption
<1> HIDE DEF n
<1>2. SubSeq(recent, 1, n) \in Seq(Slots)
  BY <1>1, SubSeqProperties
<1>3. <<job_id>> \o SubSeq(recent, 1, n) \in Seq(Slots)
  BY <1>2, ConcatProperties
<1> QED BY <1>3 DEF n

\* WorkOwned, said of one piece of work at a time
RingHas(w) == \E j \in Slots : ring[j] = w
HandHas(w) == w = hashing \/ w = unqueued_work \/ \E r \in Restarters : flushing[r] = w
QueuedHas(w) == RingHas(w) \/ w = new \/ w = old_work
OwnedInv ==
    /\ \A w \in Works : live[w] # "free" <=> (w \in queued_work \/ HandHas(w))
    /\ \A w \in Works : w \in queued_work <=> QueuedHas(w)
    /\ \A w \in Works : w \in queued_work => ~HandHas(w)
    /\ \A w \in Works : RingHas(w) => w # new /\ w # old_work
    /\ \A i, j \in Slots : ring[i] = ring[j] /\ ring[i] # NoWork => i = j
    /\ hashing # NoWork => unqueued_work = NoWork
    /\ \A r \in Restarters : flushing[r] # NoWork => flushing[r] # hashing /\ flushing[r] # unqueued_work
    /\ \A r, s \in Restarters : flushing[r] # NoWork /\ flushing[r] = flushing[s] => r = s

LEMMA OwnedEqv == TypeOK => (WorkOwned <=> OwnedInv)
<1> SUFFICES ASSUME TypeOK PROVE WorkOwned <=> OwnedInv
  OBVIOUS
<1> USE NoWorkAssumption
<1>1. \A w \in Works : w \in InRing <=> RingHas(w)
  BY DEF InRing, RingHas
<1>2. \A w \in Works : w \in InHand <=> HandHas(w)
  BY DEF InHand, HandHas
<1>3. InRing \subseteq Works /\ InHand \subseteq Works /\ NoWork \notin InRing
  BY DEF InRing, InHand, TypeOK, Pointers
<1>4. queued_work \subseteq Works /\ new \in Works \cup {NoWork} /\ old_work \in Works \cup {NoWork}
  BY DEF TypeOK, Pointers
<1>5. queued_work = InRing \cup ({new, old_work} \ {NoWork}) <=> \A w \in Works : w \in queued_work <=> QueuedHas(w)
  BY <1>1, <1>3, <1>4 DEF QueuedHas
<1>6. (\A w \in Works : live[w] # "free" <=> w \in queued_work \cup InHand)
      <=> (\A w \in Works : live[w] # "free" <=> (w \in queued_work \/ HandHas(w)))
  BY <1>2
<1>7. queued_work \cap InHand = {} <=> \A w \in Works : w \in queued_work => ~HandHas(w)
  BY <1>2, <1>4
<1>8. (new \notin InRing /\ old_work \notin InRing) <=> \A w \in Works : RingHas(w) => w # new /\ w # old_work
  BY <1>1, <1>3, <1>4
<1>9. (\A r \in Restarters : flushing[r] # NoWork =>
          /\ flushing[r] \notin {hashing, unqueued_work}
          /\ \A s \in Restarters \ {r} : flushing[r] # flushing[s])
      <=> /\ \A r \in Restarters : flushing[r] # NoWork => flushing[r] # hashing /\ flushing[r] # unqueued_work
          /\ \A r, s \in Restarters : flushing[r] # NoWork /\ flushing[r] = flushing[s] => r = s
  OBVIOUS
<1> QED BY <1>5, <1>6, <1>7, <1>8, <1>9 DEF WorkOwned, OwnedInv

\* A step that moves no work keeps every piece of work where it was.
LEMMA OwnedStutter ==
  ASSUME OwnedInv, UNCHANGED <<live, hashVars, queued_work, flushing, ring, new, old_work>>
  PROVE  OwnedInv'
<1>1. \A w : (RingHas(w))' <=> RingHas(w)
  BY DEF RingHas
<1>2. \A w : (HandHas(w))' <=> HandHas(w)
  BY DEF HandHas, hashVars
<1>3. \A w : (QueuedHas(w))' <=> QueuedHas(w)
  BY <1>1 DEF QueuedHas
<1> QED BY <1>1, <1>2, <1>3 DEF OwnedInv, hashVars

\* Every step of every thread keeps the invariant.
LEMMA NextGekkoInv == GekkoInv /\ [Next]_vars => GekkoInv'
<1> SUFFICES ASSUME GekkoInv, [Next]_vars
             PROVE  GekkoInv'
  OBVIOUS
<1> USE NoWorkAssumption DEF GekkoInv
<1>0. OwnedInv
  BY OwnedEqv
<1>1. ASSUME Fetch
      PROVE  GekkoInv'
  <2>1. TypeOK'
    BY <1>1 DEF Fetch, Unused, TypeOK, Pointers, hashVars, mineVars, nonceVars
  <2>2. MineMatches'
    BY <1>1 DEF Fetch, Unused, TypeOK, MineMatches, hashVars, mineVars, nonceVars
  <2>b. ASSUME NEW w \in Works
        PROVE  /\ (RingHas(w))' <=> RingHas(w)
               /\ (HandHas(w))' <=> HandHas(w) \/ w = hashing'
               /\ (QueuedHas(w))' <=> QueuedHas(w)
    BY <1>0, <1>1 DEF Fetch, Unused, OwnedInv, RingHas, HandHas, QueuedHas, TypeOK, Pointers, MineMatches, hashVars, mineVars, nonceVars
  <2>c. \A w \in Works : /\ (live[w] # "free" <=> (w \in queued_work \/ HandHas(w)))'
                        /\ (w \in queued_work <=> QueuedHas(w))'
                        /\ (w \in queued_work => ~HandHas(w))'
    BY <1>0, <1>1, <2>b DEF Fetch, Unused, OwnedInv, MineMatches, TypeOK, Pointers, hashVars, mineVars, nonceVars
  <2>d. \A w \in Works : (RingHas(w) => w # new /\ w # old_work)'
    BY <1>0, <1>1, <2>b DEF Fetch, Unused, OwnedInv, MineMatches, TypeOK, Pointers, hashVars, mineVars, nonceVars, QueuedHas, HandHas, RingHas
  <2>e. (\A i, j \in Slots : ring[i] = ring[j] /\ ring[i] # NoWork => i = j)'
    BY <1>0, <1>1 DEF Fetch, Unused, OwnedInv, MineMatches, TypeOK, Pointers, hashVars, mineVars, nonceVars, RingHas
  <2>f. /\ (hashing # NoWork => unqueued_work = NoWork)'
        /\ (\A q \in Restarters : flushing[q] # NoWork => flushing[q] # hashing /\ flushing[q] # unqueued_work)'
        /\ (\A q, s \in Restarters : flushing[q] # NoWork /\ flushing[q] = flushing[s] => q = s)'
    BY <1>0, <1>1 DEF Fetch, Unused, OwnedInv, TypeOK, Pointers, hashVars, mineVars, nonceVars, HandHas
  <2>3. OwnedInv'
    BY <2>c, <2>d, <2>e, <2>f DEF OwnedInv
  <2>4. NonceWorkLive'
    BY <1>1, <1>0 DEF Fetch, Unused, OwnedInv, HandHas, TypeOK, Pointers, NonceWorkLive, hashVars, mineVars, nonceVars
  <2> QED BY <2>1, <2>2, <2>3, <2>4, OwnedEqv, PTL DEF GekkoInv
<1>2. ASSUME Offer
      PROVE  GekkoInv'
  <2>1. TypeOK'
    BY <1>2 DEF Offer, TypeOK, Pointers, hashVars, mineVars, nonceVars
  <2>2. MineMatches'
    BY <1>2 DEF Offer, TypeOK, MineMatches, hashVars, mineVars, nonceVars
  <2>b. ASSUME NEW w \in Works
        PROVE  /\ (RingHas(w))' <=> RingHas(w)
               /\ (HandHas(w))' <=> HandHas(w)
               /\ (QueuedHas(w))' <=> QueuedHas(w)
    BY <1>0, <1>2 DEF Offer, OwnedInv, RingHas, HandHas, QueuedHas, TypeOK, Pointers, MineMatches, hashVars, mineVars, nonceVars
  <2>c. \A w \in Works : /\ (live[w] # "free" <=> (w \in queued_work \/ HandHas(w)))'
                        /\ (w \in queued_work <=> QueuedHas(w))'
                        /\ (w \in queued_work => ~HandHas(w))'
    BY <1>0, <1>2, <2>b DEF Offer, OwnedInv, MineMatches, TypeOK, Pointers, hashVars, mineVars, nonceVars
  <2>d. \A w \in Works : (RingHas(w) => w # new /\ w # old_work)'
    BY <1>0, <1>2, <2>b DEF Offer, OwnedInv, MineMatches, TypeOK, Pointers, hashVars, mineVars, nonceVars, QueuedHas, HandHas, RingHas
  <2>e. (\A i, j \in Slots : ring[i] = ring[j] /\ ring[i] # NoWork => i = j)'
    BY <1>0, <1>2 DEF Offer, OwnedInv, MineMatches, TypeOK, Pointers, hashVars, mineVars, nonceVars, RingHas
  <2>f. /\ (hashing # NoWork => unqueued_work = NoWork)'
        /\ (\A q \in Restarters : flushing[q] # NoWork => flushing[q] # hashing /\ flushing[q] # unqueued_work)'
        /\ (\A q, s \in Restarters : flushing[q] # NoWork /\ flushing[q] = flushing[s] => q = s)'
    BY <1>0, <1>2 DEF Offer, OwnedInv, TypeOK, Pointers, hashVars, mineVars, nonceVars, HandHas
  <2>3. OwnedInv'
    BY <2>c, <2>d, <2>e, <2>f DEF OwnedInv
  <2>4. NonceWorkLive'
    BY <1>2, <1>0 DEF Offer, OwnedInv, HandHas, TypeOK, Pointers, NonceWorkLive, hashVars, mineVars, nonceVars
  <2> QED BY <2>1, <2>2, <2>3, <2>4, OwnedEqv, PTL DEF GekkoInv
<1>3. ASSUME NEW r \in Restarters, FlushTake(r)
      PROVE  GekkoInv'
  <2>1. TypeOK'
    BY <1>3 DEF FlushTake, TypeOK, Pointers, hashVars, mineVars, nonceVars
  <2>2. MineMatches'
    BY <1>3 DEF FlushTake, TypeOK, MineMatches, hashVars, mineVars, nonceVars
  <2>b. ASSUME NEW w \in Works
        PROVE  /\ (RingHas(w))' <=> RingHas(w)
               /\ (HandHas(w))' <=> HandHas(w)
               /\ (QueuedHas(w))' <=> QueuedHas(w)
    BY <1>0, <1>3 DEF FlushTake, OwnedInv, RingHas, HandHas, QueuedHas, TypeOK, Pointers, MineMatches, hashVars, mineVars, nonceVars
  <2>c. \A w \in Works : /\ (live[w] # "free" <=> (w \in queued_work \/ HandHas(w)))'
                        /\ (w \in queued_work <=> QueuedHas(w))'
                        /\ (w \in queued_work => ~HandHas(w))'
    BY <1>0, <1>3, <2>b DEF FlushTake, OwnedInv, MineMatches, TypeOK, Pointers, hashVars, mineVars, nonceVars
  <2>d. \A w \in Works : (RingHas(w) => w # new /\ w # old_work)'
    BY <1>0, <1>3, <2>b DEF FlushTake, OwnedInv, MineMatches, TypeOK, Pointers, hashVars, mineVars, nonceVars, QueuedHas, HandHas, RingHas
  <2>e. (\A i, j \in Slots : ring[i] = ring[j] /\ ring[i] # NoWork => i = j)'
    BY <1>0, <1>3 DEF FlushTake, OwnedInv, MineMatches, TypeOK, Pointers, hashVars, mineVars, nonceVars, RingHas
  <2>f. /\ (hashing # NoWork => unqueued_work = NoWork)'
        /\ (\A q \in Restarters : flushing[q] # NoWork => flushing[q] # hashing /\ flushing[q] # unqueued_work)'
        /\ (\A q, s \in Restarters : flushing[q] # NoWork /\ flushing[q] = flushing[s] => q = s)'
    BY <1>0, <1>3 DEF FlushTake, OwnedInv, TypeOK, Pointers, hashVars, mineVars, nonceVars, HandHas
  <2>3. OwnedInv'
    BY <2>c, <2>d, <2>e, <2>f DEF OwnedInv
  <2>4. NonceWorkLive'
    BY <1>3, <1>0 DEF FlushTake, OwnedInv, HandHas, TypeOK, Pointers, NonceWorkLive, hashVars, mineVars, nonceVars
  <2> QED BY <2>1, <2>2, <2>3, <2>4, OwnedEqv, PTL DEF GekkoInv
<1>4. ASSUME NEW r \in Restarters, FlushFree(r)
      PROVE  GekkoInv'
  <2>1. TypeOK'
    BY <1>4, ForgetTypes DEF FlushFree, free_work, TypeOK, Pointers, hashVars, mineVars, nonceVars
  <2>2. MineMatches'
    BY <1>4 DEF FlushFree, free_work, TypeOK, MineMatches, hashVars, mineVars, nonceVars
  <2>b. ASSUME NEW w \in Works
        PROVE  /\ (RingHas(w))' <=> RingHas(w)
               /\ (HandHas(w))' <=> HandHas(w) /\ w # flushing[r]
               /\ (QueuedHas(w))' <=> QueuedHas(w)
    BY <1>0, <1>4 DEF FlushFree, free_work, OwnedInv, RingHas, HandHas, QueuedHas, TypeOK, Pointers, MineMatches, hashVars, mineVars, nonceVars
  <2>g. /\ flushing[r] \in Works /\ HandHas(flushing[r]) /\ live' = [live EXCEPT ![flushing[r]] = "free"]
        /\ queued_work' = queued_work
    BY <1>4 DEF FlushFree, free_work, HandHas, QueuedHas, TypeOK, Pointers, hashVars, mineVars, nonceVars
  <2>c. \A w \in Works : /\ (live[w] # "free" <=> (w \in queued_work \/ HandHas(w)))'
                        /\ (w \in queued_work <=> QueuedHas(w))'
                        /\ (w \in queued_work => ~HandHas(w))'
    BY <1>0, <2>b, <2>g DEF OwnedInv, TypeOK
  <2>d. \A w \in Works : (RingHas(w) => w # new /\ w # old_work)'
    BY <1>0, <1>4, <2>b DEF FlushFree, free_work, OwnedInv, MineMatches, TypeOK, Pointers, hashVars, mineVars, nonceVars, QueuedHas, HandHas, RingHas
  <2>e. (\A i, j \in Slots : ring[i] = ring[j] /\ ring[i] # NoWork => i = j)'
    BY <1>0, <1>4 DEF FlushFree, free_work, OwnedInv, MineMatches, TypeOK, Pointers, hashVars, mineVars, nonceVars, RingHas
  <2>f. /\ (hashing # NoWork => unqueued_work = NoWork)'
        /\ (\A q \in Restarters : flushing[q] # NoWork => flushing[q] # hashing /\ flushing[q] # unqueued_work)'
        /\ (\A q, s \in Restarters : flushing[q] # NoWork /\ flushing[q] = flushing[s] => q = s)'
    BY <1>0, <1>4 DEF FlushFree, free_work, OwnedInv, TypeOK, Pointers, hashVars, mineVars, nonceVars, HandHas
  <2>3. OwnedInv'
    BY <2>c, <2>d, <2>e, <2>f DEF OwnedInv
  <2>4. NonceWorkLive'
    BY <1>4, <1>0 DEF FlushFree, free_work, OwnedInv, HandHas, TypeOK, Pointers, NonceWorkLive, hashVars, mineVars, nonceVars
  <2> QED BY <2>1, <2>2, <2>3, <2>4, OwnedEqv, PTL DEF GekkoInv
<1>5. ASSUME Outdate
      PROVE  GekkoInv'
  <2>1. TypeOK'
    BY <1>5 DEF Outdate, TypeOK, Pointers, hashVars, mineVars, nonceVars
  <2>2. MineMatches'
    BY <1>5 DEF Outdate, TypeOK, MineMatches, hashVars, mineVars, nonceVars
  <2>b. ASSUME NEW w \in Works
        PROVE  /\ (RingHas(w))' <=> RingHas(w)
               /\ (HandHas(w))' <=> HandHas(w)
               /\ (QueuedHas(w))' <=> QueuedHas(w)
    BY <1>0, <1>5 DEF Outdate, OwnedInv, RingHas, HandHas, QueuedHas, TypeOK, Pointers, MineMatches, hashVars, mineVars, nonceVars
  <2>c. \A w \in Works : /\ (live[w] # "free" <=> (w \in queued_work \/ HandHas(w)))'
                        /\ (w \in queued_work <=> QueuedHas(w))'
                        /\ (w \in queued_work => ~HandHas(w))'
    BY <1>0, <1>5, <2>b DEF Outdate, OwnedInv, MineMatches, TypeOK, Pointers, hashVars, mineVars, nonceVars
  <2>d. \A w \in Works : (RingHas(w) => w # new /\ w # old_work)'
    BY <1>0, <1>5, <2>b DEF Outdate, OwnedInv, MineMatches, TypeOK, Pointers, hashVars, mineVars, nonceVars, QueuedHas, HandHas, RingHas
  <2>e. (\A i, j \in Slots : ring[i] = ring[j] /\ ring[i] # NoWork => i = j)'
    BY <1>0, <1>5 DEF Outdate, OwnedInv, MineMatches, TypeOK, Pointers, hashVars, mineVars, nonceVars, RingHas
  <2>f. /\ (hashing # NoWork => unqueued_work = NoWork)'
        /\ (\A q \in Restarters : flushing[q] # NoWork => flushing[q] # hashing /\ flushing[q] # unqueued_work)'
        /\ (\A q, s \in Restarters : flushing[q] # NoWork /\ flushing[q] = flushing[s] => q = s)'
    BY <1>0, <1>5 DEF Outdate, OwnedInv, TypeOK, Pointers, hashVars, mineVars, nonceVars, HandHas
  <2>3. OwnedInv'
    BY <2>c, <2>d, <2>e, <2>f DEF OwnedInv
  <2>4. NonceWorkLive'
    BY <1>5, <1>0 DEF Outdate, OwnedInv, HandHas, TypeOK, Pointers, NonceWorkLive, hashVars, mineVars, nonceVars
  <2> QED BY <2>1, <2>2, <2>3, <2>4, OwnedEqv, PTL DEF GekkoInv
<1>6. ASSUME Complete
      PROVE  GekkoInv'
  <2>1. TypeOK'
    BY <1>6, ForgetTypes DEF Complete, free_work, InfoLocked, TypeOK, Pointers, hashVars, mineVars, nonceVars
  <2>2. MineMatches'
    BY <1>6 DEF Complete, free_work, InfoLocked, TypeOK, MineMatches, hashVars, mineVars, nonceVars
  <2>b. ASSUME NEW w \in Works
        PROVE  /\ (RingHas(w))' <=> RingHas(w)
               /\ (HandHas(w))' <=> HandHas(w)
               /\ (QueuedHas(w))' <=> QueuedHas(w) /\ w # old_work
    BY <1>0, <1>6 DEF Complete, free_work, InfoLocked, OwnedInv, RingHas, HandHas, QueuedHas, TypeOK, Pointers, MineMatches, hashVars, mineVars, nonceVars
  <2>g. /\ old_work \in Works /\ QueuedHas(old_work) /\ live' = [live EXCEPT ![old_work] = "free"]
        /\ queued_work' = queued_work \ {old_work}
    BY <1>6 DEF Complete, free_work, InfoLocked, HandHas, QueuedHas, TypeOK, Pointers, hashVars, mineVars, nonceVars
  <2>c. \A w \in Works : /\ (live[w] # "free" <=> (w \in queued_work \/ HandHas(w)))'
                        /\ (w \in queued_work <=> QueuedHas(w))'
                        /\ (w \in queued_work => ~HandHas(w))'
    BY <1>0, <2>b, <2>g DEF OwnedInv, TypeOK
  <2>d. \A w \in Works : (RingHas(w) => w # new /\ w # old_work)'
    BY <1>0, <1>6, <2>b DEF Complete, free_work, InfoLocked, OwnedInv, MineMatches, TypeOK, Pointers, hashVars, mineVars, nonceVars, QueuedHas, HandHas, RingHas
  <2>e. (\A i, j \in Slots : ring[i] = ring[j] /\ ring[i] # NoWork => i = j)'
    BY <1>0, <1>6 DEF Complete, free_work, InfoLocked, OwnedInv, MineMatches, TypeOK, Pointers, hashVars, mineVars, nonceVars, RingHas
  <2>f. /\ (hashing # NoWork => unqueued_work = NoWork)'
        /\ (\A q \in Restarters : flushing[q] # NoWork => flushing[q] # hashing /\ flushing[q] # unqueued_work)'
        /\ (\A q, s \in Restarters : flushing[q] # NoWork /\ flushing[q] = flushing[s] => q = s)'
    BY <1>0, <1>6 DEF Complete, free_work, InfoLocked, OwnedInv, TypeOK, Pointers, hashVars, mineVars, nonceVars, HandHas
  <2>3. OwnedInv'
    BY <2>c, <2>d, <2>e, <2>f DEF OwnedInv
  <2>4. NonceWorkLive'
    BY <1>6, <1>0 DEF Complete, free_work, InfoLocked, OwnedInv, HandHas, TypeOK, Pointers, NonceWorkLive, hashVars, mineVars, nonceVars
  <2> QED BY <2>1, <2>2, <2>3, <2>4, OwnedEqv, PTL DEF GekkoInv
<1>7. ASSUME GetQueued
      PROVE  GekkoInv'
  <2>1. TypeOK'
    BY <1>7 DEF GetQueued, TypeOK, Pointers, hashVars, mineVars, nonceVars
  <2>2. MineMatches'
    BY <1>7 DEF GetQueued, TypeOK, MineMatches, hashVars, mineVars, nonceVars
  <2>b. ASSUME NEW w \in Works
        PROVE  /\ (RingHas(w))' <=> RingHas(w)
               /\ (HandHas(w))' <=> HandHas(w) /\ w # unqueued_work
               /\ (QueuedHas(w))' <=> QueuedHas(w) \/ w = unqueued_work
    BY <1>0, <1>7 DEF GetQueued, OwnedInv, RingHas, HandHas, QueuedHas, TypeOK, Pointers, MineMatches, hashVars, mineVars, nonceVars
  <2>c. \A w \in Works : /\ (live[w] # "free" <=> (w \in queued_work \/ HandHas(w)))'
                        /\ (w \in queued_work <=> QueuedHas(w))'
                        /\ (w \in queued_work => ~HandHas(w))'
    BY <1>0, <1>7, <2>b DEF GetQueued, OwnedInv, MineMatches, TypeOK, Pointers, hashVars, mineVars, nonceVars
  <2>d. \A w \in Works : (RingHas(w) => w # new /\ w # old_work)'
    BY <1>0, <1>7, <2>b DEF GetQueued, OwnedInv, MineMatches, TypeOK, Pointers, hashVars, mineVars, nonceVars, QueuedHas, HandHas, RingHas
  <2>e. (\A i, j \in Slots : ring[i] = ring[j] /\ ring[i] # NoWork => i = j)'
    BY <1>0, <1>7 DEF GetQueued, OwnedInv, MineMatches, TypeOK, Pointers, hashVars, mineVars, nonceVars, RingHas
  <2>f. /\ (hashing # NoWork => unqueued_work = NoWork)'
        /\ (\A q \in Restarters : flushing[q] # NoWork => flushing[q] # hashing /\ flushing[q] # unqueued_work)'
        /\ (\A q, s \in Restarters : flushing[q] # NoWork /\ flushing[q] = flushing[s] => q = s)'
    BY <1>0, <1>7 DEF GetQueued, OwnedInv, TypeOK, Pointers, hashVars, mineVars, nonceVars, HandHas
  <2>3. OwnedInv'
    BY <2>c, <2>d, <2>e, <2>f DEF OwnedInv
  <2>4. NonceWorkLive'
    BY <1>7, <1>0 DEF GetQueued, OwnedInv, HandHas, TypeOK, Pointers, NonceWorkLive, hashVars, mineVars, nonceVars
  <2> QED BY <2>1, <2>2, <2>3, <2>4, OwnedEqv, PTL DEF GekkoInv
<1>8. ASSUME GetStale
      PROVE  GekkoInv'
  <2>1. TypeOK'
    BY <1>8, ForgetTypes DEF GetStale, free_work, TypeOK, Pointers, hashVars, mineVars, nonceVars
  <2>2. MineMatches'
    BY <1>8 DEF GetStale, free_work, TypeOK, MineMatches, hashVars, mineVars, nonceVars
  <2>b. ASSUME NEW w \in Works
        PROVE  /\ (RingHas(w))' <=> RingHas(w)
               /\ (HandHas(w))' <=> HandHas(w) /\ w # unqueued_work
               /\ (QueuedHas(w))' <=> QueuedHas(w)
    BY <1>0, <1>8 DEF GetStale, free_work, OwnedInv, RingHas, HandHas, QueuedHas, TypeOK, Pointers, MineMatches, hashVars, mineVars, nonceVars
  <2>g. /\ unqueued_work \in Works /\ HandHas(unqueued_work) /\ live' = [live EXCEPT ![unqueued_work] = "free"]
        /\ queued_work' = queued_work
    BY <1>8 DEF GetStale, free_work, HandHas, QueuedHas, TypeOK, Pointers, hashVars, mineVars, nonceVars
  <2>c. \A w \in Works : /\ (live[w] # "free" <=> (w \in queued_work \/ HandHas(w)))'
                        /\ (w \in queued_work <=> QueuedHas(w))'
                        /\ (w \in queued_work => ~HandHas(w))'
    BY <1>0, <2>b, <2>g DEF OwnedInv, TypeOK
  <2>d. \A w \in Works : (RingHas(w) => w # new /\ w # old_work)'
    BY <1>0, <1>8, <2>b DEF GetStale, free_work, OwnedInv, MineMatches, TypeOK, Pointers, hashVars, mineVars, nonceVars, QueuedHas, HandHas, RingHas
  <2>e. (\A i, j \in Slots : ring[i] = ring[j] /\ ring[i] # NoWork => i = j)'
    BY <1>0, <1>8 DEF GetStale, free_work, OwnedInv, MineMatches, TypeOK, Pointers, hashVars, mineVars, nonceVars, RingHas
  <2>f. /\ (hashing # NoWork => unqueued_work = NoWork)'
        /\ (\A q \in Restarters : flushing[q] # NoWork => flushing[q] # hashing /\ flushing[q] # unqueued_work)'
        /\ (\A q, s \in Restarters : flushing[q] # NoWork /\ flushing[q] = flushing[s] => q = s)'
    BY <1>0, <1>8 DEF GetStale, free_work, OwnedInv, TypeOK, Pointers, hashVars, mineVars, nonceVars, HandHas
  <2>3. OwnedInv'
    BY <2>c, <2>d, <2>e, <2>f DEF OwnedInv
  <2>4. NonceWorkLive'
    BY <1>8, <1>0 DEF GetStale, free_work, OwnedInv, HandHas, TypeOK, Pointers, NonceWorkLive, hashVars, mineVars, nonceVars
  <2> QED BY <2>1, <2>2, <2>3, <2>4, OwnedEqv, PTL DEF GekkoInv
<1>9. ASSUME Bump
      PROVE  GekkoInv'
  <2>a. job_id <= max_job_id
    BY <1>9, JobAssumption DEF Bump, TypeOK, MineMatches
  <2>1. TypeOK'
    BY <1>9, <2>a, JobAssumption DEF Bump, TypeOK, Pointers, hashVars, mineVars, nonceVars
  <2>2. MineMatches'
    BY <1>9, JobAssumption DEF Bump, TypeOK, MineMatches, hashVars, mineVars, nonceVars
  <2>3. OwnedInv'
    BY <1>0, <1>9, OwnedStutter DEF Bump, hashVars, mineVars, nonceVars
  <2>4. NonceWorkLive'
    BY <1>9 DEF Bump, TypeOK, Pointers, NonceWorkLive, hashVars, mineVars, nonceVars
  <2> QED BY <2>1, <2>2, <2>3, <2>4, OwnedEqv, PTL DEF GekkoInv
<1>10. ASSUME Roll
      PROVE  GekkoInv'
  <2>1. TypeOK'
    BY <1>10, JobAssumption DEF Roll, TypeOK, Pointers, hashVars, mineVars, nonceVars
  <2>2. MineMatches'
    BY <1>10, JobAssumption DEF Roll, TypeOK, MineMatches, hashVars, mineVars, nonceVars
  <2>3. OwnedInv'
    BY <1>0, <1>10, OwnedStutter DEF Roll, hashVars, mineVars, nonceVars
  <2>4. NonceWorkLive'
    BY <1>10 DEF Roll, TypeOK, Pointers, NonceWorkLive, hashVars, mineVars, nonceVars
  <2> QED BY <2>1, <2>2, <2>3, <2>4, OwnedEqv, PTL DEF GekkoInv
<1>11. ASSUME Place
      PROVE  GekkoInv'
  <2>a. job_id \in Slots
    BY <1>11, JobAssumption DEF Place, TypeOK, MineMatches, Slots
  <2>1. TypeOK'
    BY <1>11, <2>a, RecentPlaced DEF Place, TypeOK, Pointers, hashVars, mineVars, nonceVars
  <2>2. MineMatches'
    BY <1>11, JobAssumption, <2>a DEF Place, TypeOK, MineMatches, hashVars, mineVars, nonceVars
  <2>b. ASSUME NEW w \in Works
        PROVE  /\ (RingHas(w))' <=> (RingHas(w) /\ w # ring[job_id]) \/ w = new
               /\ (HandHas(w))' <=> HandHas(w)
               /\ (QueuedHas(w))' <=> QueuedHas(w)
    BY <1>0, <1>11, <2>a DEF Place, OwnedInv, RingHas, HandHas, QueuedHas, TypeOK, Pointers, MineMatches, hashVars, mineVars, nonceVars
  <2>c. \A w \in Works : /\ (live[w] # "free" <=> (w \in queued_work \/ HandHas(w)))'
                        /\ (w \in queued_work <=> QueuedHas(w))'
                        /\ (w \in queued_work => ~HandHas(w))'
    BY <1>0, <1>11, <2>b DEF Place, OwnedInv, MineMatches, TypeOK, Pointers, hashVars, mineVars, nonceVars
  <2>d. \A w \in Works : (RingHas(w) => w # new /\ w # old_work)'
    BY <1>0, <1>11, <2>b, <2>a DEF Place, OwnedInv, MineMatches, TypeOK, Pointers, hashVars, mineVars, nonceVars, QueuedHas, HandHas, RingHas
  <2>e. (\A i, j \in Slots : ring[i] = ring[j] /\ ring[i] # NoWork => i = j)'
    BY <1>0, <1>11, <2>a DEF Place, OwnedInv, MineMatches, TypeOK, Pointers, hashVars, mineVars, nonceVars, RingHas
  <2>f. /\ (hashing # NoWork => unqueued_work = NoWork)'
        /\ (\A q \in Restarters : flushing[q] # NoWork => flushing[q] # hashing /\ flushing[q] # unqueued_work)'
        /\ (\A q, s \in Restarters : flushing[q] # NoWork /\ flushing[q] = flushing[s] => q = s)'
    BY <1>0, <1>11 DEF Place, OwnedInv, TypeOK, Pointers, hashVars, mineVars, nonceVars, HandHas
  <2>3. OwnedInv'
    BY <2>c, <2>d, <2>e, <2>f DEF OwnedInv
  <2>4. NonceWorkLive'
    BY <1>11, <1>0 DEF Place, OwnedInv, HandHas, TypeOK, Pointers, NonceWorkLive, hashVars, mineVars, nonceVars
  <2> QED BY <2>1, <2>2, <2>3, <2>4, OwnedEqv, PTL DEF GekkoInv
<1>12. ASSUME Send
      PROVE  GekkoInv'
  <2>a. job_id \in Slots
    BY <1>12, JobAssumption DEF Send, TypeOK, MineMatches, Slots
  <2>1. TypeOK'
    BY <1>12, <2>a DEF Send, TypeOK, Pointers, hashVars, mineVars, nonceVars
  <2>2. MineMatches'
    BY <1>12, JobAssumption, <2>a DEF Send, TypeOK, MineMatches, hashVars, mineVars, nonceVars
  <2>3. OwnedInv'
    BY <1>0, <1>12, OwnedStutter DEF Send, hashVars, mineVars, nonceVars
  <2>4. NonceWorkLive'
    BY <1>12 DEF Send, TypeOK, Pointers, NonceWorkLive, hashVars, mineVars, nonceVars
  <2> QED BY <2>1, <2>2, <2>3, <2>4, OwnedEqv, PTL DEF GekkoInv
<1>13. ASSUME Listen
      PROVE  GekkoInv'
  <2>1. TypeOK'
    BY <1>13 DEF Listen, TypeOK, Pointers, Nonces, hashVars, mineVars, nonceVars
  <2>2. MineMatches'
    BY <1>13 DEF Listen, TypeOK, MineMatches, hashVars, mineVars, nonceVars
  <2>3. OwnedInv'
    BY <1>0, <1>13, OwnedStutter DEF Listen, hashVars, mineVars, nonceVars
  <2>4. NonceWorkLive'
    BY <1>13 DEF Listen, TypeOK, Pointers, NonceWorkLive, hashVars, mineVars, nonceVars
  <2> QED BY <2>1, <2>2, <2>3, <2>4, OwnedEqv, PTL DEF GekkoInv
<1>14. ASSUME TakeNonce
      PROVE  GekkoInv'
  <2>1. TypeOK'
    BY <1>14, BoundsAssumption DEF TakeNonce, TypeOK, Pointers, hashVars, mineVars, nonceVars
  <2>2. MineMatches'
    BY <1>14, BoundsAssumption DEF TakeNonce, TypeOK, MineMatches, hashVars, mineVars, nonceVars
  <2>3. OwnedInv'
    BY <1>0, <1>14, OwnedStutter DEF TakeNonce, hashVars, mineVars, nonceVars
  <2>4. NonceWorkLive'
    BY <1>14 DEF TakeNonce, TypeOK, Pointers, NonceWorkLive, hashVars, mineVars, nonceVars
  <2> QED BY <2>1, <2>2, <2>3, <2>4, OwnedEqv, PTL DEF GekkoInv
<1>15. ASSUME Duplicate
      PROVE  GekkoInv'
  <2>1. TypeOK'
    BY <1>15, JobAssumption, BoundsAssumption DEF Duplicate, NonceDone, TypeOK, Pointers, Nonces, NoNonce, Slots, hashVars, mineVars, nonceVars
  <2>2. MineMatches'
    BY <1>15 DEF Duplicate, NonceDone, TypeOK, MineMatches, hashVars, mineVars, nonceVars
  <2>3. OwnedInv'
    BY <1>0, <1>15, OwnedStutter DEF Duplicate, NonceDone, hashVars, mineVars, nonceVars
  <2>4. NonceWorkLive'
    BY <1>15 DEF Duplicate, NonceDone, TypeOK, Pointers, NonceWorkLive, hashVars, mineVars, nonceVars
  <2> QED BY <2>1, <2>2, <2>3, <2>4, OwnedEqv, PTL DEF GekkoInv
<1>16. ASSUME LockInfo
      PROVE  GekkoInv'
  <2>1. TypeOK'
    BY <1>16 DEF LockInfo, TypeOK, Pointers, hashVars, mineVars, nonceVars
  <2>2. MineMatches'
    BY <1>16, BoundsAssumption DEF LockInfo, TypeOK, MineMatches, hashVars, mineVars, nonceVars
  <2>3. OwnedInv'
    BY <1>0, <1>16, OwnedStutter DEF LockInfo, hashVars, mineVars, nonceVars
  <2>4. NonceWorkLive'
    BY <1>16 DEF LockInfo, TypeOK, Pointers, NonceWorkLive, hashVars, mineVars, nonceVars
  <2> QED BY <2>1, <2>2, <2>3, <2>4, OwnedEqv, PTL DEF GekkoInv
<1>17. ASSUME Look
      PROVE  GekkoInv'
  <2>1. TypeOK'
    BY <1>17, SlotInSlots DEF Look, TypeOK, Pointers, hashVars, mineVars, nonceVars
  <2>2. MineMatches'
    BY <1>17 DEF Look, TypeOK, MineMatches, hashVars, mineVars, nonceVars
  <2>3. OwnedInv'
    BY <1>0, <1>17, OwnedStutter DEF Look, hashVars, mineVars, nonceVars
  <2>4. NonceWorkLive'
    BY <1>17, <1>0, SlotInSlots DEF Look, TypeOK, Pointers, OwnedInv, QueuedHas, RingHas, NonceWorkLive, hashVars, mineVars, nonceVars
  <2> QED BY <2>1, <2>2, <2>3, <2>4, OwnedEqv, PTL DEF GekkoInv
<1>18. ASSUME TestRight
      PROVE  GekkoInv'
  <2>1. TypeOK'
    BY <1>18 DEF TestRight, TypeOK, Pointers, hashVars, mineVars, nonceVars
  <2>2. MineMatches'
    BY <1>18 DEF TestRight, TypeOK, MineMatches, hashVars, mineVars, nonceVars
  <2>3. OwnedInv'
    BY <1>0, <1>18, OwnedStutter DEF TestRight, hashVars, mineVars, nonceVars
  <2>4. NonceWorkLive'
    BY <1>18 DEF TestRight, TypeOK, Pointers, NonceWorkLive, hashVars, mineVars, nonceVars
  <2> QED BY <2>1, <2>2, <2>3, <2>4, OwnedEqv, PTL DEF GekkoInv
<1>19. ASSUME TestWrong
      PROVE  GekkoInv'
  <2>a. nonce = "test" => try <= Attempts
    BY DEF MineMatches
  <2>1. TypeOK'
    BY <1>19, BoundsAssumption, <2>a DEF TestWrong, TypeOK, Pointers, hashVars, mineVars, nonceVars
  <2>2. MineMatches'
    BY <1>19, BoundsAssumption DEF TestWrong, TypeOK, MineMatches, hashVars, mineVars, nonceVars
  <2>3. OwnedInv'
    BY <1>0, <1>19, OwnedStutter DEF TestWrong, hashVars, mineVars, nonceVars
  <2>4. NonceWorkLive'
    BY <1>19 DEF TestWrong, TypeOK, Pointers, NonceWorkLive, hashVars, mineVars, nonceVars
  <2> QED BY <2>1, <2>2, <2>3, <2>4, OwnedEqv, PTL DEF GekkoInv
<1>20. ASSUME Dump
      PROVE  GekkoInv'
  <2>1. TypeOK'
    BY <1>20, JobAssumption, BoundsAssumption DEF Dump, NonceDone, TypeOK, Pointers, Nonces, NoNonce, Slots, hashVars, mineVars, nonceVars
  <2>2. MineMatches'
    BY <1>20 DEF Dump, NonceDone, TypeOK, MineMatches, hashVars, mineVars, nonceVars
  <2>3. OwnedInv'
    BY <1>0, <1>20, OwnedStutter DEF Dump, NonceDone, hashVars, mineVars, nonceVars
  <2>4. NonceWorkLive'
    BY <1>20 DEF Dump, NonceDone, TypeOK, Pointers, NonceWorkLive, hashVars, mineVars, nonceVars
  <2> QED BY <2>1, <2>2, <2>3, <2>4, OwnedEqv, PTL DEF GekkoInv
<1>21. ASSUME Submit
      PROVE  GekkoInv'
  <2>1. TypeOK'
    BY <1>21, JobAssumption, BoundsAssumption DEF Submit, NonceDone, TypeOK, Pointers, Nonces, NoNonce, Slots, hashVars, mineVars, nonceVars
  <2>2. MineMatches'
    BY <1>21 DEF Submit, NonceDone, TypeOK, MineMatches, hashVars, mineVars, nonceVars
  <2>3. OwnedInv'
    BY <1>0, <1>21, OwnedStutter DEF Submit, NonceDone, hashVars, mineVars, nonceVars
  <2>4. NonceWorkLive'
    BY <1>21 DEF Submit, NonceDone, TypeOK, Pointers, NonceWorkLive, hashVars, mineVars, nonceVars
  <2> QED BY <2>1, <2>2, <2>3, <2>4, OwnedEqv, PTL DEF GekkoInv
<1>22. ASSUME UNCHANGED vars
      PROVE  GekkoInv'
  <2>1. TypeOK' /\ MineMatches' /\ NonceWorkLive'
    BY <1>22 DEF vars, TypeOK, MineMatches, NonceWorkLive, hashVars, mineVars, nonceVars
  <2>2. OwnedInv'
    BY <1>0, <1>22, OwnedStutter DEF vars, hashVars, mineVars, nonceVars
  <2> QED BY <2>1, <2>2, OwnedEqv, PTL DEF GekkoInv
<1> QED BY <1>1, <1>2, <1>3, <1>4, <1>5, <1>6, <1>7, <1>8, <1>9, <1>10, <1>11, <1>12, <1>13, <1>14, <1>15, <1>16, <1>17, <1>18, <1>19, <1>20, <1>21, <1>22 DEF Next, MineStep, NonceStep

\* At the start no thread holds any work.
LEMMA InitGekkoInv == Init => GekkoInv
  BY NoWorkAssumption, JobAssumption, BoundsAssumption
     DEF Init, GekkoInv, TypeOK, Pointers, Slots, Nonces, NoNonce, MineMatches, WorkOwned, InRing, InHand, NonceWorkLive

\* No work of a stick is leaked or freed twice, and none is freed while a
\* nonce is tested on it (driver-gekko.c compac_mine2, compac_gsf_nonce).
THEOREM GekkoInvariant == Spec => []GekkoInv
  BY InitGekkoInv, NextGekkoInv, PTL DEF Spec

\* Every piece of work is in one place from get_work to free_work.
THEOREM WorkOwnedHolds == Spec => []WorkOwned
  BY GekkoInvariant, PTL DEF GekkoInv

\* info->lock keeps the work that is looked at from being freed.
THEOREM NonceWorkLiveHolds == Spec => []NonceWorkLive
  BY GekkoInvariant, PTL DEF GekkoInv

---------------------------------------------------------------------------
(* The search for the work of a nonce: GekkoWork *)

\* A new task shifts the list of the last ones, and cuts it off.
LEMMA RecentShifted ==
  ASSUME recent \in Seq(Slots), job_id \in Slots,
         recent' = <<job_id>> \o SubSeq(recent, 1, IF Len(recent) < Attempts THEN Len(recent)
                                                                           ELSE Attempts - 1)
  PROVE  /\ recent' # <<>> /\ recent'[1] = job_id
         /\ \A i \in DOMAIN recent' :
              /\ i \in Nat \ {0} /\ 1 .. i \subseteq DOMAIN recent'
              /\ i # 1 => i - 1 \in DOMAIN recent /\ recent'[i] = recent[i - 1]
<1> DEFINE n == IF Len(recent) < Attempts THEN Len(recent) ELSE Attempts - 1
           s == SubSeq(recent, 1, n)
           b == <<job_id>>
<1>1. n \in 0 .. Len(recent)
  BY BoundsAssumption
<1>2. recent' = b \o s
  OBVIOUS
<1>3. DOMAIN recent = 1 .. Len(recent) /\ Len(recent) \in Nat
  OBVIOUS
<1> HIDE DEF n
<1>4. s \in Seq(Slots) /\ Len(s) = n /\ \A k \in 1 .. n : s[k] = recent[k]
  BY <1>1, SubSeqProperties
<1>5. b \in Seq(Slots) /\ Len(b) = 1 /\ b[1] = job_id
  OBVIOUS
<1> HIDE DEF s, b
<1>6. /\ Len(recent') = Len(b) + Len(s) /\ recent' \in Seq(Slots)
      /\ \A i \in 1 .. Len(b) + Len(s) : recent'[i] = IF i <= Len(b) THEN b[i] ELSE s[i - Len(b)]
  <2>1. /\ Len(b \o s) = Len(b) + Len(s) /\ b \o s \in Seq(Slots)
        /\ \A i \in 1 .. Len(b) + Len(s) : (b \o s)[i] = IF i <= Len(b) THEN b[i] ELSE s[i - Len(b)]
    BY <1>4, <1>5, ConcatProperties
  <2> QED BY <1>2, <2>1
<1>7. DOMAIN recent' = 1 .. 1 + n
  BY <1>1, <1>4, <1>5, <1>6
<1>8. recent'[1] = job_id
  BY <1>1, <1>4, <1>5, <1>6
<1>9. ASSUME NEW i \in DOMAIN recent'
      PROVE  /\ i \in Nat \ {0} /\ 1 .. i \subseteq DOMAIN recent'
             /\ i # 1 => i - 1 \in DOMAIN recent /\ recent'[i] = recent[i - 1]
  BY <1>1, <1>3, <1>4, <1>5, <1>6, <1>7
<1> QED BY <1>1, <1>6, <1>7, <1>8, <1>9

\* The newest id stays in step with job_id.
LEMMA NextJobMatches == GekkoInv /\ JobMatches /\ [Next]_vars => JobMatches'
<1> SUFFICES ASSUME GekkoInv, JobMatches, [Next]_vars
             PROVE  JobMatches'
  OBVIOUS
<1> USE JobAssumption
<1>1. recent \in Seq(Slots) /\ job_id \in 0 .. max_job_id + 1
  BY DEF GekkoInv, TypeOK
<1>2. recent # <<>> => recent[1] \in 0 .. max_job_id
  BY <1>1 DEF Slots
<1>3. CASE UNCHANGED <<job_id, mine, recent>>
  BY <1>3 DEF JobMatches
<1>4. CASE GetQueued
  BY <1>4 DEF GetQueued, JobMatches
<1>5. CASE Bump
  BY <1>1, <1>2, <1>5 DEF Bump, JobMatches
<1>6. CASE Roll
  <2>1. job_id = max_job_id + 1
    BY <1>1, <1>6 DEF Roll, GekkoInv, MineMatches
  <2> QED BY <1>2, <1>6, <2>1 DEF Roll, JobMatches
<1>7. CASE Place
  <2>1. job_id \in Slots
    BY <1>1, <1>7 DEF Place, GekkoInv, MineMatches, Slots
  <2>2. recent' # <<>> /\ recent'[1] = job_id
    BY <1>1, <1>7, <2>1, RecentShifted DEF Place
  <2> QED BY <1>7, <2>2 DEF Place, JobMatches
<1>8. CASE Send
  BY <1>8 DEF Send, JobMatches
<1>9. CASE \/ Fetch \/ Offer \/ (\E r \in Restarters : FlushTake(r) \/ FlushFree(r))
           \/ Outdate \/ Complete \/ GetStale \/ Listen \/ NonceStep \/ UNCHANGED vars
  BY <1>3, <1>9 DEF Fetch, Offer, FlushTake, FlushFree, Outdate, Complete, GetStale, Listen, NonceStep,
     TakeNonce, Duplicate, LockInfo, Look, TestRight, TestWrong, Dump, Submit, vars, mineVars
<1> QED BY <1>4, <1>5, <1>6, <1>7, <1>8, <1>9 DEF Next, MineStep

\* Freed work is no nonce's any more, and other nonces keep theirs.
LEMMA FreedOf ==
  ASSUME TypeOK, NEW w \in Works, free_work(w)
  PROVE  /\ item'.of # w /\ item'.of \in {item.of, NoWork}
         /\ DOMAIN nstore' = DOMAIN nstore
         /\ \A k \in DOMAIN nstore : nstore'[k].of # w /\ nstore'[k].of \in {nstore[k].of, NoWork}
<1>1. w # NoWork
  BY NoWorkAssumption
<1>2. ASSUME NEW n \in Nonces
      PROVE  Forget(n, w).of # w /\ Forget(n, w).of \in {n.of, NoWork}
  BY <1>1, <1>2 DEF Forget, Nonces
<1>3. item \in Nonces /\ nstore \in Seq(Nonces)
  BY DEF TypeOK
<1>4. \A k \in DOMAIN nstore : nstore[k] \in Nonces
  BY <1>3
<1>5. item' = Forget(item, w) /\ nstore' = [k \in DOMAIN nstore |-> Forget(nstore[k], w)]
  BY DEF free_work
<1> QED BY <1>2, <1>3, <1>4, <1>5

\* The work of a nonce leaves the ring only into old_work, and that only to be
\* freed.
LEMMA NextOfInRing == GekkoInv /\ OfInRing /\ [Next]_vars => OfInRing'
<1> SUFFICES ASSUME GekkoInv, OfInRing, [Next]_vars
             PROVE  OfInRing'
  OBVIOUS
<1>1. TypeOK /\ nstore \in Seq(Nonces)
  BY DEF GekkoInv, TypeOK
<1>2. ASSUME UNCHANGED <<ring, old_work, item, nstore>>
      PROVE  OfInRing'
  BY <1>2 DEF OfInRing, InRingOrOld
<1>3. ASSUME NEW w \in Works, free_work(w), ring' = ring, old_work' = old_work \/ w = old_work
      PROVE  OfInRing'
  <2>1. ASSUME NEW x, InRingOrOld(x), x # w
        PROVE  InRingOrOld(x)'
    BY <1>3, <2>1 DEF InRingOrOld
  <2>2. InRingOrOld(NoWork)'
    BY DEF InRingOrOld
  <2> QED BY <1>1, <1>3, <2>1, <2>2, FreedOf DEF OfInRing, InRingOrOld
<1>4. ASSUME UNCHANGED <<ring, old_work>>, item' = NoNonce, nstore' = nstore
      PROVE  OfInRing'
  BY <1>4 DEF OfInRing, InRingOrOld, NoNonce
<1>5. CASE \E r \in Restarters : FlushFree(r)
  <2>1. PICK r \in Restarters : FlushFree(r)
    BY <1>5
  <2>2. flushing[r] \in Works
    BY <1>1, <2>1 DEF FlushFree, TypeOK, Pointers
  <2> QED BY <1>3, <2>1, <2>2 DEF FlushFree, mineVars
<1>6. CASE Complete
  <2>1. old_work \in Works
    BY <1>1, <1>6 DEF Complete, TypeOK, Pointers
  <2> QED BY <1>3, <1>6, <2>1 DEF Complete
<1>7. CASE GetStale
  <2>1. unqueued_work \in Works
    BY <1>1, <1>7 DEF GetStale, TypeOK, Pointers
  <2> QED BY <1>3, <1>7, <2>1 DEF GetStale, mineVars
<1>8. CASE Place
  <2>1. old_work = NoWork /\ job_id \in Slots
    BY <1>8, JobAssumption DEF Place, GekkoInv, MineMatches, TypeOK, Slots
  <2>2. old_work' = ring[job_id] /\ ring' = [ring EXCEPT ![job_id] = new] /\ ring \in [Slots -> Pointers]
    BY <1>1, <1>8 DEF Place, TypeOK
  <2>3. ASSUME NEW x, InRingOrOld(x)
        PROVE  InRingOrOld(x)'
    <3>1. CASE x = NoWork
      BY <3>1 DEF InRingOrOld
    <3>2. CASE x # NoWork
      <4>1. PICK j \in Slots : x = ring[j]
        BY <2>1, <2>3, <3>2 DEF InRingOrOld
      <4>2. x = old_work' \/ x = ring'[j]
        BY <2>2, <4>1
      <4> QED BY <4>1, <4>2 DEF InRingOrOld
    <3> QED BY <3>1, <3>2
  <2> QED BY <1>8, <2>3 DEF Place, nonceVars, OfInRing
<1>9. CASE Listen
  <2>1. PICK w \in {ring[j] : j \in sent} \cup {NoWork}, i \in Slots :
              nstore' = Append(nstore, [of |-> w, id |-> i])
    BY <1>9 DEF Listen
  <2>2. InRingOrOld(w)
    BY <1>1 DEF InRingOrOld, TypeOK
  <2>3. UNCHANGED <<ring, old_work, item>>
    BY <1>9 DEF Listen, mineVars, nonceVars
  <2>4. ASSUME NEW k \in DOMAIN nstore'
        PROVE  InRingOrOld(nstore'[k].of)
    <3>1. Len(nstore') = Len(nstore) + 1 /\ k \in 1 .. Len(nstore) + 1
      BY <1>1, <2>1
    <3>2. nstore'[k] = IF k <= Len(nstore) THEN nstore[k] ELSE [of |-> w, id |-> i]
      BY <1>1, <2>1, <3>1
    <3> QED BY <1>1, <2>2, <3>1, <3>2 DEF OfInRing
  <2> QED BY <2>3, <2>4 DEF OfInRing, InRingOrOld
<1>10. CASE TakeNonce
  <2>1. nstore # <<>> /\ item' = Head(nstore) /\ nstore' = Tail(nstore) /\ UNCHANGED <<ring, old_work>>
    BY <1>10 DEF TakeNonce, mineVars
  <2>2. item' = nstore[1] /\ 1 \in DOMAIN nstore
    BY <1>1, <2>1
  <2>3. \A k \in DOMAIN nstore' : k + 1 \in DOMAIN nstore /\ nstore'[k] = nstore[k + 1]
    BY <1>1, <2>1, HeadTailProperties
  <2>4. InRingOrOld(item'.of) /\ \A k \in DOMAIN nstore' : InRingOrOld(nstore'[k].of)
    BY <2>2, <2>3 DEF OfInRing
  <2> QED BY <2>1, <2>4 DEF OfInRing, InRingOrOld
<1>11. CASE Duplicate \/ Dump \/ Submit
  BY <1>4, <1>11 DEF Duplicate, Dump, Submit, NonceDone, mineVars
<1>12. CASE \/ Fetch \/ Offer \/ (\E r \in Restarters : FlushTake(r)) \/ Outdate \/ GetQueued \/ Bump \/ Roll
            \/ Send \/ LockInfo \/ Look \/ TestRight \/ TestWrong \/ UNCHANGED vars
  BY <1>2, <1>12 DEF Fetch, Offer, FlushTake, Outdate, GetQueued, Bump, Roll, Send, LockInfo, Look, TestRight,
     TestWrong, vars, mineVars, nonceVars
<1> QED BY <1>5, <1>6, <1>7, <1>8, <1>9, <1>10, <1>11, <1>12 DEF Next, MineStep, NonceStep

\* Whatever the nonce thread has tried, the task of the nonce is not behind it.
LEMMA NextNotPassed == LookupInv /\ [Next]_vars => NotPassed'
<1> SUFFICES ASSUME LookupInv, [Next]_vars,
                    NEW i \in DOMAIN recent', NotRolledTo(i)', item'.of # NoWork,
                    ring'[recent'[i]] = item'.of
             PROVE  BehindTries(recent[i])'
  BY DEF NotPassed
<1> USE JobAssumption, BoundsAssumption
<1>1. /\ TypeOK /\ MineMatches /\ JobMatches /\ OfInRing /\ NotPassed
      /\ recent \in Seq(Slots) /\ job_id \in 0 .. max_job_id + 1 /\ ring \in [Slots -> Pointers]
      /\ try \in 0 .. Attempts + 1 /\ old_work \in Pointers /\ item \in Nonces /\ live \in [Works -> {"free", "fresh", "stale"}]
  BY DEF LookupInv, GekkoInv, TypeOK
<1>2. \A k \in DOMAIN recent : k \in Nat \ {0} /\ recent[k] \in 0 .. max_job_id /\ recent[k] \in Slots
  BY <1>1 DEF Slots
\* Steps that touch neither the ring nor the place of the nonce thread
<1>3. ASSUME UNCHANGED <<ring, recent, nonce, try, found>>, item'.of \in {item.of, NoWork},
             job_id' \in Nat, job_id <= job_id', NotRolledTo(i)
      PROVE  BehindTries(recent[i])'
  <2>1. recent[i] \in Nat /\ BehindTries(recent[i])
    BY <1>1, <1>2, <1>3 DEF NotPassed
  <2> QED BY <1>1, <1>3, <2>1 DEF BehindTries
<1>4. ASSUME UNCHANGED <<ring, recent, job_id>>, (mine' # "roll") \/ mine = "roll", mine # "roll" \/ mine' = "roll",
             item'.of \in {item.of, NoWork}
      PROVE  NotRolledTo(i) /\ ring[recent[i]] = item.of /\ i \in DOMAIN recent /\ item.of # NoWork
  BY <1>4 DEF NotRolledTo
<1>5. ASSUME nonce' \in {"idle", "start", "submit"}
      PROVE  BehindTries(recent[i])'
  BY <1>5 DEF BehindTries
<1>6. CASE \E r \in Restarters : FlushFree(r)
  <2>1. PICK r \in Restarters : FlushFree(r)
    BY <1>6
  <2>2. flushing[r] \in Works
    BY <1>1, <2>1 DEF FlushFree, TypeOK, Pointers
  <2>3. item'.of \in {item.of, NoWork}
    BY <1>1, <2>1, <2>2, FreedOf DEF FlushFree
  <2> QED BY <1>1, <1>3, <1>4, <2>1, <2>3 DEF FlushFree, mineVars
<1>7. CASE Complete
  <2>1. item'.of \in {item.of, NoWork}
    BY <1>1, <1>7, FreedOf DEF Complete, Pointers
  <2> QED BY <1>1, <1>3, <1>4, <1>7, <2>1 DEF Complete
<1>8. CASE GetStale
  <2>1. unqueued_work \in Works
    BY <1>1, <1>8 DEF GetStale, TypeOK, Pointers
  <2>2. item'.of \in {item.of, NoWork}
    BY <1>1, <1>8, <2>1, FreedOf DEF GetStale
  <2> QED BY <1>1, <1>3, <1>4, <1>8, <2>2 DEF GetStale, mineVars
<1>9. CASE \/ Fetch \/ Offer \/ (\E r \in Restarters : FlushTake(r)) \/ Outdate \/ GetQueued \/ Send \/ Listen
           \/ UNCHANGED vars
  <2>1. /\ UNCHANGED <<ring, recent, nonce, try, found, job_id, item>>
        /\ mine' # "roll" \/ mine = "roll"
        /\ mine # "roll" \/ mine' = "roll"
    BY <1>9 DEF Fetch, Offer, FlushTake, Outdate, GetQueued, Send, Listen, vars, mineVars, nonceVars
  <2> QED BY <1>1, <1>3, <1>4, <2>1
\* job_id comes from the newest id, and goes on.
<1>10. CASE Bump
  <2>1. UNCHANGED <<ring, recent, nonce, try, found, item>> /\ job_id' = job_id + 1 /\ mine = "bump"
    BY <1>10 DEF Bump, nonceVars
  <2>2. recent # <<>> /\ 1 \in DOMAIN recent /\ job_id = recent[1]
    BY <1>1, <2>1 DEF JobMatches
  <2>3. NotRolledTo(i)
    BY <1>1, <2>1, <2>2 DEF NotRolledTo
  <2> QED BY <1>1, <1>3, <2>1, <2>3
\* job_id is set back: the tasks are not consecutive any more.
<1>11. CASE Roll
  <2>1. UNCHANGED recent /\ job_id' = min_job_id /\ mine = "roll" /\ mine' = "place"
    BY <1>11 DEF Roll
  <2>2. recent # <<>> /\ 1 \in DOMAIN recent /\ job_id = recent[1] + 1 /\ job_id = max_job_id + 1
    BY <1>1, <2>1 DEF JobMatches, MineMatches
  <2>3. min_job_id >= recent[1]
    BY <2>1 DEF NotRolledTo
  <2> QED BY <1>2, <2>2, <2>3
\* The new task has no nonce yet, and every other keeps its slot.
<1>12. CASE Place
  <2>1. /\ mine = "place" /\ mine' = "send" /\ ring' = [ring EXCEPT ![job_id] = new]
        /\ UNCHANGED <<job_id, item, nonce, try, found>> /\ old_work = NoWork /\ job_id \in Slots
    BY <1>1, <1>12 DEF Place, nonceVars, MineMatches, Slots
  <2>2. /\ recent' # <<>> /\ recent'[1] = job_id
        /\ \A k \in DOMAIN recent' :
             /\ k \in Nat \ {0} /\ 1 .. k \subseteq DOMAIN recent'
             /\ k # 1 => k - 1 \in DOMAIN recent /\ recent'[k] = recent[k - 1]
    BY <1>1, <1>12, <2>1, RecentShifted DEF Place
  <2>3. i # 1
    <3>1. SUFFICES ASSUME i = 1 PROVE FALSE
      OBVIOUS
    <3>2. item.of = new
      BY <1>1, <2>1, <2>2, <3>1
    <3>3. PICK j \in Slots : new = ring[j]
      BY <1>1, <2>1, <3>2 DEF OfInRing, InRingOrOld
    <3> QED BY <2>1, <3>2, <3>3 DEF LookupInv, GekkoInv, WorkOwned, InRing
  <2> DEFINE k == i - 1
  <2>4. k \in DOMAIN recent /\ k \in Nat \ {0} /\ i = k + 1 /\ recent'[i] = recent[k]
    BY <1>2, <2>2, <2>3
  <2> HIDE DEF k
  <2>5. ASSUME NEW j \in 1 .. k
        PROVE  recent[j] >= min_job_id /\ recent[j] = job_id - j
    <3>1. j + 1 \in 1 .. i /\ j + 1 \in DOMAIN recent' /\ j + 1 # 1 /\ (j + 1) - 1 = j
      BY <2>2, <2>4
    <3>2. recent'[j + 1] = recent[j]
      BY <2>2, <3>1
    <3> QED BY <2>1, <2>2, <3>1, <3>2 DEF NotRolledTo
  <2>6. NotRolledTo(k)
    <3>1. recent[1] = job_id - 1
      BY <2>4, <2>5
    <3>2. job_id \in Int
      BY <1>1
    <3>3. ASSUME NEW j \in 1 .. k
          PROVE  recent[j] >= min_job_id /\ recent[j] = recent[1] - (j - 1)
      <4>1. recent[j] >= min_job_id /\ recent[j] = job_id - j /\ j \in Int
        BY <2>5
      <4> QED BY <3>1, <3>2, <4>1
    <3> QED BY <3>1, <3>2, <3>3 DEF NotRolledTo
  <2>7. recent[k] = job_id - k /\ recent[k] # job_id
    BY <1>1, <2>4, <2>5
  <2>8. ring[recent[k]] = item.of
    BY <1>1, <1>2, <2>1, <2>4, <2>7
  <2>9. BehindTries(recent[k])
    BY <1>1, <2>1, <2>4, <2>6, <2>8 DEF NotPassed
  <2> QED BY <2>1, <2>4, <2>9 DEF BehindTries
<1>13. CASE TakeNonce \/ Duplicate \/ Dump \/ Submit \/ TestRight
  BY <1>5, <1>13 DEF TakeNonce, Duplicate, Dump, Submit, TestRight, NonceDone
<1>14. ASSUME UNCHANGED <<item, mineVars>>
       PROVE  /\ i \in DOMAIN recent /\ recent'[i] = recent[i] /\ ring[recent[i]] = item.of /\ item.of # NoWork
              /\ BehindTries(recent[i])
              /\ recent[i] <= job_id /\ recent[i] >= min_job_id
  <2>1. i \in DOMAIN recent /\ recent'[i] = recent[i] /\ ring[recent[i]] = item.of /\ item.of # NoWork /\ NotRolledTo(i)
    BY <1>4, <1>14 DEF mineVars
  <2>2. recent[i] >= min_job_id /\ recent[i] = recent[1] - (i - 1) /\ recent[1] \in Nat /\ i \in Nat \ {0}
    BY <1>1, <1>2, <2>1 DEF NotRolledTo
  <2>3. recent[1] <= job_id
    <3>1. recent[1] <= max_job_id
      BY <1>1, <1>2, <2>1
    <3>2. mine = "roll" => job_id > max_job_id
      BY <1>1 DEF MineMatches
    <3>3. mine # "roll" => job_id >= recent[1]
      BY <2>1 DEF NotRolledTo
    <3> QED BY <1>1, <2>2, <3>1, <3>2, <3>3
  <2> QED BY <1>1, <2>1, <2>2, <2>3 DEF NotPassed
<1>15. CASE LockInfo
  <2>1. nonce' = "look" /\ try' = try /\ try = 0
    BY <1>1, <1>15 DEF LockInfo, MineMatches
  <2> QED BY <2>1 DEF BehindTries
<1>16. CASE Look
  <2>1. /\ UNCHANGED <<item, mineVars, job_id, recent, try>> /\ nonce = "look" /\ nonce' = "test"
        /\ found' = ring[Slot]
    BY <1>16 DEF Look, mineVars
  <2>2. CASE try = 0
    BY <2>1, <2>2 DEF BehindTries
  <2>3. CASE try # 0 /\ found' # item.of
    <3> DEFINE back == try - 1
    <3>1. back \in Nat /\ try = back + 1 /\ Slot = JOB_ID_ROLL(job_id, back)
      BY <1>1, <2>3 DEF Slot
    <3> HIDE DEF back
    <3>2. recent[i] \in Nat /\ recent[i] >= min_job_id /\ recent[i] <= max_job_id /\ recent[i] <= job_id - back
      BY <1>1, <1>2, <1>14, <2>1, <3>1 DEF BehindTries
    <3>3. recent[i] # job_id - back
      <4>1. SUFFICES ASSUME recent[i] = job_id - back PROVE FALSE
        OBVIOUS
      <4>2. JOB_ID_ROLL(job_id, back) = recent[i]
        BY <1>1, <3>1, <3>2, <4>1, RollIsBack
      <4> QED BY <1>14, <2>1, <2>3, <3>1, <4>2
    <3>4. recent[i] <= job_id - try
      BY <1>1, <3>1, <3>2, <3>3
    <3> QED BY <2>1, <3>4 DEF BehindTries
  <2>4. CASE found' = item.of
    BY <2>1, <2>4 DEF BehindTries
  <2> QED BY <2>2, <2>3, <2>4
<1>17. CASE TestWrong
  <2>1. /\ UNCHANGED <<item, mineVars, job_id, recent>> /\ nonce = "test"
        /\ (found = NoWork \/ found # item.of) /\ try' = try + 1
        /\ nonce' = (IF try < Attempts THEN "look" ELSE "dump")
    BY <1>17 DEF TestWrong, mineVars
  <2>2. recent[i] \in Nat /\ recent[i] <= job_id /\ (try > 0 => recent[i] <= job_id - try)
    BY <1>1, <1>2, <1>14, <2>1 DEF BehindTries
  <2>3. nonce' = "look" => recent[i] <= job_id - (try' - 1)
    BY <1>1, <2>1, <2>2
  <2>4. nonce' = "dump" => recent[i] <= job_id - Attempts
    BY <1>1, <2>1, <2>2
  <2> QED BY <2>1, <2>3, <2>4 DEF BehindTries
<1> QED BY <1>6, <1>7, <1>8, <1>9, <1>10, <1>11, <1>12, <1>13, <1>15, <1>16, <1>17 DEF Next, MineStep, NonceStep

\* Every step of every thread keeps the invariant of the search.
LEMMA NextLookupInv == LookupInv /\ [Next]_vars => LookupInv'
<1> SUFFICES ASSUME LookupInv, [Next]_vars PROVE LookupInv'
  OBVIOUS
<1>1. GekkoInv' /\ JobMatches' /\ OfInRing' /\ NotPassed'
  BY NextGekkoInv, NextJobMatches, NextOfInRing, NextNotPassed DEF LookupInv
<1> QED BY <1>1 DEF LookupInv

\* The attempts left out by then have all an id too small to be counted.
LEMMA LookupRecovers == LookupInv => RecoveredUnlessRolled
<1> SUFFICES ASSUME LookupInv, nonce = "dump", NotRolled, item.of \in LastWork
             PROVE  FALSE
  BY DEF RecoveredUnlessRolled
<1> USE JobAssumption, BoundsAssumption
<1>1. /\ recent \in Seq(Slots) /\ job_id \in 0 .. max_job_id + 1 /\ MineMatches /\ JobMatches /\ NotPassed
  BY DEF LookupInv, GekkoInv, TypeOK
<1>2. PICK i \in DOMAIN recent : i <= Counted /\ ring[recent[i]] = item.of /\ item.of # NoWork
  BY DEF LastWork
<1>3. i \in Nat \ {0} /\ recent # <<>> /\ recent[1] \in Nat /\ 1 .. i \subseteq DOMAIN recent
  BY <1>1 DEF Slots
<1>4. NotRolledTo(i) /\ recent[i] = recent[1] - (i - 1)
  BY <1>1, <1>3 DEF NotRolled, NotRolledTo
<1>5. recent[i] <= job_id - Attempts
  BY <1>1, <1>2, <1>4 DEF NotPassed, BehindTries
<1>6. CASE mine \in {"roll", "place"}
  <2>1. job_id = recent[1] + 1 \/ (job_id = min_job_id /\ recent[1] = max_job_id /\ mine = "place")
    BY <1>1, <1>3, <1>6 DEF JobMatches
  <2>2. job_id = recent[1] + 1
    BY <1>3, <2>1 DEF NotRolled
  <2> QED BY <1>2, <1>3, <1>4, <1>5, <1>6, <2>2 DEF Counted
<1>7. CASE mine \notin {"roll", "place"}
  <2>1. job_id = recent[1]
    BY <1>1, <1>3, <1>7 DEF JobMatches, LookupInv, GekkoInv, TypeOK
  <2> QED BY <1>2, <1>3, <1>4, <1>5, <1>7, <2>1 DEF Counted
<1> QED BY <1>6, <1>7

\* The search for the work of a nonce never passes it while mine moves on
\* (driver-gekko.c compac_gsf_nonce, compac_mine2).
THEOREM LookupInvariant == Spec => []LookupInv
<1>1. Init => LookupInv
  BY InitGekkoInv DEF Init, LookupInv, JobMatches, OfInRing, InRingOrOld, NoNonce, NotPassed
<1> QED BY <1>1, NextLookupInv, PTL DEF Spec

\* The work of a nonce is found among that of the last tasks, if their ids are
\* consecutive.
THEOREM RecoveredUnlessRolledHolds == Spec => []RecoveredUnlessRolled
  BY LookupInvariant, LookupRecovers, PTL

---------------------------------------------------------------------------
(* The states: GekkoStick *)

\* The miner thread, compac_scanwork, keeps the invariant.
LEMMA ScanStepInv == StickInv /\ ScanStep => StickInv'
<1> SUFFICES ASSUME StickInv, ScanStep PROVE StickInv'
  OBVIOUS
<1> USE CountAssumption, ResetsAssumption DEF StickInv, StickTypeOK, ChipsKnown, TelemetryKnown, States, Mining, Opening, BroughtTo, Reset, countVars, devVars, tthrVars, restVars
<1>1. ASSUME ScanGone PROVE StickInv'
  BY <1>1 DEF ScanGone, ScanGoes, ScanStep
<1>2. ASSUME Shutdown PROVE StickInv'
  BY <1>2 DEF Shutdown, ScanGoes, ScanStep
<1>3. ASSUME ScanRead PROVE StickInv'
  BY <1>3 DEF ScanRead, ScanStep, Slow
<1>4. ASSUME ScanQuick PROVE StickInv'
  BY <1>4 DEF ScanQuick, ScanGoes, ScanStep, Slow
<1>5. ASSUME ScanReinit PROVE StickInv'
  BY <1>5 DEF ScanReinit, ScanGoes, ScanStep
<1>6. ASSUME ScanInit PROVE StickInv'
  <2>a. overwritten' \in BOOLEAN
    BY <1>6 DEF ScanInit
  <2>b. /\ mining_state' = "CHIP_COUNT" /\ chips' = 0 /\ miner' = "after"
        /\ UNCHANGED <<kind, dev_init_count, init_count, pointer, deven, nodev, rthr, wthr, nthr,
                       tthr, has_telem, fail_telem, resets>>
    BY <1>6 DEF ScanInit, ScanGoes, ScanStep
  <2>1. StickTypeOK'
    BY <2>a, <2>b
  <2>2. mining_state' = "CHIP_COUNT" /\ miner' = "after"
    BY <1>6 DEF ScanInit, ScanGoes
  <2> QED BY <2>1, <2>2
<1>7. ASSUME ScanOpen PROVE StickInv'
  BY <1>7 DEF ScanOpen, ScanStep
<1>8. ASSUME ScanStart PROVE StickInv'
  BY <1>8 DEF ScanStart, ScanGoes, ScanStep
<1>9. ASSUME ScanPrepare PROVE StickInv'
  BY <1>9 DEF ScanPrepare, ScanGoes, ScanStep
<1>10. ASSUME ScanJudge PROVE StickInv'
  BY <1>10 DEF ScanJudge, ScanGoes, ScanStep
<1>11. ASSUME ScanReset PROVE StickInv'
  BY <1>11 DEF ScanReset, ScanGoes, ScanStep
<1>12. ASSUME ScanForget PROVE StickInv'
  <2>a. has_telem' \in BOOLEAN
    BY <1>12 DEF ScanForget
  <2>b. /\ fail_telem' = 0 /\ miner' = "after"
        /\ UNCHANGED <<kind, mining_state, chips, dev_init_count, init_count, pointer, deven, nodev,
                       rthr, wthr, nthr, tthr, resets, overwritten>>
    BY <1>12 DEF ScanForget, ScanGoes, ScanStep
  <2>1. StickTypeOK'
    BY <2>a, <2>b
  <2>2. /\ miner = "forget" /\ miner' = "after"
        /\ UNCHANGED <<kind, mining_state, chips, overwritten>>
    BY <1>12 DEF ScanForget, ScanGoes, ScanStep
  <2> QED BY <2>1, <2>2
<1>13. ASSUME ScanAfter PROVE StickInv'
  BY <1>13 DEF ScanAfter, ScanGoes, ScanStep
<1> QED BY <1>1, <1>2, <1>3, <1>4, <1>5, <1>6, <1>7, <1>8, <1>9, <1>10, <1>11, <1>12, <1>13 DEF ScanStep

\* The listener, compac_listen2, keeps the invariant.
LEMMA RthrStepInv == StickInv /\ RthrStep => StickInv'
<1> SUFFICES ASSUME StickInv, RthrStep PROVE StickInv'
  OBVIOUS
<1> USE CountAssumption, ResetsAssumption DEF StickInv, StickTypeOK, ChipsKnown, TelemetryKnown, States, Mining, Opening, BroughtTo, Reset, countVars, devVars, tthrVars, restVars
<1>1. ASSUME ListenTop PROVE StickInv'
  BY <1>1 DEF ListenTop, ListenGoes, RthrStep
<1>2. ASSUME SendChippy PROVE StickInv'
  <2>1. StickTypeOK'
    BY <1>2 DEF SendChippy, ListenGoes, RthrStep
  <2>2. /\ mining_state' = "CHIP_COUNT_XX"
        /\ overwritten' \/ (mining_state = "CHIP_COUNT" /\ ~overwritten)
        /\ UNCHANGED <<kind, chips, miner, has_telem, fail_telem>>
    BY <1>2 DEF SendChippy, ListenGoes, RthrStep
  <2> QED BY <2>1, <2>2
<1>3. ASSUME ReadChip PROVE StickInv'
  BY <1>3 DEF ReadChip, RthrStep
<1>4. ASSUME CountChips PROVE StickInv'
  BY <1>4 DEF CountChips, RthrStep
<1>5. ASSUME Forgive PROVE StickInv'
  BY <1>5 DEF Forgive, ListenGoes, RthrStep
<1>6. ASSUME ReadNonce PROVE StickInv'
  BY <1>6 DEF ReadNonce, ListenGoes, RthrStep
<1>7. ASSUME ReadNothing PROVE StickInv'
  BY <1>7 DEF ReadNothing, ListenGoes, RthrStep
<1> QED BY <1>1, <1>2, <1>3, <1>4, <1>5, <1>6, <1>7 DEF RthrStep

\* The mining thread, compac_mine2, keeps the invariant.
LEMMA WthrStepInv == StickInv /\ WthrStep => StickInv'
<1> SUFFICES ASSUME StickInv, WthrStep PROVE StickInv'
  OBVIOUS
<1> USE CountAssumption, ResetsAssumption DEF StickInv, StickTypeOK, ChipsKnown, TelemetryKnown, States, Mining, Opening, BroughtTo, Reset, countVars, devVars, tthrVars, restVars
<1>1. ASSUME MineTop PROVE StickInv'
  BY <1>1 DEF MineTop, MineGoes, WthrStep
<1>2. ASSUME MineSent PROVE StickInv'
  BY <1>2 DEF MineSent, MineGoes, WthrStep
<1>3. ASSUME MineReset PROVE StickInv'
  BY <1>3 DEF MineReset, MineGoes, WthrStep
<1> QED BY <1>1, <1>2, <1>3 DEF WthrStep

\* The nonce thread, keeps the invariant.
LEMMA NthrStepInv == StickInv /\ NthrStep => StickInv'
<1> SUFFICES ASSUME StickInv, NthrStep PROVE StickInv'
  OBVIOUS
<1> USE CountAssumption, ResetsAssumption DEF StickInv, StickTypeOK, ChipsKnown, TelemetryKnown, States, Mining, Opening, BroughtTo, Reset, countVars, devVars, tthrVars, restVars
<1>1. ASSUME NonceEnds PROVE StickInv'
  BY <1>1 DEF NonceEnds, NthrStep
<1>2. ASSUME NonceHandled PROVE StickInv'
  BY <1>2 DEF NonceHandled, NonceGoes, NthrStep
<1>3. ASSUME NonceDup PROVE StickInv'
  <2>1. StickTypeOK'
    BY <1>3 DEF NonceDup, NonceGoes, NthrStep
  <2>2. /\ mining_state' \in {mining_state, "MINING_DUPS"}
        /\ overwritten' \/ (~overwritten /\ (mining_state' = mining_state \/ mining_state \in Mining))
        /\ UNCHANGED <<kind, chips, miner, has_telem, fail_telem>>
    BY <1>3 DEF NonceDup, NonceGoes, NthrStep
  <2> QED BY <2>1, <2>2
<1> QED BY <1>1, <1>2, <1>3 DEF NthrStep

\* The telemetry thread, compac_telemetry, keeps the invariant.
LEMMA TthrStepInv == StickInv /\ TthrStep => StickInv'
<1> SUFFICES ASSUME StickInv, TthrStep PROVE StickInv'
  OBVIOUS
<1> USE CountAssumption, ResetsAssumption DEF StickInv, StickTypeOK, ChipsKnown, TelemetryKnown, States, Mining, Opening, BroughtTo, Reset, countVars, devVars, tthrVars, restVars
<1>1. ASSUME TelemTop PROVE StickInv'
  <2>a. has_telem' \in BOOLEAN
    BY <1>1 DEF TelemTop
  <2>b. /\ mining_state' \in {mining_state, "OPEN_CORE"} /\ tthr' \in {"ended", "enable", "top", "check"}
        /\ UNCHANGED <<kind, chips, dev_init_count, init_count, pointer, deven, nodev, miner,
                       rthr, wthr, nthr, fail_telem, resets, overwritten>>
    BY <1>1 DEF TelemTop, TelemGoes, TthrStep
  <2>1. StickTypeOK'
    BY <2>a, <2>b
  <2>2. UNCHANGED <<kind, chips, miner, fail_telem, overwritten>>
    BY <1>1 DEF TelemTop, TelemGoes, TthrStep
  <2>3. \/ UNCHANGED <<mining_state, has_telem>>
        \/ /\ mining_state = "CHIP_COUNT_OK"
           /\ mining_state' = "CHIP_COUNT_OK" \/ (mining_state' = "OPEN_CORE" /\ fail_telem > TELEM_FAIL_MAX)
    BY <1>1 DEF TelemTop, TelemGoes, TthrStep
  <2> QED BY <2>1, <2>2, <2>3
<1>2. ASSUME TelemEnabled PROVE StickInv'
  <2>1. StickTypeOK'
    BY <1>2 DEF TelemEnabled, TelemGoes, TthrStep
  <2>2. /\ mining_state' = "OPEN_CORE" /\ has_telem'
        /\ overwritten' \/ (mining_state = "CHIP_COUNT_OK" /\ ~overwritten)
        /\ UNCHANGED <<kind, chips, miner, fail_telem>>
    BY <1>2 DEF TelemEnabled, TelemGoes, TthrStep
  <2> QED BY <2>1, <2>2
<1>3. ASSUME TelemFails PROVE StickInv'
  BY <1>3 DEF TelemFails, TelemGoes, TthrStep
<1>4. ASSUME TelemCheck PROVE StickInv'
  BY <1>4 DEF TelemCheck, TelemGoes, TthrStep
<1> QED BY <1>1, <1>2, <1>3, <1>4 DEF TthrStep

\* Every step of every thread, and of what is around the stick, keeps it.
LEMMA NextStickInv == StickInv /\ [StickNext]_stickVars => StickInv'
<1> SUFFICES ASSUME StickInv, [StickNext]_stickVars PROVE StickInv'
  OBVIOUS
<1> USE CountAssumption, ResetsAssumption
    DEF StickInv, StickTypeOK, ChipsKnown, TelemetryKnown, States, Mining, Opening, BroughtTo, Reset,
        countVars, devVars, tthrVars
<1>1. ASSUME ApiReset PROVE StickInv'
  BY <1>1 DEF ApiReset
<1>2. ASSUME Unplug PROVE StickInv'
  BY <1>2 DEF Unplug
<1>3. ASSUME OtherStick PROVE StickInv'
  BY <1>3 DEF OtherStick, OtherPrepares, OtherForgives
<1>4. CASE UNCHANGED stickVars
  BY <1>4 DEF stickVars
<1> QED BY <1>1, <1>2, <1>3, <1>4, ScanStepInv, RthrStepInv, WthrStepInv, NthrStepInv, TthrStepInv
        DEF StickNext

LEMMA InitStickInv == StickInit => StickInv
<1> SUFFICES ASSUME StickInit PROVE StickInv
  OBVIOUS
<1>1. nodev \in BOOLEAN /\ has_telem \in BOOLEAN /\ overwritten \in BOOLEAN
  BY DEF StickInit, Dropped
<1>2. /\ kind \in Kinds /\ mining_state = "INIT" /\ chips = 0 /\ miner = "after"
      /\ dev_init_count \in 0 .. CountSize - 1 /\ init_count = dev_init_count
      /\ pointer = "own" /\ deven \in {"ENABLED", "DISABLED"}
      /\ rthr = "top" /\ wthr = "top" /\ nthr = "top" /\ tthr \in {"ended", "top"}
      /\ fail_telem = 0 /\ resets = 0
  BY DEF StickInit
<1> QED BY <1>1, <1>2, ResetsAssumption
        DEF StickInv, StickTypeOK, ChipsKnown, TelemetryKnown, States, Mining, Opening, BroughtTo

\* What the threads of a stick know of its chips and of its telemetry is true as
\* long as none overwrites what another wrote (driver-gekko.c, mining_state).
THEOREM StickInvariant == StickSpec => []StickInv
  BY InitStickInv, NextStickInv, PTL DEF StickSpec

\* The states of a stick and of its threads, and the counts of its resets, are
\* those the code has.
THEOREM StickTypeOKHolds == StickSpec => []StickTypeOK
  BY StickInvariant, PTL DEF StickInv

\* A stick mines with counted chips.
THEOREM MinesWithChipsHolds == StickSpec => []MinesWithChips
<1>1. StickInv => MinesWithChips
  BY DEF StickInv, ChipsKnown, BroughtTo, MinesWithChips
<1> QED BY <1>1, StickInvariant, PTL

\* A stick that mines has its temperature watched, or telemetry failed too often.
THEOREM OverheatWatchedHolds == StickSpec => []OverheatWatched
<1>1. StickInv => OverheatWatched
  BY DEF StickInv, TelemetryKnown, BroughtTo, OverheatWatched
<1> QED BY <1>1, StickInvariant, PTL

=============================================================================
