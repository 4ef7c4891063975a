--------------------------- MODULE WorkQueue_proofs ---------------------------
(***************************************************************************)
(* Proofs about the staged work queue of cgminer.c.  The inductive         *)
(* invariant IInv is proved in two parts: SInv, which says who points to   *)
(* which work item and who sleeps, and RollableBound, which compares the   *)
(* counter staged_rollable with a cardinality and needs SInv.              *)
(***************************************************************************)
EXTENDS WorkQueue, FiniteSetTheorems, TLAPS

\* The part of IInv that does not count anything
SInv ==
    /\ TypeOK
    /\ PointersMatch
    /\ OwnedOnce
    /\ UnrollableInHand
    /\ NoMinerSleepsOnWork
    /\ NoMutualSleep

\* Relabelling an item as current, old or a clone keeps it an item; unused
\* memory holds none.
LEMMA ItemTypes ==
  /\ Blank \notin Items
  /\ AsOld(Blank) = Blank
  /\ ~Blank.rollable
  /\ \A i \in Items :
        /\ AsCurrent(i) \in Items /\ AsCurrent(i).rollable = i.rollable
        /\ AsOld(i) \in Items /\ AsOld(i).rollable = i.rollable
        /\ AsClone(i) \in Items /\ ~AsClone(i).rollable
        /\ Superseded(i) \in Items /\ Superseded(i).rollable = i.rollable
  /\ \A p \in Pools, r \in BOOLEAN : NewItem(p, r) \in Items /\ NewItem(p, r).rollable = r
<1> USE DEF Items, Blank, Pools
<1>1. Blank \notin Items
  BY PoolsAssumption
<1>2. AsOld(Blank) = Blank /\ ~Blank.rollable
  BY DEF AsOld
<1>3. ASSUME NEW i \in Items
      PROVE  AsCurrent(i) \in Items /\ AsCurrent(i).rollable = i.rollable
  BY DEF AsCurrent
<1>4. ASSUME NEW i \in Items
      PROVE  AsOld(i) \in Items /\ AsOld(i).rollable = i.rollable
  BY DEF AsOld
<1>5. ASSUME NEW i \in Items
      PROVE  AsClone(i) \in Items /\ ~AsClone(i).rollable
  BY DEF AsClone
<1>6. ASSUME NEW p \in Pools, NEW r \in BOOLEAN
      PROVE  NewItem(p, r) \in Items /\ NewItem(p, r).rollable = r
  BY DEF NewItem
<1>7. ASSUME NEW i \in Items
      PROVE  Superseded(i) \in Items /\ Superseded(i).rollable = i.rollable
  BY DEF Superseded
<1> HIDE DEF Items, Blank, Pools
<1> QED BY <1>1, <1>2, <1>3, <1>4, <1>5, <1>6, <1>7

\* A new block changes neither which memory is in use nor what may be rolled.
LEMMA OutdatedItems ==
  ASSUME work \in [Works -> Items \cup {Blank}]
  PROVE  /\ Outdated \in [Works -> Items \cup {Blank}]
         /\ \A w \in Works : (Outdated[w] = Blank) <=> (work[w] = Blank)
         /\ \A w \in Works : Outdated[w].rollable = work[w].rollable
  BY ItemTypes DEF Outdated

\* Nor does a new job.
LEMMA OldJobItems ==
  ASSUME work \in [Works -> Items \cup {Blank}], NEW p \in StratumPools
  PROVE  /\ OldJob(p) \in [Works -> Items \cup {Blank}]
         /\ \A w \in Works : (OldJob(p)[w] = Blank) <=> (work[w] = Blank)
         /\ \A w \in Works : OldJob(p)[w].rollable = work[w].rollable
<1>1. Blank.pool # p
  BY PoolsAssumption DEF Blank
<1>2. \A w \in Works : work[w].pool = p => work[w] \in Items
  BY <1>1
<1> QED BY <1>2, ItemTypes DEF OldJob

\* The number of miners and the length of the queue are numbers.
LEMMA CountTypes ==
  ASSUME staged \subseteq Works
  PROVE  Cardinality(Miners) \in Nat /\ __total_staged \in Nat
  BY MinersAssumption, WorksAssumption, FS_CardinalityType, FS_Subset DEF __total_staged

\* What the scheduler makes is an item, and not rollable.
LEMMA NewItemType ==
  ASSUME NEW p \in Pools
  PROVE  NewItem(p, FALSE) \in Items /\ NewItem(p, FALSE) # Blank /\ ~NewItem(p, FALSE).rollable
  BY PoolsAssumption DEF NewItem, Items, Blank, Pools

\* Every step of every thread keeps the owners of the work items and the two
\* condition variables in order.
LEMMA NextSInv == SInv /\ [Next]_vars => SInv'
<1> SUFFICES ASSUME SInv, [Next]_vars
             PROVE  SInv'
  OBVIOUS
<1> USE WorksAssumption, PoolsAssumption, BoundsAssumption DEF SInv
<1>1. ASSUME NEW m \in Miners, PopWait(m)
      PROVE  SInv'
  <2>1. TypeOK'
    BY <1>1 DEF PopWait, SignalGws, TypeOK, Items, Blank, Pools, queueVars, poolVars, minerVars, gwsVars, lpVars
  <2>2. PointersMatch'
    BY <1>1 DEF PopWait, SignalGws, TypeOK, PointersMatch, queueVars, poolVars, minerVars, gwsVars, lpVars
  <2>3. OwnedOnce'
    BY <1>1 DEF PopWait, SignalGws, TypeOK, PointersMatch, OwnedOnce, InHand, queueVars, poolVars, minerVars, gwsVars, lpVars
  <2>4. UnrollableInHand'
    BY <1>1 DEF PopWait, SignalGws, TypeOK, PointersMatch, OwnedOnce, InHand, UnrollableInHand, work_rollable, queueVars, poolVars, minerVars, gwsVars, lpVars
  <2>5. NoMinerSleepsOnWork' /\ NoMutualSleep'
    BY <1>1 DEF PopWait, SignalGws, TypeOK, NoMinerSleepsOnWork, NoMutualSleep, queueVars, poolVars, minerVars, gwsVars, lpVars
  <2> QED BY <2>1, <2>2, <2>3, <2>4, <2>5 DEF SInv
<1>2. ASSUME NEW m \in Miners, PopTimeout(m)
      PROVE  SInv'
  <2>1. TypeOK'
    BY <1>2 DEF PopTimeout, TypeOK, Items, Blank, Pools, queueVars, poolVars, minerVars, gwsVars, lpVars
  <2>2. PointersMatch'
    BY <1>2 DEF PopTimeout, TypeOK, PointersMatch, queueVars, poolVars, minerVars, gwsVars, lpVars
  <2>3. OwnedOnce'
    BY <1>2 DEF PopTimeout, TypeOK, PointersMatch, OwnedOnce, InHand, queueVars, poolVars, minerVars, gwsVars, lpVars
  <2>4. UnrollableInHand'
    BY <1>2 DEF PopTimeout, TypeOK, PointersMatch, OwnedOnce, InHand, UnrollableInHand, work_rollable, queueVars, poolVars, minerVars, gwsVars, lpVars
  <2>5. NoMinerSleepsOnWork' /\ NoMutualSleep'
    BY <1>2 DEF PopTimeout, TypeOK, NoMinerSleepsOnWork, NoMutualSleep, queueVars, poolVars, minerVars, gwsVars, lpVars
  <2> QED BY <2>1, <2>2, <2>3, <2>4, <2>5 DEF SInv
<1>3. ASSUME NEW m \in Miners, PopTake(m)
      PROVE  SInv'
  <2>1. TypeOK'
    BY <1>3 DEF PopTake, Unstage, Poppable, SignalGws, TypeOK, Items, Blank, Pools, queueVars, poolVars, minerVars, gwsVars, lpVars
  <2>2. PointersMatch'
    BY <1>3 DEF PopTake, Unstage, Poppable, SignalGws, TypeOK, PointersMatch, queueVars, poolVars, minerVars, gwsVars, lpVars
  <2>3. OwnedOnce'
    BY <1>3 DEF PopTake, Unstage, Poppable, SignalGws, TypeOK, PointersMatch, OwnedOnce, InHand, queueVars, poolVars, minerVars, gwsVars, lpVars
  <2>4. UnrollableInHand'
    BY <1>3 DEF PopTake, Unstage, Poppable, SignalGws, TypeOK, PointersMatch, OwnedOnce, InHand, UnrollableInHand, work_rollable, queueVars, poolVars, minerVars, gwsVars, lpVars
  <2>5. NoMinerSleepsOnWork' /\ NoMutualSleep'
    BY <1>3 DEF PopTake, Unstage, Poppable, SignalGws, TypeOK, NoMinerSleepsOnWork, NoMutualSleep, queueVars, poolVars, minerVars, gwsVars, lpVars
  <2> QED BY <2>1, <2>2, <2>3, <2>4, <2>5 DEF SInv
<1>4. ASSUME NEW m \in Miners, GetStale(m)
      PROVE  SInv'
  <2>1. TypeOK'
    BY <1>4 DEF GetStale, SignalGws, _free_work, TypeOK, Items, Blank, Pools, queueVars, poolVars, minerVars, gwsVars, lpVars
  <2>2. PointersMatch'
    BY <1>4 DEF GetStale, SignalGws, _free_work, TypeOK, PointersMatch, queueVars, poolVars, minerVars, gwsVars, lpVars
  <2>3. OwnedOnce'
    BY <1>4 DEF GetStale, SignalGws, _free_work, TypeOK, PointersMatch, OwnedOnce, InHand, queueVars, poolVars, minerVars, gwsVars, lpVars
  <2>4. UnrollableInHand'
    BY <1>4 DEF GetStale, SignalGws, _free_work, TypeOK, PointersMatch, OwnedOnce, InHand, UnrollableInHand, work_rollable, queueVars, poolVars, minerVars, gwsVars, lpVars
  <2>5. NoMinerSleepsOnWork' /\ NoMutualSleep'
    BY <1>4 DEF GetStale, SignalGws, _free_work, TypeOK, NoMinerSleepsOnWork, NoMutualSleep, queueVars, poolVars, minerVars, gwsVars, lpVars
  <2> QED BY <2>1, <2>2, <2>3, <2>4, <2>5 DEF SInv
<1>5. ASSUME NEW m \in Miners, GetFresh(m)
      PROVE  SInv'
  <2>1. TypeOK'
    BY <1>5 DEF GetFresh, TypeOK, Items, Blank, Pools, queueVars, poolVars, minerVars, gwsVars, lpVars
  <2>2. PointersMatch'
    BY <1>5 DEF GetFresh, TypeOK, PointersMatch, queueVars, poolVars, minerVars, gwsVars, lpVars
  <2>3. OwnedOnce'
    BY <1>5 DEF GetFresh, TypeOK, PointersMatch, OwnedOnce, InHand, queueVars, poolVars, minerVars, gwsVars, lpVars
  <2>4. UnrollableInHand'
    BY <1>5 DEF GetFresh, TypeOK, PointersMatch, OwnedOnce, InHand, UnrollableInHand, work_rollable, queueVars, poolVars, minerVars, gwsVars, lpVars
  <2>5. NoMinerSleepsOnWork' /\ NoMutualSleep'
    BY <1>5 DEF GetFresh, TypeOK, NoMinerSleepsOnWork, NoMutualSleep, queueVars, poolVars, minerVars, gwsVars, lpVars
  <2> QED BY <2>1, <2>2, <2>3, <2>4, <2>5 DEF SInv
<1>6. ASSUME NEW m \in Miners, Mined(m)
      PROVE  SInv'
  <2>1. TypeOK'
    BY <1>6 DEF Mined, _free_work, TypeOK, Items, Blank, Pools, queueVars, poolVars, minerVars, gwsVars, lpVars
  <2>2. PointersMatch'
    BY <1>6 DEF Mined, _free_work, TypeOK, PointersMatch, queueVars, poolVars, minerVars, gwsVars, lpVars
  <2>3. OwnedOnce'
    BY <1>6 DEF Mined, _free_work, TypeOK, PointersMatch, OwnedOnce, InHand, queueVars, poolVars, minerVars, gwsVars, lpVars
  <2>4. UnrollableInHand'
    BY <1>6 DEF Mined, _free_work, TypeOK, PointersMatch, OwnedOnce, InHand, UnrollableInHand, work_rollable, queueVars, poolVars, minerVars, gwsVars, lpVars
  <2>5. NoMinerSleepsOnWork' /\ NoMutualSleep'
    BY <1>6 DEF Mined, _free_work, TypeOK, NoMinerSleepsOnWork, NoMutualSleep, queueVars, poolVars, minerVars, gwsVars, lpVars
  <2> QED BY <2>1, <2>2, <2>3, <2>4, <2>5 DEF SInv
<1>7. ASSUME GwsCount
      PROVE  SInv'
  <2>1. TypeOK'
    BY <1>7 DEF GwsCount, TypeOK, Items, Blank, Pools, queueVars, poolVars, minerVars, gwsVars, lpVars
  <2>2. PointersMatch'
    BY <1>7 DEF GwsCount, TypeOK, PointersMatch, queueVars, poolVars, minerVars, gwsVars, lpVars
  <2>3. OwnedOnce'
    BY <1>7 DEF GwsCount, TypeOK, PointersMatch, OwnedOnce, InHand, queueVars, poolVars, minerVars, gwsVars, lpVars
  <2>4. UnrollableInHand'
    BY <1>7 DEF GwsCount, TypeOK, PointersMatch, OwnedOnce, InHand, UnrollableInHand, work_rollable, queueVars, poolVars, minerVars, gwsVars, lpVars
  <2>5. NoMinerSleepsOnWork' /\ NoMutualSleep'
    BY <1>7, FS_EmptySet DEF GwsCount, TypeOK, NoMinerSleepsOnWork, NoMutualSleep, __total_staged, queueVars, poolVars, minerVars, gwsVars, lpVars
  <2> QED BY <2>1, <2>2, <2>3, <2>4, <2>5 DEF SInv
<1>8. ASSUME GwsRecount
      PROVE  SInv'
  <2>1. TypeOK'
    BY <1>8 DEF GwsRecount, TypeOK, Items, Blank, Pools, queueVars, poolVars, minerVars, gwsVars, lpVars
  <2>2. PointersMatch'
    BY <1>8 DEF GwsRecount, TypeOK, PointersMatch, queueVars, poolVars, minerVars, gwsVars, lpVars
  <2>3. OwnedOnce'
    BY <1>8 DEF GwsRecount, TypeOK, PointersMatch, OwnedOnce, InHand, queueVars, poolVars, minerVars, gwsVars, lpVars
  <2>4. UnrollableInHand'
    BY <1>8 DEF GwsRecount, TypeOK, PointersMatch, OwnedOnce, InHand, UnrollableInHand, work_rollable, queueVars, poolVars, minerVars, gwsVars, lpVars
  <2>5. NoMinerSleepsOnWork' /\ NoMutualSleep'
    BY <1>8 DEF GwsRecount, TypeOK, NoMinerSleepsOnWork, NoMutualSleep, queueVars, poolVars, minerVars, gwsVars, lpVars
  <2> QED BY <2>1, <2>2, <2>3, <2>4, <2>5 DEF SInv
<1>9. ASSUME GwsSpurious
      PROVE  SInv'
  <2>1. TypeOK'
    BY <1>9 DEF GwsSpurious, TypeOK, Items, Blank, Pools, queueVars, poolVars, minerVars, gwsVars, lpVars
  <2>2. PointersMatch'
    BY <1>9 DEF GwsSpurious, TypeOK, PointersMatch, queueVars, poolVars, minerVars, gwsVars, lpVars
  <2>3. OwnedOnce'
    BY <1>9 DEF GwsSpurious, TypeOK, PointersMatch, OwnedOnce, InHand, queueVars, poolVars, minerVars, gwsVars, lpVars
  <2>4. UnrollableInHand'
    BY <1>9 DEF GwsSpurious, TypeOK, PointersMatch, OwnedOnce, InHand, UnrollableInHand, work_rollable, queueVars, poolVars, minerVars, gwsVars, lpVars
  <2>5. NoMinerSleepsOnWork' /\ NoMutualSleep'
    BY <1>9 DEF GwsSpurious, TypeOK, NoMinerSleepsOnWork, NoMutualSleep, queueVars, poolVars, minerVars, gwsVars, lpVars
  <2> QED BY <2>1, <2>2, <2>3, <2>4, <2>5 DEF SInv
<1>10. ASSUME GwsDrop
      PROVE  SInv'
  <2>1. TypeOK'
    BY <1>10 DEF GwsDrop, Unstage, Poppable, _free_work, TypeOK, Items, Blank, Pools, queueVars, poolVars, minerVars, gwsVars, lpVars
  <2>2. PointersMatch'
    BY <1>10 DEF GwsDrop, Unstage, Poppable, _free_work, TypeOK, PointersMatch, queueVars, poolVars, minerVars, gwsVars, lpVars
  <2>3. OwnedOnce'
    BY <1>10 DEF GwsDrop, Unstage, Poppable, _free_work, TypeOK, PointersMatch, OwnedOnce, InHand, queueVars, poolVars, minerVars, gwsVars, lpVars
  <2>4. UnrollableInHand'
    BY <1>10 DEF GwsDrop, Unstage, Poppable, _free_work, TypeOK, PointersMatch, OwnedOnce, InHand, UnrollableInHand, work_rollable, queueVars, poolVars, minerVars, gwsVars, lpVars
  <2>5. NoMinerSleepsOnWork' /\ NoMutualSleep'
    BY <1>10 DEF GwsDrop, Unstage, Poppable, _free_work, TypeOK, NoMinerSleepsOnWork, NoMutualSleep, queueVars, poolVars, minerVars, gwsVars, lpVars
  <2> QED BY <2>1, <2>2, <2>3, <2>4, <2>5 DEF SInv
<1>11. ASSUME GwsMake
      PROVE  SInv'
  <2>1. TypeOK'
    <3>1. work' \in [Works -> Items \cup {Blank}]
      <4>1. PICK p \in Pools, w \in Unused, old \in {work, Outdated} :
              work' = [old EXCEPT ![w] = NewItem(p, FALSE)]
        BY <1>11 DEF GwsMake
      <4>2. old \in [Works -> Items \cup {Blank}]
        BY OutdatedItems DEF TypeOK
      <4> QED BY <4>1, <4>2, ItemTypes
    <3>2. staged' \subseteq Works /\ staged_rollable' \in Int
      BY <1>11 DEF GwsMake, Unused, TypeOK, PointersMatch, queueVars, poolVars, minerVars, gwsVars, lpVars
    <3>3. /\ usable' \in [Pools -> BOOLEAN]
          /\ link' \in [StratumPools -> {"up", "lost", "cleared"}]
          /\ miner' \in [Miners -> {"pop", "wait", "woken", "check", "mining"}]
          /\ held' \in [Miners -> Works \cup {NoWork}]
      BY <1>11 DEF GwsMake, Unused, TypeOK, queueVars, poolVars, minerVars, gwsVars, lpVars
    <3>4. /\ gws' \in {"count", "wait", "woken", "drop", "select", "push"}
          /\ lp' \in {"poll", "roll", "last"}
          /\ {made', master', clone'} \subseteq Works \cup {NoWork}
      BY <1>11 DEF GwsMake, Unused, TypeOK, queueVars, poolVars, minerVars, gwsVars, lpVars
    <3>5. mrs' \in Nat /\ cloned' \in BOOLEAN
      BY <1>11 DEF GwsMake, Unused, TypeOK, queueVars, poolVars, minerVars, gwsVars, lpVars
    <3> QED BY <3>1, <3>2, <3>3, <3>4, <3>5 DEF TypeOK
  <2>2. PointersMatch'
    BY <1>11, ItemTypes, OutdatedItems DEF GwsMake, Unused, TypeOK, PointersMatch, queueVars, poolVars, minerVars, gwsVars, lpVars
  <2>a. PICK p \in Pools, w \in Unused, old \in {work, Outdated} :
          work' = [old EXCEPT ![w] = NewItem(p, FALSE)] /\ made' = w
    BY <1>11 DEF GwsMake
  <2>b. /\ old \in [Works -> Items \cup {Blank}]
        /\ \A v \in Works : (old[v] = Blank) <=> (work[v] = Blank)
        /\ \A v \in Works : old[v].rollable = work[v].rollable
    BY OutdatedItems DEF TypeOK
  <2>c. work'[w] # Blank /\ ~work'[w].rollable /\ w \in Works /\ work[w] = Blank
    <3>1. w \in Works /\ work[w] = Blank
      BY DEF Unused
    <3>2. NewItem(p, FALSE) # Blank /\ ~NewItem(p, FALSE).rollable
      BY NewItemType
    <3> QED BY <2>a, <2>b, <3>1, <3>2
  <2>d. \A v \in Works \ {w} : /\ (work'[v] = Blank) <=> (work[v] = Blank)
                              /\ work'[v].rollable = work[v].rollable
    BY <2>a, <2>b DEF Unused
  <2>e. /\ made = NoWork /\ made' = w
        /\ UNCHANGED <<staged, held, master, clone>>
    BY <1>11, <2>a DEF GwsMake, PointersMatch, queueVars, minerVars, lpVars
  <2>3. OwnedOnce'
    BY <2>c, <2>d, <2>e DEF TypeOK, OwnedOnce, InHand
  <2>4. UnrollableInHand'
    BY <1>11, <2>a, <2>c, <2>d DEF GwsMake, TypeOK, PointersMatch, OwnedOnce, InHand, UnrollableInHand, work_rollable, queueVars, poolVars, minerVars, gwsVars, lpVars
  <2>5. NoMinerSleepsOnWork' /\ NoMutualSleep'
    BY <1>11, ItemTypes, OutdatedItems DEF GwsMake, Unused, TypeOK, NoMinerSleepsOnWork, NoMutualSleep, queueVars, poolVars, minerVars, gwsVars, lpVars
  <2> QED BY <2>1, <2>2, <2>3, <2>4, <2>5 DEF SInv
<1>12. ASSUME GwsPush
      PROVE  SInv'
  <2>1. TypeOK'
    <3>1. work' \in [Works -> Items \cup {Blank}]
      BY <1>12 DEF GwsPush, hash_push, TypeOK
    <3>2. staged' \subseteq Works /\ staged_rollable' \in Int
      BY <1>12 DEF GwsPush, hash_push, Broadcast, TypeOK, PointersMatch, queueVars, poolVars, minerVars, gwsVars, lpVars
    <3>3. /\ usable' \in [Pools -> BOOLEAN]
          /\ link' \in [StratumPools -> {"up", "lost", "cleared"}]
          /\ miner' \in [Miners -> {"pop", "wait", "woken", "check", "mining"}]
          /\ held' \in [Miners -> Works \cup {NoWork}]
      BY <1>12 DEF GwsPush, hash_push, Broadcast, TypeOK, queueVars, poolVars, minerVars, gwsVars, lpVars
    <3>4. /\ gws' \in {"count", "wait", "woken", "drop", "select", "push"}
          /\ lp' \in {"poll", "roll", "last"}
          /\ {made', master', clone'} \subseteq Works \cup {NoWork}
      BY <1>12 DEF GwsPush, hash_push, Broadcast, TypeOK, queueVars, poolVars, minerVars, gwsVars, lpVars
    <3>5. mrs' \in Nat /\ cloned' \in BOOLEAN
      BY <1>12 DEF GwsPush, hash_push, Broadcast, TypeOK, queueVars, poolVars, minerVars, gwsVars, lpVars
    <3> QED BY <3>1, <3>2, <3>3, <3>4, <3>5 DEF TypeOK
  <2>2. PointersMatch'
    BY <1>12 DEF GwsPush, hash_push, Broadcast, TypeOK, PointersMatch, queueVars, poolVars, minerVars, gwsVars, lpVars
  <2>3. OwnedOnce'
    BY <1>12, ItemTypes DEF GwsPush, hash_push, Broadcast, TypeOK, PointersMatch, OwnedOnce, InHand, queueVars, poolVars, minerVars, gwsVars, lpVars
  <2>4. UnrollableInHand'
    BY <1>12, ItemTypes DEF GwsPush, hash_push, Broadcast, TypeOK, PointersMatch, OwnedOnce, InHand, UnrollableInHand, work_rollable, queueVars, poolVars, minerVars, gwsVars, lpVars
  <2>5. NoMinerSleepsOnWork' /\ NoMutualSleep'
    BY <1>12 DEF GwsPush, hash_push, Broadcast, TypeOK, NoMinerSleepsOnWork, NoMutualSleep, queueVars, poolVars, minerVars, gwsVars, lpVars
  <2> QED BY <2>1, <2>2, <2>3, <2>4, <2>5 DEF SInv
<1>13. ASSUME LpReceive
      PROVE  SInv'
  <2>1. TypeOK'
    <3>1. work' \in [Works -> Items \cup {Blank}]
      <4>1. PICK w \in Unused, r \in BOOLEAN :
              \/ work' = [Outdated EXCEPT ![w] = NewItem(Longpoller, r)]
              \/ \E c \in Unused \ {w} :
                   work' = [Outdated EXCEPT ![w] = NewItem(Longpoller, r),
                                            ![c] = AsClone(NewItem(Longpoller, r))]
        BY <1>13 DEF LpReceive
      <4>2. Outdated \in [Works -> Items \cup {Blank}]
        BY OutdatedItems DEF TypeOK
      <4>3. NewItem(Longpoller, r) \in Items /\ AsClone(NewItem(Longpoller, r)) \in Items
        BY ItemTypes DEF Pools
      <4> QED BY <4>1, <4>2, <4>3
    <3>2. staged' \subseteq Works /\ staged_rollable' \in Int
      BY <1>13 DEF LpReceive, Unused, TypeOK, PointersMatch, queueVars, poolVars, minerVars, gwsVars, lpVars
    <3>3. /\ usable' \in [Pools -> BOOLEAN]
          /\ link' \in [StratumPools -> {"up", "lost", "cleared"}]
          /\ miner' \in [Miners -> {"pop", "wait", "woken", "check", "mining"}]
          /\ held' \in [Miners -> Works \cup {NoWork}]
      BY <1>13 DEF LpReceive, Unused, TypeOK, queueVars, poolVars, minerVars, gwsVars, lpVars
    <3>4. /\ gws' \in {"count", "wait", "woken", "drop", "select", "push"}
          /\ lp' \in {"poll", "roll", "last"}
          /\ {made', master', clone'} \subseteq Works \cup {NoWork}
      BY <1>13 DEF LpReceive, Unused, TypeOK, queueVars, poolVars, minerVars, gwsVars, lpVars
    <3>5. mrs' \in Nat /\ cloned' \in BOOLEAN
      <4>1. \/ mrs' = mrs
            \/ /\ mrs' = Cardinality(Miners) + MaxQueue - __total_staged
               /\ Cardinality(Miners) + MaxQueue - __total_staged >= 1
        BY <1>13 DEF LpReceive
      <4>2. Cardinality(Miners) \in Nat /\ __total_staged \in Nat /\ mrs \in Nat
        BY CountTypes DEF TypeOK
      <4>3. cloned' = FALSE
        BY <1>13 DEF LpReceive
      <4>4. mrs' \in Nat
        BY <4>1, <4>2, BoundsAssumption
      <4> QED BY <4>3, <4>4
    <3> QED BY <3>1, <3>2, <3>3, <3>4, <3>5 DEF TypeOK
  <2>2. PointersMatch'
    BY <1>13, ItemTypes, OutdatedItems DEF LpReceive, Unused, TypeOK, PointersMatch, queueVars, poolVars, minerVars, gwsVars, lpVars
  <2>a. PICK w \in Unused, r \in BOOLEAN :
          \/ /\ work' = [Outdated EXCEPT ![w] = NewItem(Longpoller, r)]
             /\ lp' = "last" /\ clone' = w /\ UNCHANGED master
          \/ \E c \in Unused \ {w} :
               /\ work' = [Outdated EXCEPT ![w] = NewItem(Longpoller, r),
                                          ![c] = AsClone(NewItem(Longpoller, r))]
               /\ lp' = "roll" /\ clone' = c /\ master' = w
    BY <1>13 DEF LpReceive
  <2>b. /\ Outdated \in [Works -> Items \cup {Blank}]
        /\ \A v \in Works : (Outdated[v] = Blank) <=> (work[v] = Blank)
        /\ \A v \in Works : Outdated[v].rollable = work[v].rollable
    BY OutdatedItems DEF TypeOK
  <2>c. /\ NewItem(Longpoller, r) # Blank
        /\ AsClone(NewItem(Longpoller, r)) # Blank
        /\ ~AsClone(NewItem(Longpoller, r)).rollable
    BY ItemTypes DEF Pools
  <2>3. OwnedOnce'
    BY <1>13, <2>a, <2>b, <2>c DEF LpReceive, Unused, TypeOK, PointersMatch, OwnedOnce, InHand, queueVars, poolVars, minerVars, gwsVars
  <2>4. UnrollableInHand'
    BY <1>13, <2>a, <2>b, <2>c DEF LpReceive, Unused, TypeOK, PointersMatch, OwnedOnce, InHand, UnrollableInHand, work_rollable, queueVars, poolVars, minerVars, gwsVars
  <2>5. NoMinerSleepsOnWork' /\ NoMutualSleep'
    BY <1>13, ItemTypes, OutdatedItems DEF LpReceive, Unused, TypeOK, NoMinerSleepsOnWork, NoMutualSleep, queueVars, poolVars, minerVars, gwsVars, lpVars
  <2> QED BY <2>1, <2>2, <2>3, <2>4, <2>5 DEF SInv
<1>14. ASSUME LpRoll
      PROVE  SInv'
  <2>1. TypeOK'
    <3>1. work' \in [Works -> Items \cup {Blank}]
      <4>1. clone \in staged \cup InHand /\ master \in staged \cup InHand
        BY <1>14 DEF LpRoll, PointersMatch, InHand
      <4>2. work[clone] \in Items /\ work[master] \in Items
        BY <4>1, <1>14 DEF LpRoll, TypeOK, OwnedOnce, PointersMatch
      <4>3. AsCurrent(work[clone]) \in Items /\ AsClone(work[master]) \in Items
        BY <4>2, ItemTypes
      <4> QED BY <1>14, <4>3 DEF LpRoll, TypeOK
    <3>2. staged' \subseteq Works /\ staged_rollable' \in Int
      BY <1>14 DEF LpRoll, Unused, Broadcast, TypeOK, PointersMatch, queueVars, poolVars, minerVars, gwsVars, lpVars
    <3>3. /\ usable' \in [Pools -> BOOLEAN]
          /\ link' \in [StratumPools -> {"up", "lost", "cleared"}]
          /\ miner' \in [Miners -> {"pop", "wait", "woken", "check", "mining"}]
          /\ held' \in [Miners -> Works \cup {NoWork}]
      BY <1>14 DEF LpRoll, Unused, Broadcast, TypeOK, queueVars, poolVars, minerVars, gwsVars, lpVars
    <3>4. /\ gws' \in {"count", "wait", "woken", "drop", "select", "push"}
          /\ lp' \in {"poll", "roll", "last"}
          /\ {made', master', clone'} \subseteq Works \cup {NoWork}
      BY <1>14 DEF LpRoll, Unused, Broadcast, TypeOK, queueVars, poolVars, minerVars, gwsVars, lpVars
    <3>5. mrs' \in Nat /\ cloned' \in BOOLEAN
      BY <1>14 DEF LpRoll, Unused, Broadcast, TypeOK, queueVars, poolVars, minerVars, gwsVars, lpVars
    <3> QED BY <3>1, <3>2, <3>3, <3>4, <3>5 DEF TypeOK
  <2>2. PointersMatch'
    BY <1>14, ItemTypes, OutdatedItems DEF LpRoll, Unused, Broadcast, TypeOK, PointersMatch, queueVars, poolVars, minerVars, gwsVars, lpVars
  <2>3. OwnedOnce'
    BY <1>14, ItemTypes DEF LpRoll, Unused, Broadcast, TypeOK, PointersMatch, OwnedOnce, InHand, queueVars, poolVars, minerVars, gwsVars, lpVars
  <2>4. UnrollableInHand'
    BY <1>14, ItemTypes DEF LpRoll, Unused, Broadcast, TypeOK, PointersMatch, OwnedOnce, InHand, UnrollableInHand, work_rollable, queueVars, poolVars, minerVars, gwsVars, lpVars
  <2>5. NoMinerSleepsOnWork' /\ NoMutualSleep'
    BY <1>14, ItemTypes, OutdatedItems DEF LpRoll, Unused, Broadcast, TypeOK, NoMinerSleepsOnWork, NoMutualSleep, queueVars, poolVars, minerVars, gwsVars, lpVars
  <2> QED BY <2>1, <2>2, <2>3, <2>4, <2>5 DEF SInv
<1>15. ASSUME LpDone
      PROVE  SInv'
  <2>1. TypeOK'
    <3>1. work' \in [Works -> Items \cup {Blank}]
      <4>1. work[master] \in Items
        BY <1>15 DEF LpDone, TypeOK, OwnedOnce, PointersMatch, InHand
      <4>2. AsCurrent(work[master]) \in Items
        BY <4>1, ItemTypes
      <4> QED BY <1>15, <4>2 DEF LpDone, Stage, hash_push, _free_work, TypeOK
    <3>2. staged' \subseteq Works /\ staged_rollable' \in Int
      BY <1>15 DEF LpDone, Stage, hash_push, Broadcast, TypeOK, PointersMatch, queueVars, poolVars, minerVars, gwsVars, lpVars
    <3>3. /\ usable' \in [Pools -> BOOLEAN]
          /\ link' \in [StratumPools -> {"up", "lost", "cleared"}]
          /\ miner' \in [Miners -> {"pop", "wait", "woken", "check", "mining"}]
          /\ held' \in [Miners -> Works \cup {NoWork}]
      BY <1>15 DEF LpDone, Stage, hash_push, Broadcast, TypeOK, queueVars, poolVars, minerVars, gwsVars, lpVars
    <3>4. /\ gws' \in {"count", "wait", "woken", "drop", "select", "push"}
          /\ lp' \in {"poll", "roll", "last"}
          /\ {made', master', clone'} \subseteq Works \cup {NoWork}
      BY <1>15 DEF LpDone, Stage, hash_push, Broadcast, TypeOK, queueVars, poolVars, minerVars, gwsVars, lpVars
    <3>5. mrs' \in Nat /\ cloned' \in BOOLEAN
      BY <1>15 DEF LpDone, Stage, hash_push, Broadcast, TypeOK, queueVars, poolVars, minerVars, gwsVars, lpVars
    <3> QED BY <3>1, <3>2, <3>3, <3>4, <3>5 DEF TypeOK
  <2>2. PointersMatch'
    BY <1>15 DEF LpDone, Stage, hash_push, Broadcast, _free_work, TypeOK, PointersMatch, queueVars, poolVars, minerVars, gwsVars, lpVars
  <2>3. OwnedOnce'
    BY <1>15, ItemTypes DEF LpDone, Stage, hash_push, Broadcast, _free_work, TypeOK, PointersMatch, OwnedOnce, InHand, queueVars, poolVars, minerVars, gwsVars, lpVars
  <2>4. UnrollableInHand'
    BY <1>15, ItemTypes DEF LpDone, Stage, hash_push, Broadcast, _free_work, TypeOK, PointersMatch, OwnedOnce, InHand, UnrollableInHand, work_rollable, queueVars, poolVars, minerVars, gwsVars, lpVars
  <2>5. NoMinerSleepsOnWork' /\ NoMutualSleep'
    BY <1>15 DEF LpDone, Stage, hash_push, Broadcast, _free_work, TypeOK, NoMinerSleepsOnWork, NoMutualSleep, queueVars, poolVars, minerVars, gwsVars, lpVars
  <2> QED BY <2>1, <2>2, <2>3, <2>4, <2>5 DEF SInv
<1>16. ASSUME LpStage
      PROVE  SInv'
  <2>1. TypeOK'
    <3>1. work' \in [Works -> Items \cup {Blank}]
      <4>1. work[clone] \in Items
        BY <1>16 DEF LpStage, TypeOK, OwnedOnce, PointersMatch, InHand
      <4>2. AsCurrent(work[clone]) \in Items
        BY <4>1, ItemTypes
      <4> QED BY <1>16, <4>2 DEF LpStage, Stage, hash_push, TypeOK
    <3>2. staged' \subseteq Works /\ staged_rollable' \in Int
      BY <1>16 DEF LpStage, Stage, hash_push, Broadcast, TypeOK, PointersMatch, queueVars, poolVars, minerVars, gwsVars, lpVars
    <3>3. /\ usable' \in [Pools -> BOOLEAN]
          /\ link' \in [StratumPools -> {"up", "lost", "cleared"}]
          /\ miner' \in [Miners -> {"pop", "wait", "woken", "check", "mining"}]
          /\ held' \in [Miners -> Works \cup {NoWork}]
      BY <1>16 DEF LpStage, Stage, hash_push, Broadcast, TypeOK, queueVars, poolVars, minerVars, gwsVars, lpVars
    <3>4. /\ gws' \in {"count", "wait", "woken", "drop", "select", "push"}
          /\ lp' \in {"poll", "roll", "last"}
          /\ {made', master', clone'} \subseteq Works \cup {NoWork}
      BY <1>16 DEF LpStage, Stage, hash_push, Broadcast, TypeOK, queueVars, poolVars, minerVars, gwsVars, lpVars
    <3>5. mrs' \in Nat /\ cloned' \in BOOLEAN
      BY <1>16 DEF LpStage, Stage, hash_push, Broadcast, TypeOK, queueVars, poolVars, minerVars, gwsVars, lpVars
    <3> QED BY <3>1, <3>2, <3>3, <3>4, <3>5 DEF TypeOK
  <2>2. PointersMatch'
    BY <1>16 DEF LpStage, Stage, hash_push, Broadcast, TypeOK, PointersMatch, queueVars, poolVars, minerVars, gwsVars, lpVars
  <2>3. OwnedOnce'
    BY <1>16, ItemTypes DEF LpStage, Stage, hash_push, Broadcast, TypeOK, PointersMatch, OwnedOnce, InHand, queueVars, poolVars, minerVars, gwsVars, lpVars
  <2>4. UnrollableInHand'
    BY <1>16, ItemTypes DEF LpStage, Stage, hash_push, Broadcast, TypeOK, PointersMatch, OwnedOnce, InHand, UnrollableInHand, work_rollable, queueVars, poolVars, minerVars, gwsVars, lpVars
  <2>5. NoMinerSleepsOnWork' /\ NoMutualSleep'
    BY <1>16 DEF LpStage, Stage, hash_push, Broadcast, TypeOK, NoMinerSleepsOnWork, NoMutualSleep, queueVars, poolVars, minerVars, gwsVars, lpVars
  <2> QED BY <2>1, <2>2, <2>3, <2>4, <2>5 DEF SInv
<1>17. ASSUME DiscardStale
      PROVE  SInv'
  <2>1. TypeOK'
    BY <1>17 DEF DiscardStale, SignalGws, TypeOK, Items, Blank, Pools, queueVars, poolVars, minerVars, gwsVars, lpVars
  <2>2. PointersMatch'
    BY <1>17 DEF DiscardStale, SignalGws, TypeOK, PointersMatch, queueVars, poolVars, minerVars, gwsVars, lpVars
  <2>3. OwnedOnce'
    BY <1>17 DEF DiscardStale, SignalGws, TypeOK, PointersMatch, OwnedOnce, InHand, queueVars, poolVars, minerVars, gwsVars, lpVars
  <2>4. UnrollableInHand'
    BY <1>17 DEF DiscardStale, SignalGws, TypeOK, PointersMatch, OwnedOnce, InHand, UnrollableInHand, work_rollable, queueVars, poolVars, minerVars, gwsVars, lpVars
  <2>5. NoMinerSleepsOnWork' /\ NoMutualSleep'
    BY <1>17 DEF DiscardStale, SignalGws, TypeOK, NoMinerSleepsOnWork, NoMutualSleep, queueVars, poolVars, minerVars, gwsVars, lpVars
  <2> QED BY <2>1, <2>2, <2>3, <2>4, <2>5 DEF SInv
<1>18. ASSUME NewBlock
      PROVE  SInv'
  <2>1. TypeOK'
    BY <1>18, ItemTypes, OutdatedItems DEF NewBlock, TypeOK, Pools, queueVars, poolVars, minerVars, gwsVars, lpVars
  <2>2. PointersMatch'
    BY <1>18, ItemTypes, OutdatedItems DEF NewBlock, TypeOK, PointersMatch, queueVars, poolVars, minerVars, gwsVars, lpVars
  <2>3. OwnedOnce'
    BY <1>18, ItemTypes, OutdatedItems DEF NewBlock, TypeOK, PointersMatch, OwnedOnce, InHand, queueVars, poolVars, minerVars, gwsVars, lpVars
  <2>4. UnrollableInHand'
    BY <1>18, ItemTypes, OutdatedItems DEF NewBlock, TypeOK, PointersMatch, OwnedOnce, InHand, UnrollableInHand, work_rollable, queueVars, poolVars, minerVars, gwsVars, lpVars
  <2>5. NoMinerSleepsOnWork' /\ NoMutualSleep'
    BY <1>18, ItemTypes, OutdatedItems DEF NewBlock, TypeOK, NoMinerSleepsOnWork, NoMutualSleep, queueVars, poolVars, minerVars, gwsVars, lpVars
  <2> QED BY <2>1, <2>2, <2>3, <2>4, <2>5 DEF SInv
<1>23. ASSUME NEW p \in StratumPools, NewJob(p)
      PROVE  SInv'
  <2>1. TypeOK'
    BY <1>23, ItemTypes, OldJobItems DEF NewJob, TypeOK, Pools, queueVars, poolVars, minerVars, gwsVars, lpVars
  <2>2. PointersMatch'
    BY <1>23, ItemTypes, OldJobItems DEF NewJob, TypeOK, PointersMatch, queueVars, poolVars, minerVars, gwsVars, lpVars
  <2>3. OwnedOnce'
    BY <1>23, ItemTypes, OldJobItems DEF NewJob, TypeOK, PointersMatch, OwnedOnce, InHand, queueVars, poolVars, minerVars, gwsVars, lpVars
  <2>4. UnrollableInHand'
    BY <1>23, ItemTypes, OldJobItems DEF NewJob, TypeOK, PointersMatch, OwnedOnce, InHand, UnrollableInHand, work_rollable, queueVars, poolVars, minerVars, gwsVars, lpVars
  <2>5. NoMinerSleepsOnWork' /\ NoMutualSleep'
    BY <1>23, ItemTypes, OldJobItems DEF NewJob, TypeOK, NoMinerSleepsOnWork, NoMutualSleep, queueVars, poolVars, minerVars, gwsVars, lpVars
  <2> QED BY <2>1, <2>2, <2>3, <2>4, <2>5 DEF SInv
<1>19. ASSUME NEW p \in StratumPools, Disconnect(p)
      PROVE  SInv'
  <2>1. TypeOK'
    <3>1. work' \in [Works -> Items \cup {Blank}]
      BY <1>19 DEF Disconnect, TypeOK
    <3>2. staged' \subseteq Works /\ staged_rollable' \in Int
      BY <1>19 DEF Disconnect, Pools, TypeOK, PointersMatch, queueVars, poolVars, minerVars, gwsVars, lpVars
    <3>3. /\ usable' \in [Pools -> BOOLEAN]
          /\ link' \in [StratumPools -> {"up", "lost", "cleared"}]
          /\ miner' \in [Miners -> {"pop", "wait", "woken", "check", "mining"}]
          /\ held' \in [Miners -> Works \cup {NoWork}]
      BY <1>19 DEF Disconnect, Pools, TypeOK, queueVars, poolVars, minerVars, gwsVars, lpVars
    <3>4. /\ gws' \in {"count", "wait", "woken", "drop", "select", "push"}
          /\ lp' \in {"poll", "roll", "last"}
          /\ {made', master', clone'} \subseteq Works \cup {NoWork}
      BY <1>19 DEF Disconnect, Pools, TypeOK, queueVars, poolVars, minerVars, gwsVars, lpVars
    <3>5. mrs' \in Nat /\ cloned' \in BOOLEAN
      BY <1>19 DEF Disconnect, Pools, TypeOK, queueVars, poolVars, minerVars, gwsVars, lpVars
    <3> QED BY <3>1, <3>2, <3>3, <3>4, <3>5 DEF TypeOK
  <2>2. PointersMatch'
    BY <1>19 DEF Disconnect, TypeOK, PointersMatch, queueVars, poolVars, minerVars, gwsVars, lpVars
  <2>3. OwnedOnce'
    BY <1>19 DEF Disconnect, TypeOK, PointersMatch, OwnedOnce, InHand, queueVars, poolVars, minerVars, gwsVars, lpVars
  <2>4. UnrollableInHand'
    BY <1>19 DEF Disconnect, TypeOK, PointersMatch, OwnedOnce, InHand, UnrollableInHand, work_rollable, queueVars, poolVars, minerVars, gwsVars, lpVars
  <2>5. NoMinerSleepsOnWork' /\ NoMutualSleep'
    BY <1>19 DEF Disconnect, TypeOK, NoMinerSleepsOnWork, NoMutualSleep, queueVars, poolVars, minerVars, gwsVars, lpVars
  <2> QED BY <2>1, <2>2, <2>3, <2>4, <2>5 DEF SInv
<1>20. ASSUME NEW p \in Pools, clear_pool_work(p), link' \in [StratumPools -> {"up", "lost", "cleared"}]
      PROVE  SInv'
  <2>1. TypeOK'
    BY <1>20 DEF clear_pool_work, TypeOK, Items, Blank, Pools, queueVars, poolVars, minerVars, gwsVars, lpVars
  <2>2. PointersMatch'
    BY <1>20 DEF clear_pool_work, TypeOK, PointersMatch, queueVars, poolVars, minerVars, gwsVars, lpVars
  <2>3. OwnedOnce'
    BY <1>20 DEF clear_pool_work, TypeOK, PointersMatch, OwnedOnce, InHand, queueVars, poolVars, minerVars, gwsVars, lpVars
  <2>4. UnrollableInHand'
    BY <1>20 DEF clear_pool_work, TypeOK, PointersMatch, OwnedOnce, InHand, UnrollableInHand, work_rollable, queueVars, poolVars, minerVars, gwsVars, lpVars
  <2>5. NoMinerSleepsOnWork' /\ NoMutualSleep'
    BY <1>20 DEF clear_pool_work, TypeOK, NoMinerSleepsOnWork, NoMutualSleep, queueVars, poolVars, minerVars, gwsVars, lpVars
  <2> QED BY <2>1, <2>2, <2>3, <2>4, <2>5 DEF SInv
<1>24. ASSUME NEW p \in StratumPools, LinkCleared(p)
      PROVE  SInv'
  <2>1. p \in Pools /\ clear_pool_work(p) /\ link' \in [StratumPools -> {"up", "lost", "cleared"}]
    BY <1>24 DEF LinkCleared, TypeOK, Pools
  <2> QED BY <2>1, <1>20
<1>25. ASSUME NEW p \in Pools, LeavePool(p)
      PROVE  SInv'
  <2>1. clear_pool_work(p) /\ link' \in [StratumPools -> {"up", "lost", "cleared"}]
    BY <1>25 DEF LeavePool, TypeOK
  <2> QED BY <2>1, <1>20
<1>21. ASSUME NEW p \in StratumPools, Suspend(p)
      PROVE  SInv'
  <2>1. TypeOK'
    BY <1>21 DEF Suspend, TypeOK, Items, Blank, Pools, queueVars, poolVars, minerVars, gwsVars, lpVars
  <2>2. PointersMatch'
    BY <1>21 DEF Suspend, TypeOK, PointersMatch, queueVars, poolVars, minerVars, gwsVars, lpVars
  <2>3. OwnedOnce'
    BY <1>21 DEF Suspend, TypeOK, PointersMatch, OwnedOnce, InHand, queueVars, poolVars, minerVars, gwsVars, lpVars
  <2>4. UnrollableInHand'
    BY <1>21 DEF Suspend, TypeOK, PointersMatch, OwnedOnce, InHand, UnrollableInHand, work_rollable, queueVars, poolVars, minerVars, gwsVars, lpVars
  <2>5. NoMinerSleepsOnWork' /\ NoMutualSleep'
    BY <1>21 DEF Suspend, TypeOK, NoMinerSleepsOnWork, NoMutualSleep, queueVars, poolVars, minerVars, gwsVars, lpVars
  <2> QED BY <2>1, <2>2, <2>3, <2>4, <2>5 DEF SInv
<1>22. ASSUME NEW p \in StratumPools, Reconnect(p)
      PROVE  SInv'
  <2>1. TypeOK'
    BY <1>22 DEF Reconnect, TypeOK, Items, Blank, Pools, queueVars, poolVars, minerVars, gwsVars, lpVars
  <2>2. PointersMatch'
    BY <1>22 DEF Reconnect, TypeOK, PointersMatch, queueVars, poolVars, minerVars, gwsVars, lpVars
  <2>3. OwnedOnce'
    BY <1>22 DEF Reconnect, TypeOK, PointersMatch, OwnedOnce, InHand, queueVars, poolVars, minerVars, gwsVars, lpVars
  <2>4. UnrollableInHand'
    BY <1>22 DEF Reconnect, TypeOK, PointersMatch, OwnedOnce, InHand, UnrollableInHand, work_rollable, queueVars, poolVars, minerVars, gwsVars, lpVars
  <2>5. NoMinerSleepsOnWork' /\ NoMutualSleep'
    BY <1>22 DEF Reconnect, TypeOK, NoMinerSleepsOnWork, NoMutualSleep, queueVars, poolVars, minerVars, gwsVars, lpVars
  <2> QED BY <2>1, <2>2, <2>3, <2>4, <2>5 DEF SInv
<1>30. CASE UNCHANGED vars
  BY <1>30 DEF vars, queueVars, poolVars, minerVars, gwsVars, lpVars, TypeOK, PointersMatch, OwnedOnce, InHand, UnrollableInHand, work_rollable, NoMinerSleepsOnWork, NoMutualSleep
<1> QED
  BY <1>1, <1>2, <1>3, <1>4, <1>5, <1>6, <1>7, <1>8, <1>9, <1>10, <1>11, <1>12, <1>13, <1>14, <1>15, <1>16, <1>17, <1>18, <1>19, <1>21, <1>22, <1>23, <1>24, <1>25, <1>30 DEF Next, MinerStep, GwsStep, LpStep, RecvStep

---------------------------------------------------------------------------
(* staged_rollable and the masters in the queue *)

\* The masters staged are finitely many.
LEMMA RollablesFinite ==
  ASSUME TypeOK
  PROVE  IsFiniteSet(Rollables(staged)) /\ Cardinality(Rollables(staged)) \in Nat
<1>1. Rollables(staged) \subseteq Works
  BY DEF Rollables, TypeOK
<1> QED BY <1>1, WorksAssumption, FS_Subset, FS_CardinalityType

\* The bound survives when no master joins and the count does not change.
LEMMA BoundKept ==
  ASSUME TypeOK, RollableBound,
         Rollables(staged)' \subseteq Rollables(staged), staged_rollable' = staged_rollable
  PROVE  RollableBound'
<1>1. /\ Cardinality(Rollables(staged)') <= Cardinality(Rollables(staged))
      /\ Cardinality(Rollables(staged)') \in Nat
  BY RollablesFinite, FS_Subset, FS_CardinalityType
<1> QED BY <1>1, RollablesFinite DEF RollableBound, TypeOK

\* It survives when one master is counted and joins.
LEMMA BoundPush ==
  ASSUME TypeOK, RollableBound, NEW w,
         Rollables(staged)' \subseteq Rollables(staged) \cup {w},
         staged_rollable' = staged_rollable + 1
  PROVE  RollableBound'
<1>1. /\ IsFiniteSet(Rollables(staged) \cup {w})
      /\ Cardinality(Rollables(staged) \cup {w}) <= Cardinality(Rollables(staged)) + 1
      /\ Cardinality(Rollables(staged) \cup {w}) \in Nat
  BY RollablesFinite, FS_AddElement
<1>2. /\ Cardinality(Rollables(staged)') <= Cardinality(Rollables(staged) \cup {w})
      /\ Cardinality(Rollables(staged)') \in Nat
  BY <1>1, FS_Subset, FS_CardinalityType
<1> QED BY <1>1, <1>2, RollablesFinite DEF RollableBound, TypeOK

\* It survives when one master leaves and is uncounted.
LEMMA BoundPop ==
  ASSUME TypeOK, RollableBound, NEW w \in Rollables(staged),
         Rollables(staged)' \subseteq Rollables(staged) \ {w},
         staged_rollable' = staged_rollable - 1
  PROVE  RollableBound'
<1>1. /\ IsFiniteSet(Rollables(staged) \ {w})
      /\ Cardinality(Rollables(staged) \ {w}) = Cardinality(Rollables(staged)) - 1
  BY RollablesFinite, FS_RemoveElement
<1>2. /\ Cardinality(Rollables(staged)') <= Cardinality(Rollables(staged) \ {w})
      /\ Cardinality(Rollables(staged)') \in Nat
  BY <1>1, FS_Subset, FS_CardinalityType
<1> QED BY <1>1, <1>2, RollablesFinite DEF RollableBound, TypeOK

\* hash_pop uncounts a master it takes, from the count that covers it.
LEMMA BoundUnstage ==
  ASSUME TypeOK, RollableBound, NEW w, Unstage(w),
         \A v \in staged \ {w} : work'[v] = work[v]
  PROVE  RollableBound'
<1>1. Rollables(staged)' \subseteq Rollables(staged) \ {w}
  BY DEF Unstage, Rollables, work_rollable
<1>2. CASE work_rollable(w)
  <2>1. w \in Rollables(staged) /\ staged_rollable' = staged_rollable - 1
    BY <1>2 DEF Unstage, Poppable, Rollables
  <2> QED BY <1>1, <2>1, BoundPop
<1>3. CASE ~work_rollable(w)
  <2>1. staged_rollable' = staged_rollable
    BY <1>3 DEF Unstage, TypeOK
  <2> QED BY <1>1, <2>1, BoundKept
<1> QED BY <1>2, <1>3

\* hash_push counts a master it adds.
LEMMA BoundStage ==
  ASSUME TypeOK, RollableBound, NEW w \in Works, NEW item, hash_push(w, item)
  PROVE  RollableBound'
<1>1. work'[w] = item /\ \A v \in Works \ {w} : work'[v] = work[v]
  BY DEF hash_push, TypeOK
<1>2. CASE item.rollable
  <2>1. Rollables(staged)' \subseteq Rollables(staged) \cup {w}
    BY <1>1 DEF hash_push, Rollables, work_rollable, TypeOK
  <2>2. staged_rollable' = staged_rollable + 1
    BY <1>2 DEF hash_push
  <2> QED BY <2>1, <2>2, BoundPush
<1>3. CASE ~item.rollable
  <2>1. Rollables(staged)' \subseteq Rollables(staged)
    BY <1>1, <1>3 DEF hash_push, Rollables, work_rollable, TypeOK
  <2>2. staged_rollable' = staged_rollable
    BY <1>3 DEF hash_push, TypeOK
  <2> QED BY <2>1, <2>2, BoundKept
<1> QED BY <1>2, <1>3

\* Every action keeps staged_rollable above the masters in the queue.
LEMMA NextRollableBound == SInv /\ RollableBound /\ [Next]_vars => RollableBound'
<1> SUFFICES ASSUME SInv, RollableBound, [Next]_vars
             PROVE  RollableBound'
  OBVIOUS
<1> USE DEF SInv
<1>1. ASSUME UNCHANGED <<staged, staged_rollable>>,
             \A w \in staged : work'[w].rollable => work[w].rollable
      PROVE  RollableBound'
  BY <1>1, BoundKept DEF Rollables, work_rollable
<1>2. ASSUME NEW m \in Miners, PopWait(m) \/ PopTimeout(m) \/ GetFresh(m)
      PROVE  RollableBound'
  BY <1>1, <1>2 DEF PopWait, PopTimeout, GetFresh, queueVars
<1>3. ASSUME NEW m \in Miners, PopTake(m)
      PROVE  RollableBound'
  BY <1>3, BoundUnstage DEF PopTake
<1>4. ASSUME NEW m \in Miners, GetStale(m) \/ Mined(m)
      PROVE  RollableBound'
  <2>1. held[m] \in Works /\ held[m] \notin staged
    BY <1>4 DEF GetStale, Mined, PointersMatch, OwnedOnce, InHand, TypeOK
  <2>2. \A w \in staged : work'[w] = work[w]
    BY <1>4, <2>1 DEF GetStale, Mined, _free_work, TypeOK
  <2>3. UNCHANGED <<staged, staged_rollable>>
    BY <1>4 DEF GetStale, Mined, queueVars
  <2> QED BY <1>1, <2>2, <2>3
<1>5. CASE GwsCount \/ GwsRecount \/ GwsSpurious
  BY <1>1, <1>5 DEF GwsCount, GwsRecount, GwsSpurious, queueVars
<1>6. CASE GwsDrop
  <2>1. CASE UNCHANGED <<queueVars, work, miner>>
    BY <1>1, <2>1 DEF queueVars
  <2>2. ASSUME NEW w \in staged, Unstage(w), _free_work(w)
        PROVE  RollableBound'
    BY <2>2, BoundUnstage DEF _free_work, TypeOK
  <2> QED BY <1>6, <2>1, <2>2 DEF GwsDrop
<1>7. CASE GwsMake
  <2>1. PICK p \in Pools, w \in Unused, old \in {work, Outdated} :
          work' = [old EXCEPT ![w] = NewItem(p, FALSE)]
    BY <1>7 DEF GwsMake
  <2>2. w \notin staged
    BY DEF Unused, OwnedOnce
  <2>3. \A v \in staged : work'[v].rollable = work[v].rollable
    BY <2>1, <2>2, OutdatedItems DEF TypeOK
  <2> QED BY <1>1, <1>7, <2>3 DEF GwsMake, queueVars
<1>8. CASE GwsPush
  <2>1. made \in Works /\ hash_push(made, work[made])
    BY <1>8 DEF GwsPush, PointersMatch, TypeOK
  <2> QED BY <2>1, BoundStage
<1>9. CASE LpReceive
  <2>1. PICK w \in Unused, r \in BOOLEAN :
          \/ work' = [Outdated EXCEPT ![w] = NewItem(Longpoller, r)]
          \/ \E c \in Unused \ {w} :
               work' = [Outdated EXCEPT ![w] = NewItem(Longpoller, r),
                                        ![c] = AsClone(NewItem(Longpoller, r))]
    BY <1>9 DEF LpReceive
  <2>2. \A v \in Unused : v \notin staged
    BY DEF Unused, OwnedOnce
  <2>3. \A v \in staged : work'[v].rollable = work[v].rollable
    BY <2>1, <2>2, OutdatedItems DEF TypeOK
  <2> QED BY <1>1, <1>9, <2>3 DEF LpReceive, queueVars
<1>10. CASE LpRoll
  <2>1. /\ clone \in Works /\ clone \notin staged /\ ~work_rollable(clone)
        /\ work[clone] \in Items
    BY <1>10 DEF LpRoll, PointersMatch, TypeOK, OwnedOnce, InHand, UnrollableInHand
  <2>2. PICK c \in Unused :
          work' = [work EXCEPT ![clone] = AsCurrent(work[clone]), ![c] = AsClone(work[master])]
    BY <1>10 DEF LpRoll
  <2>3. c \in Works /\ c \notin staged /\ c # clone
    BY <2>1, ItemTypes DEF Unused, OwnedOnce
  <2>4. ~AsCurrent(work[clone]).rollable
    BY <2>1, ItemTypes DEF work_rollable
  <2>5. ~work'[clone].rollable /\ \A v \in staged : work'[v] = work[v]
    BY <2>1, <2>2, <2>3, <2>4 DEF TypeOK
  <2>6. staged' = staged \cup {clone} /\ staged_rollable' = staged_rollable
    BY <1>10 DEF LpRoll
  <2>7. Rollables(staged)' \subseteq Rollables(staged)
    BY <2>5, <2>6 DEF Rollables, work_rollable
  <2> QED BY <2>6, <2>7, BoundKept
<1>11. CASE LpDone
  <2>1. clone \in Works /\ clone \notin staged /\ master \in Works
    BY <1>11 DEF LpDone, PointersMatch, TypeOK, OwnedOnce, InHand
  <2>2. CASE Stage(master)
    BY <2>1, <2>2, BoundStage DEF Stage
  <2>3. CASE _free_work(clone) /\ UNCHANGED <<queueVars, miner>>
    BY <1>1, <2>1, <2>3 DEF _free_work, queueVars, TypeOK
  <2> QED BY <1>11, <2>2, <2>3 DEF LpDone
<1>12. CASE LpStage
  <2>1. clone \in Works /\ hash_push(clone, AsCurrent(work[clone]))
    BY <1>12 DEF LpStage, Stage, PointersMatch, TypeOK
  <2> QED BY <2>1, BoundStage
<1>13. CASE DiscardStale
  <2>1. staged' \subseteq staged /\ staged_rollable' = staged_rollable
    BY <1>13 DEF DiscardStale
  <2>2. \A w \in staged' : work'[w] = work[w]
    BY <1>13 DEF DiscardStale, TypeOK
  <2>3. Rollables(staged)' \subseteq Rollables(staged)
    BY <2>1, <2>2 DEF Rollables, work_rollable
  <2> QED BY <2>1, <2>3, BoundKept
<1>14. CASE NewBlock
  <2>1. \A w \in staged : work'[w].rollable = work[w].rollable
    BY <1>14, OutdatedItems DEF NewBlock, TypeOK
  <2> QED BY <1>1, <1>14, <2>1 DEF NewBlock, queueVars
<1>15. ASSUME NEW p \in StratumPools, Disconnect(p) \/ Suspend(p) \/ Reconnect(p)
       PROVE  RollableBound'
  BY <1>1, <1>15 DEF Disconnect, Suspend, Reconnect, queueVars
<1>16. ASSUME NEW p \in Pools, LinkCleared(p) \/ LeavePool(p)
       PROVE  RollableBound'
  <2>1. staged' \subseteq staged /\ staged_rollable' = staged_rollable
    BY <1>16 DEF LinkCleared, LeavePool, clear_pool_work
  <2>2. \A w \in staged' : work'[w] = work[w]
    BY <1>16 DEF LinkCleared, LeavePool, clear_pool_work, TypeOK
  <2>3. Rollables(staged)' \subseteq Rollables(staged)
    BY <2>1, <2>2 DEF Rollables, work_rollable
  <2> QED BY <2>1, <2>3, BoundKept
<1>18. ASSUME NEW p \in StratumPools, NewJob(p)
       PROVE  RollableBound'
  <2>1. \A w \in staged : work'[w].rollable = work[w].rollable
    BY <1>18, OldJobItems DEF NewJob, TypeOK
  <2> QED BY <1>1, <1>18, <2>1 DEF NewJob, queueVars
<1>17. CASE UNCHANGED vars
  BY <1>1, <1>17 DEF vars, queueVars
<1> QED
  BY <1>2, <1>3, <1>4, <1>5, <1>6, <1>7, <1>8, <1>9, <1>10, <1>11, <1>12, <1>13, <1>14,
     <1>15, <1>16, <1>17, <1>18 DEF Next, MinerStep, GwsStep, LpStep, RecvStep, Pools

---------------------------------------------------------------------------

\* Initially the queue is empty and nobody holds work.
LEMMA InitIInv == Init => IInv
<1> SUFFICES ASSUME Init
             PROVE  IInv
  OBVIOUS
<1> USE WorksAssumption DEF Init
<1>a. work \in [Works -> Items \cup {Blank}] /\ staged = {} /\ staged \subseteq Works
  OBVIOUS
<1>b. staged_rollable \in Int /\ mrs \in Nat
  OBVIOUS
<1>c. usable \in [Pools -> BOOLEAN] /\ cloned \in BOOLEAN
  OBVIOUS
<1>d. /\ link \in [StratumPools -> {"up", "lost", "cleared"}]
      /\ miner \in [Miners -> {"pop", "wait", "woken", "check", "mining"}]
      /\ held \in [Miners -> Works \cup {NoWork}]
  OBVIOUS
<1>e. /\ gws \in {"count", "wait", "woken", "drop", "select", "push"}
      /\ lp \in {"poll", "roll", "last"}
      /\ made \in Works \cup {NoWork}
      /\ master \in Works \cup {NoWork}
      /\ clone \in Works \cup {NoWork}
  OBVIOUS
<1>1. TypeOK
  BY <1>a, <1>b, <1>c, <1>d, <1>e DEF TypeOK
<1>2. PointersMatch
  BY DEF PointersMatch
<1>3. OwnedOnce
  BY DEF OwnedOnce, InHand
<1>4. UnrollableInHand /\ NoMinerSleepsOnWork /\ NoMutualSleep
  BY DEF UnrollableInHand, NoMinerSleepsOnWork, NoMutualSleep
<1>5. Rollables(staged) = {}
  BY DEF Rollables
<1>6. RollableBound
  BY <1>5, FS_EmptySet DEF RollableBound
<1> QED BY <1>1, <1>2, <1>3, <1>4, <1>6 DEF IInv

\* The invariant holds in every reachable state: no work item is freed while
\* somebody points to it or leaked, and the two condition variables lose no
\* wakeup, for any number of miners, pools and work items.
THEOREM WorkQueueInvariant == Spec => []IInv
<1>1. IInv /\ [Next]_vars => IInv'
  BY NextSInv, NextRollableBound DEF IInv, SInv
<1> QED
  BY <1>1, InitIInv, PTL DEF Spec

\* A work item has one owner while it exists and none once it is freed.
THEOREM OwnedOnceHolds == Spec => []OwnedOnce
<1>1. IInv => OwnedOnce
  BY DEF IInv
<1> QED BY <1>1, WorkQueueInvariant, PTL

\* hash_pop never comes away empty-handed from a queue that is not empty: if
\* more items are staged than staged_rollable counts, they cannot all be
\* masters.
THEOREM PopFindsWorkHolds == Spec => []PopFindsWork
<1>1. ASSUME IInv, staged # {}
      PROVE  \E w \in staged : Poppable(w)
  <2> USE <1>1 DEF IInv
  <2>1. CASE __total_staged > staged_rollable
    <3>1. Cardinality(Rollables(staged)) \in Nat /\ __total_staged \in Nat
      BY RollablesFinite, CountTypes DEF TypeOK
    <3>2. Rollables(staged) # staged
      BY <2>1, <3>1 DEF RollableBound, __total_staged, TypeOK
    <3> QED BY <3>2 DEF Rollables, Poppable
  <2>2. CASE ~(__total_staged > staged_rollable)
    BY <2>2 DEF Poppable
  <2> QED BY <2>1, <2>2
<1>2. IInv => PopFindsWork
  BY <1>1 DEF PopFindsWork
<1> QED BY <1>2, WorkQueueInvariant, PTL

\* No miner sleeps while work is staged, unless it was woken: the broadcast of
\* hash_push is never missed (cgminer.c:8164).
THEOREM NoMinerSleepsOnWorkHolds == Spec => []NoMinerSleepsOnWork
<1>1. IInv => NoMinerSleepsOnWork
  BY DEF IInv
<1> QED BY <1>1, WorkQueueInvariant, PTL

\* No miner and the scheduler sleep on each other (cgminer.c:11628).
THEOREM NoMutualSleepHolds == Spec => []NoMutualSleep
<1>1. IInv => NoMutualSleep
  BY DEF IInv
<1> QED BY <1>1, WorkQueueInvariant, PTL

=============================================================================
