--------------------------- MODULE PoolList_proofs ---------------------------
(***************************************************************************)
(* Proofs about PoolList: however the operator adds, removes, prefers and  *)
(* reorders pools, and whatever the other threads do beside each write of  *)
(* these operations, the numbers and priorities stay in order, the list    *)
(* changes as PoolOrder says, and enabled_pools is right until the API     *)
(* writes enabled.                                                         *)
(***************************************************************************)
EXTENDS PoolList, FiniteSetTheorems, WellFoundedInduction, TLAPS

\* The listed pools are struct pools, finitely many.
LEMMA ListedPools ==
    ASSUME NumbersMatch
    PROVE  Listed \subseteq Pool /\ IsFiniteSet(Listed)
<1>1. Listed \subseteq Pool
    BY DEF NumbersMatch, Listed, Numbers
<1>. QED BY <1>1, FS_Subset, PoolAssumption

\* The sizes are numbers.
LEMMA Sizes ==
    ASSUME TypeOK
    PROVE  /\ Cardinality(Pool) \in Nat /\ total_pools \in Nat \ {0} /\ total_pools <= Cardinality(Pool)
           /\ \A p \in Pool : prio[p] \in Nat /\ prio[p] <= Cardinality(Pool) /\ pool_no[p] \in Nat
           /\ loop \in Nat /\ loop < total_pools
<1>1. Cardinality(Pool) \in Nat
    BY FS_CardinalityType, PoolAssumption
<1>2. total_pools \in Nat \ {0} /\ total_pools <= Cardinality(Pool)
    BY <1>1 DEF TypeOK, Slots
<1>3. \A p \in Pool : prio[p] \in Slots /\ pool_no[p] \in Slots
    BY DEF TypeOK
<1>4. loop \in 0 .. total_pools - 1
    BY DEF TypeOK, Numbers
<1>. QED BY <1>1, <1>2, <1>3, <1>4 DEF Slots

Doubled == pc \in {"replace", "invalidate", "unlist", "shrink"}

\* But while the last pool is moved each pool has one entry.
LEMMA OnePlace ==
    ASSUME TypeOK, NumbersMatch, ~Doubled
    PROVE  /\ \A p \in Listed : pool_no[p] \in Numbers /\ pools[pool_no[p]] = p
           /\ \A i \in Numbers : pools[i] \in Listed /\ pool_no[pools[i]] = i
           /\ Cardinality(Listed) \in Nat /\ Cardinality(Listed) <= total_pools
<1>1. \A i \in Numbers : pools[i] \in Listed /\ pool_no[pools[i]] = i
    BY DEF NumbersMatch, Listed, Doubled
<1>2. \A p \in Listed : pool_no[p] \in Numbers /\ pools[pool_no[p]] = p
    BY <1>1 DEF Listed
<1>. DEFINE f == [p \in Listed |-> pool_no[p]]
<1>3. f \in Injection(Listed, Numbers)
    BY <1>2 DEF Injection, IsInjective
<1>4. IsFiniteSet(Numbers) /\ Cardinality(Numbers) = total_pools
    <2>1. total_pools \in Nat
        BY Sizes
    <2>. QED BY <2>1, FS_Interval DEF Numbers
<1>5. Cardinality(Listed) <= total_pools
    BY <1>3, <1>4, FS_Injection
<1>6. Cardinality(Listed) \in Nat
    BY ListedPools, FS_CardinalityType
<1>. QED BY <1>1, <1>2, <1>5, <1>6

Less == {e \in Nat \X Nat : e[1] < e[2]}

LEMMA LessWellFounded == IsWellFoundedOn(Less, Nat)
BY NatLessThanWellFounded DEF OpToRel, Less

\* A loop that leaves at the first index of a set finds it.
LEMMA FirstIsLeast ==
    ASSUME NEW S \in SUBSET Nat, S # {}
    PROVE  First(S) \in S /\ \A j \in S : First(S) <= j
<1>1. PICK x \in S : \A y \in S : <<y, x>> \notin Less
    BY LessWellFounded, WFMin
<1>2. \A y \in S : x <= y
    <2>. SUFFICES ASSUME NEW y \in S PROVE x <= y
        OBVIOUS
    <2>1. <<y, x>> \in Nat \X Nat /\ x \in Nat /\ y \in Nat
        OBVIOUS
    <2>2. (<<y, x>>)[1] = y /\ (<<y, x>>)[2] = x
        OBVIOUS
    <2>3. y < x => <<y, x>> \in Less
        BY <2>1, <2>2 DEF Less
    <2>. QED BY <1>1, <2>1, <2>3
<1>. QED BY <1>2 DEF First

\* switch_pools makes a struct pool current.
LEMMA SwitchType ==
    ASSUME TypeOK, NumbersMatch, switch_pools
    PROVE  currentpool' \in Pool
<1>1. \A choice \in Numbers : priority_pool(choice) \in Pool
    <2>. SUFFICES ASSUME NEW choice \in Numbers PROVE priority_pool(choice) \in Pool
        OBVIOUS
    <2>. DEFINE having == {i \in Numbers : prio'[pools[i]] = choice}
                at == IF having = {} THEN choice ELSE First(having)
    <2>1. having \in SUBSET Nat
        BY Sizes DEF Numbers
    <2>2. at \in Numbers
        BY <2>1, FirstIsLeast
    <2>3. pools[at] \in Pool
        BY <2>2 DEF NumbersMatch
    <2>. QED BY <2>3 DEF priority_pool
<1>2. \A p \in Pool : pools[pool_no[p]] \in Pool \cup {NoPool}
    BY DEF TypeOK
<1>3. currentpool \in Pool
    BY DEF TypeOK
<1>. QED BY <1>1, <1>2, <1>3 DEF switch_pools

\* The three ways of writing enabled keep the types.
LEMMA CountType ==
    ASSUME TypeOK, NEW p \in Pool, NEW counted \in BOOLEAN,
           \/ Enable(p, counted)
           \/ Disable(p, "disabled", counted) \/ Disable(p, "rejecting", counted)
    PROVE  /\ enabled' \in [Pool -> {"enabled", "disabled", "rejecting"}]
           /\ enabled_pools' \in Int /\ direct' \in Nat
<1>1. enabled' \in [Pool -> {"enabled", "disabled", "rejecting"}]
    BY DEF TypeOK, Enable, Disable
<1>2. enabled_pools' \in Int
    BY DEF TypeOK, Enable, Disable
<1>3. direct' \in Nat
    BY DEF TypeOK, Enable, Disable
<1>. QED BY <1>1, <1>2, <1>3

\* There is room for a pool that is not listed.
LEMMA Room ==
    ASSUME TypeOK, NumbersMatch, ~Doubled, NEW p \in Pool \ Listed
    PROVE  total_pools + 1 \in Slots
<1>. DEFINE f == [i \in Numbers |-> pools[i]]
<1>1. f \in Injection(Numbers, Pool \ {p})
    BY OnePlace, ListedPools DEF Injection, IsInjective
<1>2. total_pools \in Nat /\ Cardinality(Pool) \in Nat
    BY Sizes
<1>3. Cardinality(Numbers) = total_pools
    BY <1>2, FS_Interval DEF Numbers
<1>4. IsFiniteSet(Pool \ {p}) /\ Cardinality(Pool \ {p}) = Cardinality(Pool) - 1
    BY PoolAssumption, FS_RemoveElement
<1>5. Cardinality(Numbers) <= Cardinality(Pool \ {p})
    BY <1>1, <1>4, FS_Injection
<1>. QED BY <1>2, <1>3, <1>4, <1>5 DEF Slots

---------------------------------------------------------------------------
(* Where the rank is the priority *)

Writing == Reordering \/ (Removing /\ pc = "boost")

LEMMA RankIsPrio == ~Writing => rank = prio
BY DEF Writing, rank

LEMMA RankWhileReordering ==
    ASSUME Reordering, NEW p \in Pool
    PROVE  rank[p] =
             IF p \in Listed \ changed
                THEN Cardinality(changed) + Cardinality({q \in Listed \ changed : prio[q] < prio[p]})
             ELSE IF pc = "name" /\ p \in changed THEN new_prio[p] ELSE prio[p]
BY DEF rank

LEMMA RankWhileBoosting ==
    ASSUME Removing, pc = "boost", NEW p \in Pool
    PROVE  rank[p] = IF loop <= pool_no[p] /\ prio[p] > prio[victim] THEN prio[p] - 1 ELSE prio[p]
BY DEF rank, Reordering

\* A step that leaves what the order is made of alone leaves the order alone.
LEMMA SameRank ==
    ASSUME UNCHANGED <<pools, total_pools, pool_no, prio, pc, loop, victim, new_prio, changed>>
    PROVE  /\ Listed' = Listed /\ Ranked' = Ranked /\ Ranks' = Ranks /\ rank' = rank
           /\ Numbers' = Numbers /\ (Reordering' <=> Reordering) /\ (Removing' <=> Removing)
<1>1. Listed' = Listed /\ Numbers' = Numbers
    BY DEF Listed, Numbers
<1>2. (Reordering' <=> Reordering) /\ (Removing' <=> Removing)
    BY DEF Reordering, Removing
<1>3. Ranked' = Ranked /\ Ranks' = Ranks
    BY <1>1, <1>2, Zenon DEF Ranked, Ranks
<1>4. rank' = rank
    BY <1>1, <1>2, Zenon DEF rank
<1>. QED BY <1>1, <1>2, <1>3, <1>4

\* A step that leaves the list and the operation alone keeps the list in order.
LEMMA Quiet ==
    ASSUME ListInv, UNCHANGED <<listVars, opVars>>
    PROVE  NumbersMatch' /\ RanksPermuted' /\ RemovalOK' /\ ReorderOK' /\ TurnsOK'
<1>. USE DEF listVars, numVars, opVars
<1>1. /\ Listed' = Listed /\ Ranked' = Ranked /\ Ranks' = Ranks /\ rank' = rank /\ Numbers' = Numbers
      /\ last' = last
    BY SameRank DEF last
<1>2. NumbersMatch'
    BY <1>1 DEF ListInv, NumbersMatch
<1>3. RanksPermuted'
    BY <1>1 DEF ListInv, RanksPermuted
<1>4. RemovalOK'
    BY <1>1 DEF ListInv, RemovalOK
<1>5. ReorderOK'
    BY <1>1 DEF ListInv, ReorderOK
<1>6. TurnsOK'
    BY <1>1 DEF ListInv, TurnsOK
<1>. QED BY <1>2, <1>3, <1>4, <1>5, <1>6

---------------------------------------------------------------------------
(* A pool is selected *)

\* No pool moves down beyond the selected one.
LEMMA PrioFirstType ==
    ASSUME TypeOK, NumbersMatch, NEW p \in Listed, PrioFirst(p)
    PROVE  prio' \in [Pool -> Slots]
<1>1. \A q \in Pool : prio'[q] \in Slots
    <2>. SUFFICES ASSUME NEW q \in Pool PROVE prio'[q] \in Slots
        OBVIOUS
    <2>. DEFINE places == Cardinality({i \in Numbers : pools[i] = q})
    <2>1. prio[q] \in Nat /\ prio[p] \in Nat /\ prio[q] <= Cardinality(Pool) /\ prio[p] <= Cardinality(Pool)
        BY Sizes, ListedPools
    <2>2. places \in Nat
        <3>1. IsFiniteSet(Numbers)
            BY Sizes, FS_Interval DEF Numbers
        <3>. QED BY <3>1, FS_Subset, FS_CardinalityType
    <2>3. MovedDown(q, p) \in Nat /\ (prio[q] < prio[p] => MovedDown(q, p) <= prio[p])
        BY <2>1, <2>2 DEF MovedDown
    <2>4. prio'[q] = IF q = p THEN 0 ELSE IF q \in Listed /\ prio[q] < prio[p] THEN MovedDown(q, p) ELSE prio[q]
        BY DEF PrioFirst
    <2>. QED BY <2>1, <2>3, <2>4, Sizes DEF Slots
<1>2. prio' = [q \in Pool |-> prio'[q]]
    BY DEF PrioFirst
<1>. QED BY <1>1, <1>2

Shifted(a, c) == IF a < c THEN a + 1 ELSE a

\* Moving down those before c makes room at 0 and leaves them distinct.
LEMMA ShiftFacts ==
    /\ \A a, c \in Nat : a # c => Shifted(a, c) # 0
    /\ \A a, b, c \in Nat : a # c /\ b # c /\ Shifted(a, c) = Shifted(b, c) => a = b
BY DEF Shifted

\* Beside no edit, switch_pools(p) moves the pools before p down by one place.
LEMMA PrioFirstMoves ==
    ASSUME TypeOK, NumbersMatch, ~Doubled, NEW p \in Listed, PrioFirst(p), NEW q \in Listed
    PROVE  prio'[q] = IF q = p THEN 0 ELSE Shifted(prio[q], prio[p])
<1>1. q \in Pool /\ prio[q] \in Nat /\ prio[p] \in Nat
    BY Sizes, ListedPools
<1>2. {i \in Numbers : pools[i] = q} = {pool_no[q]}
    BY OnePlace
<1>3. Cardinality({i \in Numbers : pools[i] = q}) = 1
    BY <1>2, FS_Singleton
<1>4. prio[q] < prio[p] => MovedDown(q, p) = prio[q] + 1
    BY <1>1, <1>3 DEF MovedDown
<1>. QED BY <1>1, <1>4 DEF PrioFirst, Shifted

\* So it gives p the first priority and leaves a permutation.
LEMMA PrioFirstOK ==
    ASSUME TypeOK, NumbersMatch, RanksPermuted, ~raced, ~Reordering, ~Removing, ~Doubled,
           NEW p \in Listed, PrioFirst(p)
    PROVE  /\ \A q \in Listed : prio'[q] \in 0 .. total_pools - 1
           /\ \A q, r \in Listed : prio'[q] = prio'[r] => q = r
<1>1. rank = prio /\ Ranked = Listed /\ Ranks = 0 .. total_pools - 1
    BY RankIsPrio DEF Writing, Ranked, Ranks
<1>2. \A q \in Listed : prio[q] \in 0 .. total_pools - 1
    BY <1>1 DEF RanksPermuted
<1>3. \A q, r \in Listed : prio[q] = prio[r] => q = r
    BY <1>1 DEF RanksPermuted
<1>4. \A q \in Listed : prio'[q] = IF q = p THEN 0 ELSE Shifted(prio[q], prio[p])
    BY PrioFirstMoves
<1>5. total_pools \in Nat \ {0}
    BY Sizes
<1>6. ASSUME NEW q \in Listed PROVE prio'[q] \in 0 .. total_pools - 1
    <2>1. prio[q] \in 0 .. total_pools - 1 /\ prio[p] \in 0 .. total_pools - 1
        BY <1>2
    <2>. QED BY <2>1, <1>4, <1>5 DEF Shifted
<1>7. ASSUME NEW q \in Listed, NEW r \in Listed, prio'[q] = prio'[r] PROVE q = r
    <2>1. prio[q] \in Nat /\ prio[r] \in Nat /\ prio[p] \in Nat
        BY <1>2, <1>5
    <2>2. ASSUME NEW x \in Listed, x # p
          PROVE  prio'[x] = Shifted(prio[x], prio[p]) /\ prio'[x] # 0 /\ prio[x] # prio[p]
        <3>1. prio[x] \in Nat /\ prio[x] # prio[p]
            BY <1>2, <1>3, <1>5, <2>2
        <3>2. prio'[x] = Shifted(prio[x], prio[p])
            BY <1>4, <2>2
        <3>. QED BY <2>1, <3>1, <3>2, ShiftFacts
    <2>3. prio'[p] = 0
        BY <1>4
    <2>4. CASE q = p \/ r = p
        BY <1>7, <2>2, <2>3, <2>4
    <2>5. CASE q # p /\ r # p
        <3>1. prio[q] = prio[r]
            BY <1>7, <2>1, <2>2, <2>5, ShiftFacts
        <3>. QED BY <3>1, <1>3
    <2>. QED BY <2>4, <2>5
<1>. QED BY <1>6, <1>7

\* Beside an edit it loses the order, but neither numbers nor edit.
LEMMA SelectedOK ==
    ASSUME ListInv, NEW p \in Listed, switch_selected(p), UNCHANGED opVars
    PROVE  /\ NumbersMatch' /\ RanksPermuted' /\ RemovalOK' /\ ReorderOK' /\ TurnsOK'
           /\ prio' \in [Pool -> Slots] /\ raced' \in BOOLEAN
<1>0. /\ PrioFirst(p) /\ UNCHANGED <<pools, total_pools, pool_no, removed, pc, loop, victim, menu, new_prio, changed>>
      /\ raced' = (raced \/ ((Reordering \/ Removing) /\ prio[p] # 0))
    BY DEF switch_selected, numVars, opVars
<1>1. prio' \in [Pool -> Slots]
    BY <1>0, PrioFirstType DEF ListInv
<1>2. /\ Listed' = Listed /\ Numbers' = Numbers /\ last' = last /\ Ranked' = Ranked /\ Ranks' = Ranks
      /\ (Reordering' <=> Reordering) /\ (Removing' <=> Removing)
    <2>1. Listed' = Listed /\ Numbers' = Numbers /\ last' = last
        BY <1>0 DEF Listed, Numbers, last
    <2>2. (Reordering' <=> Reordering) /\ (Removing' <=> Removing)
        BY <1>0 DEF Reordering, Removing
    <2>3. Ranked' = Ranked /\ Ranks' = Ranks
        BY <1>0, <2>1, <2>2, Zenon DEF Ranked, Ranks
    <2>. QED BY <2>1, <2>2, <2>3
<1>3. NumbersMatch'
    BY <1>0, <1>2 DEF ListInv, NumbersMatch
<1>4. RemovalOK' /\ ReorderOK'
    <2>1. RemovalOK'
        BY <1>0, <1>2 DEF ListInv, RemovalOK
    <2>2. ReorderOK'
        BY <1>0, <1>2 DEF ListInv, ReorderOK
    <2>. QED BY <2>1, <2>2
<1>5. raced' \in BOOLEAN
    BY <1>0, Zenon
<1>6. CASE raced'
    BY <1>1, <1>3, <1>4, <1>5, <1>6 DEF RanksPermuted, TurnsOK
<1>7. CASE ~raced' /\ prio[p] = 0
    <2>1. \A q \in Pool : prio[q] \in Nat
        BY Sizes DEF ListInv
    <2>2. \A q \in Pool : prio'[q] = prio[q]
        BY <1>0, <1>7, <2>1 DEF PrioFirst
    <2>3. prio' = prio
        BY <1>1, <2>2 DEF ListInv, TypeOK
    <2>4. raced' = raced
        BY <1>0, <1>7 DEF ListInv, TypeOK
    <2>5. UNCHANGED <<listVars, opVars>>
        BY <1>0, <2>3, <2>4 DEF listVars, numVars, opVars
    <2>. QED BY <2>5, <1>1, <1>5, Quiet
<1>8. CASE ~raced' /\ prio[p] # 0
    <2>1. ~raced /\ ~Reordering /\ ~Removing
        BY <1>0, <1>8
    <2>2. ~Doubled
        BY <2>1 DEF Removing, Doubled
    <2>3. /\ \A q \in Listed : prio'[q] \in 0 .. total_pools - 1
          /\ \A q, r \in Listed : prio'[q] = prio'[r] => q = r
        BY <1>0, <2>1, <2>2, PrioFirstOK DEF ListInv
    <2>4. rank' = prio' /\ Ranked' = Listed /\ Ranks' = 0 .. total_pools - 1
        <3>1. ~Writing'
            BY <1>2, <2>1 DEF Writing
        <3>2. rank' = prio'
            BY <3>1, Zenon DEF Writing, rank
        <3>. QED BY <3>2, <1>2, <2>1 DEF Ranked, Ranks
    <2>5. RanksPermuted'
        BY <2>3, <2>4 DEF RanksPermuted
    <2>6. TurnsOK'
        <3>1. pc \in {"name", "append"} => pc = "name" /\ loop = 0
            <4>1. loop \in Nat
                BY Sizes DEF ListInv
            <4>. QED BY <4>1, <2>1 DEF Reordering
        <3>2. \A q \in changed : pool_no[q] \in Nat
            BY Sizes, ListedPools DEF ListInv, ReorderOK
        <3>. QED BY <1>0, <1>2, <2>3, <3>1, <3>2 DEF TurnsOK, last
    <2>. QED BY <1>1, <1>3, <1>4, <1>5, <2>5, <2>6
<1>. QED BY <1>6, <1>7, <1>8

---------------------------------------------------------------------------
(* poolpriority *)

Before(p) == {q \in Listed \ changed : prio[q] < prio[p]}

\* What poolpriority makes of the priorities
Target(p) == IF p \in changed THEN new_prio[p] ELSE Cardinality(changed) + Cardinality(Before(p))

\* The pools before p among those that are not named
LEMMA BeforeFacts ==
    ASSUME ListInv, ~raced, pc \in {"name", "append"}
    PROVE  /\ Cardinality(changed) \in Nat /\ IsFiniteSet(changed) /\ IsFiniteSet(Listed \ changed)
           /\ Cardinality(changed) + Cardinality(Listed \ changed) <= total_pools
           /\ Cardinality(Listed \ changed) \in Nat
           /\ \A p \in Listed \ changed :
                /\ IsFiniteSet(Before(p)) /\ Cardinality(Before(p)) \in Nat
                /\ Cardinality(Before(p)) < Cardinality(Listed \ changed)
           /\ \A p, q \in Listed \ changed :
                prio[p] < prio[q] => Cardinality(Before(p)) < Cardinality(Before(q))
<1>. DEFINE R == Listed \ changed
<1>1. Listed \subseteq Pool /\ IsFiniteSet(Listed) /\ changed \subseteq Listed
    BY ListedPools DEF ListInv, ReorderOK
<1>2. \A p \in Listed : prio[p] \in Nat
    BY <1>1, Sizes DEF ListInv
<1>3. IsFiniteSet(changed) /\ IsFiniteSet(R)
    BY <1>1, FS_Subset
<1>4. Cardinality(changed) \in Nat /\ Cardinality(R) \in Nat
    BY <1>3, FS_CardinalityType
<1>5. Cardinality(changed) + Cardinality(R) <= total_pools
    <2>1. Cardinality(Listed) \in Nat /\ Cardinality(Listed) <= total_pools
        BY OnePlace DEF ListInv, Doubled
    <2>2. Cardinality(R) = Cardinality(Listed) - Cardinality(Listed \cap changed)
        BY <1>1, FS_Difference
    <2>3. Listed \cap changed = changed
        BY <1>1
    <2>4. total_pools \in Nat
        BY Sizes DEF ListInv
    <2>5. Cardinality(R) = Cardinality(Listed) - Cardinality(changed)
        BY <2>2, <2>3, Zenon
    <2>. QED BY <2>1, <2>4, <2>5, <1>4
<1>6. ASSUME NEW p \in R
      PROVE  IsFiniteSet(Before(p)) /\ Cardinality(Before(p)) \in Nat /\ Cardinality(Before(p)) < Cardinality(R)
    <2>1. Before(p) \subseteq R \ {p}
        BY <1>2 DEF Before
    <2>2. IsFiniteSet(R \ {p}) /\ Cardinality(R \ {p}) = Cardinality(R) - 1
        BY <1>3, FS_RemoveElement
    <2>3. IsFiniteSet(Before(p)) /\ Cardinality(Before(p)) <= Cardinality(R \ {p})
        BY <2>1, <2>2, FS_Subset
    <2>4. Cardinality(Before(p)) \in Nat
        BY <2>3, FS_CardinalityType
    <2>. QED BY <2>2, <2>3, <2>4, <1>4
<1>7. ASSUME NEW p \in R, NEW q \in R, prio[p] < prio[q]
      PROVE  Cardinality(Before(p)) < Cardinality(Before(q))
    <2>1. Before(p) \subseteq Before(q) \ {p} /\ p \in Before(q)
        BY <1>2, <1>7 DEF Before
    <2>2. IsFiniteSet(Before(q) \ {p}) /\ Cardinality(Before(q) \ {p}) = Cardinality(Before(q)) - 1
        BY <2>1, <1>6, FS_RemoveElement
    <2>3. Cardinality(Before(p)) <= Cardinality(Before(q) \ {p})
        BY <2>1, <2>2, FS_Subset
    <2>. QED BY <2>2, <2>3, <1>6
<1>. QED BY <1>3, <1>4, <1>5, <1>6, <1>7

\* It leaves a permutation.
LEMMA TargetOK ==
    ASSUME ListInv, ~raced, pc = "name"
    PROVE  /\ \A p \in Listed : Target(p) \in 0 .. total_pools - 1
           /\ \A p, q \in Listed : Target(p) = Target(q) => p = q
<1>. DEFINE R == Listed \ changed
<1>1. /\ Cardinality(changed) \in Nat /\ Cardinality(R) \in Nat
      /\ Cardinality(changed) + Cardinality(R) <= total_pools /\ total_pools \in Nat
    BY BeforeFacts, Sizes DEF ListInv
<1>2. \A p \in changed : Target(p) = new_prio[p] /\ new_prio[p] \in 0 .. Cardinality(changed) - 1
    BY DEF Target, ListInv, ReorderOK
<1>3. \A p \in R : /\ Target(p) = Cardinality(changed) + Cardinality(Before(p))
                    /\ Cardinality(Before(p)) \in Nat /\ Cardinality(Before(p)) < Cardinality(R)
    BY BeforeFacts DEF Target
<1>4. ASSUME NEW p \in Listed PROVE Target(p) \in 0 .. total_pools - 1
    <2>1. CASE p \in changed
        BY <2>1, <1>1, <1>2
    <2>2. CASE p \notin changed
        BY <2>2, <1>1, <1>3
    <2>. QED BY <2>1, <2>2
<1>5. ASSUME NEW p \in Listed, NEW q \in Listed, p # q PROVE Target(p) # Target(q)
    <2>1. CASE p \in changed /\ q \in changed
        BY <2>1, <1>2, <1>5 DEF ListInv, ReorderOK
    <2>2. ASSUME NEW x \in changed, NEW y \in R PROVE Target(x) # Target(y)
        BY <1>1, <1>2, <1>3
    <2>3. CASE p \in R /\ q \in R
        <3>1. prio[p] \in Nat /\ prio[q] \in Nat
            BY Sizes, ListedPools DEF ListInv
        <3>2. prio[p] # prio[q]
            BY <2>3, <1>5 DEF ListInv, TurnsOK
        <3>3. prio[p] < prio[q] => Cardinality(Before(p)) < Cardinality(Before(q))
            BY <2>3, BeforeFacts
        <3>4. prio[q] < prio[p] => Cardinality(Before(q)) < Cardinality(Before(p))
            BY <2>3, BeforeFacts
        <3>5. /\ Cardinality(Before(p)) \in Nat /\ Cardinality(Before(q)) \in Nat
              /\ Target(p) = Cardinality(changed) + Cardinality(Before(p))
              /\ Target(q) = Cardinality(changed) + Cardinality(Before(q))
            BY <2>3, <1>3
        <3>6. Cardinality(Before(p)) # Cardinality(Before(q))
            BY <3>1, <3>2, <3>3, <3>4, <3>5
        <3>. QED BY <3>5, <3>6, <1>1
    <2>. QED BY <2>1, <2>2, <2>3
<1>. QED BY <1>4, <1>5

\* From its first write on this is the rank, while it writes what it is asked to ...
LEMMA NameTurn ==
    ASSUME ListInv, NamePool
    PROVE  /\ Listed' = Listed /\ Numbers' = Numbers /\ Reordering' /\ ~Removing /\ ~Removing' /\ ~Doubled
           /\ prio' \in [Pool -> Slots] /\ loop' \in Numbers
           /\ ~raced => /\ \A p \in Listed : rank'[p] = Target(p) /\ (loop > 0 => rank[p] = Target(p))
                        /\ TurnsOK'
<1>. DEFINE p == pools[loop]
<1>0. /\ pc = "name" /\ UNCHANGED <<pools, total_pools, pool_no, raced, victim, new_prio, changed>>
      /\ loop \in Numbers /\ total_pools \in Nat /\ loop \in Nat
    BY Sizes DEF NamePool, numVars, ListInv, TypeOK
<1>1. /\ pc' \in {"name", "append"}
      /\ pc' = "name" => loop' = loop + 1 /\ loop + 1 < total_pools
      /\ pc' = "append" => loop' = 0 /\ ~(loop + 1 < total_pools)
    BY <1>0 DEF NamePool, Turn
<1>2. Listed' = Listed /\ Numbers' = Numbers /\ last' = last
    BY <1>0 DEF Listed, Numbers, last
<1>3. Reordering' /\ ~Removing /\ ~Removing' /\ ~Doubled /\ loop' \in Numbers
    BY <1>0, <1>1 DEF Reordering, Removing, Doubled, Numbers
<1>4. p \in Listed /\ pool_no[p] = loop /\ \A q \in Listed : q # p => pool_no[q] # loop
    <2>1. /\ \A i \in Numbers : pools[i] \in Listed /\ pool_no[pools[i]] = i
          /\ \A q \in Listed : pools[pool_no[q]] = q
        BY <1>3, OnePlace DEF ListInv
    <2>. QED BY <2>1, <1>0
<1>5. Listed \subseteq Pool /\ changed \subseteq Listed
    BY ListedPools DEF ListInv, ReorderOK
<1>6. \A q \in changed : new_prio[q] \in Slots
    <2>1. \A q \in changed : new_prio[q] \in 0 .. Cardinality(changed) - 1
        BY <1>0 DEF ListInv, ReorderOK
    <2>2. Cardinality(changed) \in Nat /\ Cardinality(changed) <= Cardinality(Pool) /\ Cardinality(Pool) \in Nat
        BY <1>5, PoolAssumption, FS_Subset, FS_CardinalityType
    <2>. QED BY <2>1, <2>2 DEF Slots
<1>7. prio' \in [Pool -> Slots]
    BY <1>4, <1>5, <1>6 DEF NamePool, ListInv, TypeOK
<1>8. \A q \in Listed : prio'[q] = IF q = p /\ p \in changed THEN new_prio[q] ELSE prio[q]
    BY <1>4, <1>5 DEF NamePool, ListInv, TypeOK
<1>9. ASSUME ~raced
      PROVE  /\ \A q \in Listed : rank'[q] = Target(q) /\ (loop > 0 => rank[q] = Target(q))
             /\ TurnsOK'
    <2>1. \A q \in Listed \ changed : prio'[q] = prio[q]
        BY <1>8
    <2>2. \A q \in changed : pool_no[q] < loop => prio[q] = new_prio[q]
        BY <1>0, <1>9 DEF ListInv, TurnsOK
    <2>3. \A q \in changed : pool_no[q] <= loop => prio'[q] = new_prio[q]
        <3>. SUFFICES ASSUME NEW q \in changed, pool_no[q] <= loop PROVE prio'[q] = new_prio[q]
            OBVIOUS
        <3>1. q \in Listed /\ pool_no[q] \in Nat
            BY <1>5, Sizes DEF ListInv
        <3>2. CASE q = p
            BY <3>1, <3>2, <1>8
        <3>3. CASE q # p
            BY <3>1, <3>3, <1>0, <1>4, <1>8, <2>2
        <3>. QED BY <3>2, <3>3
    <2>4. pc' = "append" => \A q \in changed : prio'[q] = new_prio[q]
        <3>1. \A q \in Listed : pool_no[q] \in Numbers
            BY <1>3, OnePlace DEF ListInv
        <3>. QED BY <3>1, <2>3, <1>0, <1>1, <1>5 DEF Numbers
    <2>5. TurnsOK'
        <3>1. pc' = "name" => \A q \in changed : pool_no[q] < loop' => prio'[q] = new_prio[q]
            <4>1. \A q \in changed : pool_no[q] \in Nat
                BY <1>5, Sizes DEF ListInv
            <4>. QED BY <4>1, <2>3, <1>0, <1>1
        <3>2. /\ \A q \in Listed \ changed : prio[q] \in 0 .. last
              /\ \A q, r \in Listed \ changed : prio[q] = prio[r] => q = r
            BY <1>0, <1>9 DEF ListInv, TurnsOK
        <3>3. \A q \in Listed \ changed : prio[q] \in Nat
            BY <1>5, Sizes DEF ListInv
        <3>. QED BY <3>1, <3>2, <3>3, <2>1, <1>0, <1>1, <1>2 DEF TurnsOK
    <2>6. ASSUME NEW q \in Listed PROVE rank'[q] = Target(q)
        <3>1. Before(q)' = {r \in Listed \ changed : prio'[r] < prio'[q]}
            BY <1>0, <1>2 DEF Before
        <3>2. q \notin changed => Before(q)' = Before(q)
            BY <3>1, <2>1, <2>6 DEF Before
        <3>3. rank'[q] = IF q \in Listed \ changed THEN Cardinality(changed) + Cardinality(Before(q)')
                         ELSE IF pc' = "name" /\ q \in changed THEN new_prio[q] ELSE prio'[q]
            BY <1>0, <1>2, <1>3, <1>5, <3>1 DEF rank
        <3>4. CASE q \in changed
            BY <3>3, <3>4, <1>1, <2>4 DEF Target
        <3>5. CASE q \notin changed
            BY <3>2, <3>3, <3>5 DEF Target
        <3>. QED BY <3>4, <3>5
    <2>7. ASSUME NEW q \in Listed, loop > 0 PROVE rank[q] = Target(q)
        <3>1. Reordering
            BY <1>0, <2>7 DEF Reordering
        <3>. QED BY <3>1, <1>0, <1>5, RankWhileReordering DEF Target, Before
    <2>. QED BY <2>5, <2>6, <2>7
<1>. QED BY <1>2, <1>3, <1>7, <1>9

\* ... and while it appends the others.
LEMMA AppendTurn ==
    ASSUME ListInv, AppendPool
    PROVE  /\ Listed' = Listed /\ Numbers' = Numbers /\ Reordering /\ ~Removing /\ ~Removing' /\ ~Doubled
           /\ prio' \in [Pool -> Slots] /\ loop' \in Numbers /\ changed' \subseteq Listed /\ changed' # {}
           /\ pc' \in {"append", "settle"} /\ (pc' = "settle" => loop' = 0)
           /\ ~raced => (\A q \in Listed : rank'[q] = rank[q]) /\ TurnsOK'
<1>. DEFINE found == {i \in Numbers : pools[i] \notin changed /\ prio[pools[i]] = loop}
            p == pools[First(found)]
            R == Listed \ changed
<1>0. /\ pc = "append" /\ UNCHANGED <<pools, total_pools, pool_no, raced, victim, new_prio>>
      /\ loop \in Numbers /\ total_pools \in Nat /\ loop \in Nat
    BY Sizes DEF AppendPool, numVars, ListInv, TypeOK
<1>1. /\ pc' \in {"append", "settle"}
      /\ pc' = "append" => loop' = loop + 1 /\ loop + 1 < total_pools
      /\ pc' = "settle" => loop' = 0 /\ ~(loop + 1 < total_pools)
    BY <1>0 DEF AppendPool, Turn
<1>2. Listed' = Listed /\ Numbers' = Numbers /\ last' = last
    BY <1>0 DEF Listed, Numbers, last
<1>3. Reordering /\ ~Removing /\ ~Removing' /\ ~Doubled /\ loop' \in Numbers /\ (Reordering' <=> pc' = "append")
    BY <1>0, <1>1 DEF Reordering, Removing, Doubled, Numbers
<1>4. Listed \subseteq Pool /\ changed \subseteq Listed /\ changed # {} /\ IsFiniteSet(changed)
    <2>1. Listed \subseteq Pool /\ IsFiniteSet(Listed) /\ changed \subseteq Listed /\ changed # {}
        BY <1>0, ListedPools DEF ListInv, ReorderOK
    <2>. QED BY <2>1, FS_Subset
<1>5. Cardinality(changed) \in Nat /\ Cardinality(changed) \in Slots
    <2>1. /\ Cardinality(changed) \in Nat /\ Cardinality(changed) <= Cardinality(Pool)
          /\ Cardinality(Pool) \in Nat
        BY <1>4, PoolAssumption, FS_Subset, FS_CardinalityType
    <2>. QED BY <2>1 DEF Slots
<1>6. found # {} => First(found) \in found
    <2>1. found \in SUBSET Nat
        BY <1>0 DEF Numbers
    <2>. QED BY <2>1, FirstIsLeast
<1>7. found # {} => p \in R /\ prio[p] = loop
    BY <1>6 DEF Listed
<1>8. CASE found = {}
    <2>1. prio' = prio /\ changed' = changed
        BY <1>8 DEF AppendPool
    <2>2. prio' \in [Pool -> Slots]
        BY <2>1 DEF ListInv, TypeOK
    <2>3. ASSUME ~raced PROVE TurnsOK' /\ \A q \in Listed : rank'[q] = rank[q]
        <3>1. \A q \in R : prio[q] \in Nat /\ prio[q] # loop /\ prio[q] \in 0 .. last /\ loop <= prio[q]
            <4>1. \A q \in R : prio[q] \in 0 .. last /\ loop <= prio[q]
                BY <1>0, <2>3 DEF ListInv, TurnsOK
            <4>2. \A q \in R : prio[q] # loop
                BY <1>8 DEF Listed
            <4>3. \A q \in R : prio[q] \in Nat
                BY <1>4, Sizes DEF ListInv
            <4>. QED BY <4>1, <4>2, <4>3
        <3>2. \A q, r \in R : prio[q] = prio[r] => q = r
            BY <1>0, <2>3 DEF ListInv, TurnsOK
        <3>3. TurnsOK'
            <4>1. \A q \in R : loop + 1 <= prio[q]
                BY <3>1, <1>0
            <4>. QED BY <4>1, <3>1, <3>2, <2>1, <1>0, <1>1, <1>2 DEF TurnsOK
        <3>4. ASSUME NEW q \in Listed PROVE rank'[q] = rank[q]
            <4>1. rank[q] = IF q \in R THEN Cardinality(changed) + Cardinality(Before(q)) ELSE prio[q]
                BY <1>0, <1>3, <1>4, RankWhileReordering DEF Before
            <4>2. CASE pc' = "append"
                BY <4>1, <4>2, <2>1, <1>0, <1>2, <1>3, <1>4 DEF rank, Before
            <4>3. CASE pc' = "settle"
                <5>1. rank'[q] = prio[q]
                    BY <4>3, <1>3, <2>1 DEF rank
                <5>2. q \notin R
                    BY <4>3, <3>1, <1>0, <1>1 DEF last
                <5>. QED BY <4>1, <5>1, <5>2
            <4>. QED BY <4>2, <4>3, <1>1
        <3>. QED BY <3>3, <3>4
    <2>. QED BY <2>1, <2>2, <2>3, <1>1, <1>2, <1>3, <1>4
<1>9. CASE found # {}
    <2>1. prio' = [prio EXCEPT ![p] = Cardinality(changed)] /\ changed' = changed \cup {p}
        BY <1>9 DEF AppendPool
    <2>2. p \in Listed /\ p \in Pool /\ p \notin changed /\ prio[p] = loop
        BY <1>4, <1>7, <1>9
    <2>3. prio' \in [Pool -> Slots]
        BY <2>1, <1>5 DEF ListInv, TypeOK
    <2>4. \A q \in Pool : prio'[q] = IF q = p THEN Cardinality(changed) ELSE prio[q]
        BY <2>1 DEF ListInv, TypeOK
    <2>5. Listed \ changed' = R \ {p}
        BY <2>1
    <2>6. Cardinality(changed') = Cardinality(changed) + 1
        BY <2>1, <2>2, <1>4, FS_AddElement
    <2>7. ASSUME ~raced PROVE TurnsOK' /\ \A q \in Listed : rank'[q] = rank[q]
        <3>1. /\ \A q \in R : prio[q] \in Nat /\ prio[q] \in 0 .. last /\ loop <= prio[q]
              /\ \A q, r \in R : prio[q] = prio[r] => q = r
            <4>1. /\ \A q \in R : prio[q] \in 0 .. last /\ loop <= prio[q]
                  /\ \A q, r \in R : prio[q] = prio[r] => q = r
                BY <1>0, <2>7 DEF ListInv, TurnsOK
            <4>2. \A q \in R : prio[q] \in Nat
                BY <1>4, Sizes DEF ListInv
            <4>. QED BY <4>1, <4>2
        <3>2. \A q \in R \ {p} : prio'[q] = prio[q] /\ loop + 1 <= prio[q]
            <4>. SUFFICES ASSUME NEW q \in R \ {p} PROVE prio'[q] = prio[q] /\ loop + 1 <= prio[q]
                OBVIOUS
            <4>1. prio[q] # prio[p] /\ prio[q] \in Nat /\ loop <= prio[q]
                BY <3>1, <2>2
            <4>. QED BY <4>1, <2>2, <2>4, <1>0, <1>4
        <3>3. TurnsOK'
            <4>1. (Listed \ changed)' = R \ {p} /\ pc' # "name" /\ (pc' = "append" => loop' = loop + 1)
                BY <2>5, <1>1, <1>2
            <4>2. \A q \in R \ {p} : prio'[q] \in 0 .. last' /\ loop + 1 <= prio'[q]
                BY <3>1, <3>2, <1>2
            <4>3. \A q, r \in R \ {p} : prio'[q] = prio'[r] => q = r
                BY <3>1, <3>2
            <4>. QED BY <4>1, <4>2, <4>3 DEF TurnsOK
        <3>4. /\ \A q \in R : /\ rank[q] = Cardinality(changed) + Cardinality(Before(q))
                               /\ IsFiniteSet(Before(q)) /\ Cardinality(Before(q)) \in Nat
              /\ \A q \in Listed \ R : rank[q] = prio[q]
            <4>1. \A q \in Listed : rank[q] = IF q \in R THEN Cardinality(changed) + Cardinality(Before(q)) ELSE prio[q]
                BY <1>0, <1>3, <1>4, RankWhileReordering DEF Before
            <4>2. \A q \in R : IsFiniteSet(Before(q)) /\ Cardinality(Before(q)) \in Nat
                BY <1>0, <2>7, BeforeFacts
            <4>. QED BY <4>1, <4>2
        <3>5. rank[p] = Cardinality(changed)
            <4>1. Before(p) = {}
                BY <3>1, <2>2 DEF Before
            <4>2. Cardinality(Before(p)) = 0
                BY <4>1, FS_EmptySet
            <4>. QED BY <4>2, <3>4, <2>2, <1>5
        <3>6. ASSUME NEW q \in Listed, pc' = "append" PROVE rank'[q] = rank[q]
            <4>1. rank'[q] = IF q \in R \ {p} THEN Cardinality(changed') + Cardinality(Before(q)') ELSE prio'[q]
                BY <3>6, <2>5, <1>2, <1>3, <1>4 DEF rank, Before
            <4>2. CASE q \in R \ {p}
                <5>1. Before(q)' = Before(q) \ {p}
                    BY <4>2, <3>2, <2>5, <1>2 DEF Before
                <5>2. p \in Before(q)
                    BY <4>2, <3>1, <3>2, <2>2, <1>0 DEF Before
                <5>3. Cardinality(Before(q) \ {p}) = Cardinality(Before(q)) - 1
                    BY <4>2, <5>2, <3>4, FS_RemoveElement
                <5>. QED BY <4>1, <4>2, <5>1, <5>3, <3>4, <2>6, <1>5
            <4>3. CASE q = p
                BY <4>1, <4>3, <3>5, <2>2, <2>4
            <4>4. CASE q \notin R
                BY <4>1, <4>4, <3>4, <2>2, <2>4, <1>4
            <4>. QED BY <4>2, <4>3, <4>4
        <3>7. ASSUME NEW q \in Listed, pc' = "settle" PROVE rank'[q] = rank[q]
            <4>1. rank'[q] = prio'[q]
                BY <3>7, <1>3 DEF rank
            <4>2. R \ {p} = {}
                BY <3>1, <3>2, <3>7, <1>0, <1>1 DEF last
            <4>3. CASE q = p
                BY <4>1, <4>3, <3>5, <2>2, <2>4
            <4>4. CASE q # p
                BY <4>1, <4>2, <4>4, <3>4, <2>4, <1>4
            <4>. QED BY <4>3, <4>4
        <3>. QED BY <3>3, <3>6, <3>7, <1>1
    <2>. QED BY <2>1, <2>2, <2>3, <2>7, <1>1, <1>2, <1>3, <1>4
<1>. QED BY <1>8, <1>9

---------------------------------------------------------------------------
(* remove_pool *)

Boosted(p) == IF prio[p] > prio[victim] THEN prio[p] - 1 ELSE prio[p]

\* The others are left a permutation.
LEMMA BoostedOK ==
    ASSUME ListInv, ~raced, pc = "boost", loop = 0
    PROVE  /\ \A p \in Listed \ {victim} : Boosted(p) \in 0 .. total_pools - 2
           /\ \A p, q \in Listed \ {victim} : Boosted(p) = Boosted(q) => p = q
           /\ \A p, q \in Listed \ {victim} : Boosted(p) <= Boosted(q) <=> prio[p] <= prio[q]
<1>1. rank = prio /\ Ranked = Listed /\ Ranks = 0 .. total_pools - 1
    <2>1. ~Reordering /\ ~Removing
        BY DEF Reordering, Removing
    <2>. QED BY <2>1, RankIsPrio DEF Writing, Ranked, Ranks
<1>2. total_pools \in Nat /\ victim \in Listed
    BY Sizes DEF ListInv, RemovalOK
<1>3. \A q \in Listed : prio[q] \in 0 .. total_pools - 1
    BY <1>1 DEF ListInv, RanksPermuted
<1>4. \A q, r \in Listed : prio[q] = prio[r] => q = r
    BY <1>1 DEF ListInv, RanksPermuted
<1>5. ASSUME NEW p \in Listed \ {victim}
      PROVE  prio[p] # prio[victim] /\ prio[p] \in 0 .. total_pools - 1 /\ prio[victim] \in 0 .. total_pools - 1
    BY <1>2, <1>3, <1>4
<1>6. ASSUME NEW p \in Listed \ {victim} PROVE Boosted(p) \in 0 .. total_pools - 2
    BY <1>2, <1>5 DEF Boosted
<1>7. ASSUME NEW p \in Listed \ {victim}, NEW q \in Listed \ {victim}
      PROVE  Boosted(p) <= Boosted(q) <=> prio[p] <= prio[q]
    <2>1. prio[p] \in Nat /\ prio[q] \in Nat /\ prio[victim] \in Nat
        BY <1>2, <1>5
    <2>2. prio[p] # prio[victim] /\ prio[q] # prio[victim]
        BY <1>5
    <2>. QED BY <2>1, <2>2 DEF Boosted
<1>8. ASSUME NEW p \in Listed \ {victim}, NEW q \in Listed \ {victim}, Boosted(p) = Boosted(q)
      PROVE  p = q
    <2>1. prio[p] \in Nat /\ prio[q] \in Nat /\ Boosted(p) \in Int /\ Boosted(q) \in Int
        BY <1>2, <1>5, <1>6
    <2>2. prio[p] <= prio[q] /\ prio[q] <= prio[p]
        BY <2>1, <1>7, <1>8
    <2>. QED BY <2>1, <2>2, <1>4
<1>. QED BY <1>6, <1>7, <1>8

\* From its first write on this is the rank.
LEMMA BoostTurn ==
    ASSUME ListInv, BoostPool
    PROVE  /\ Listed' = Listed /\ Numbers' = Numbers /\ Removing' /\ ~Reordering /\ ~Reordering' /\ ~Doubled
           /\ prio' \in [Pool -> Slots] /\ loop' \in Numbers /\ victim \in Listed
           /\ \A p \in Listed \ {victim} : rank'[p] = IF loop = 0 THEN Boosted(p) ELSE rank[p]
           /\ Removing <=> loop > 0
<1>. DEFINE p == pools[loop]
<1>0. /\ pc = "boost" /\ UNCHANGED <<pools, total_pools, pool_no, raced, victim, new_prio, changed>>
      /\ loop \in Numbers /\ total_pools \in Nat /\ loop \in Nat /\ victim \in Listed /\ total_pools > 1
    BY Sizes DEF BoostPool, numVars, Kept, ListInv, TypeOK, RemovalOK
<1>1. /\ pc' \in {"boost", "renumber", "invalidate"}
      /\ pc' = "boost" => loop' = loop + 1 /\ loop + 1 < total_pools
      /\ pc' # "boost" => loop' = 0 /\ ~(loop + 1 < total_pools)
    BY <1>0 DEF BoostPool, Turn
<1>2. Listed' = Listed /\ Numbers' = Numbers
    BY <1>0 DEF Listed, Numbers
<1>3. Removing' /\ ~Reordering /\ ~Reordering' /\ ~Doubled /\ loop' \in Numbers /\ (Removing <=> loop > 0)
    BY <1>0, <1>1 DEF Reordering, Removing, Doubled, Numbers
<1>4. p \in Listed /\ pool_no[p] = loop /\ \A q \in Listed : pool_no[q] \in Numbers /\ (q # p => pool_no[q] # loop)
    <2>1. /\ \A i \in Numbers : pools[i] \in Listed /\ pool_no[pools[i]] = i
          /\ \A q \in Listed : pool_no[q] \in Numbers /\ pools[pool_no[q]] = q
        BY <1>3, OnePlace DEF ListInv
    <2>. QED BY <2>1, <1>0
<1>5. Listed \subseteq Pool /\ \A q \in Pool : prio[q] \in Nat /\ prio[q] <= Cardinality(Pool)
    BY ListedPools, Sizes DEF ListInv
<1>6. \A q \in Pool : prio'[q] = IF q = p THEN Boosted(q) ELSE prio[q]
    BY <1>4, <1>5 DEF BoostPool, Boosted, ListInv, TypeOK
<1>7. prio' \in [Pool -> Slots]
    <2>1. Cardinality(Pool) \in Nat
        BY Sizes DEF ListInv
    <2>2. p \in Pool /\ victim \in Pool /\ (prio[p] > prio[victim] => prio[p] - 1 \in Slots)
        BY <2>1, <1>0, <1>4, <1>5 DEF Slots
    <2>. QED BY <2>2 DEF BoostPool, ListInv, TypeOK
<1>8. prio'[victim] = prio[victim]
    BY <1>0, <1>5, <1>6 DEF Boosted
<1>9. ASSUME NEW q \in Listed \ {victim}
      PROVE  rank'[q] = IF loop = 0 THEN Boosted(q) ELSE rank[q]
    <2>1. q \in Pool /\ pool_no[q] \in Nat /\ pool_no[q] < total_pools
        BY <1>0, <1>4, <1>5 DEF Numbers
    <2>2. loop > 0 => rank[q] = IF loop <= pool_no[q] THEN Boosted(q) ELSE prio[q]
        BY <1>0, <1>3, <2>1, RankWhileBoosting DEF Boosted
    <2>3. pc' = "boost" => rank'[q] = IF loop' <= pool_no[q] /\ prio'[q] > prio'[victim] THEN prio'[q] - 1 ELSE prio'[q]
        BY <1>0, <1>3, <2>1 DEF rank
    <2>4. pc' # "boost" => rank'[q] = prio'[q]
        BY <1>3 DEF rank
    <2>5. CASE q = p
        <3>1. prio'[q] = Boosted(q) /\ pool_no[q] = loop
            BY <2>5, <1>4, <1>6, <2>1
        <3>2. rank'[q] = Boosted(q)
            BY <3>1, <2>3, <2>4, <1>0, <1>1
        <3>. QED BY <3>1, <3>2, <2>2, <1>0
    <2>6. CASE q # p
        <3>1. prio'[q] = prio[q] /\ pool_no[q] # loop
            BY <2>6, <1>4, <1>6, <2>1
        <3>2. pc' = "boost" => rank'[q] = IF loop <= pool_no[q] THEN Boosted(q) ELSE prio[q]
            BY <3>1, <2>1, <2>3, <1>0, <1>1, <1>8 DEF Boosted
        <3>3. pc' # "boost" => rank'[q] = prio[q] /\ ~(loop <= pool_no[q]) /\ loop > 0
            BY <3>1, <2>1, <2>4, <1>0, <1>1
        <3>. QED BY <3>2, <3>3, <2>1, <2>2, <1>0
    <2>. QED BY <2>5, <2>6
<1>. QED BY <1>0, <1>2, <1>3, <1>7, <1>9

---------------------------------------------------------------------------
(* Every operation keeps the list in order. *)

\* A new pool comes last.
LEMMA AddOK == ASSUME ListInv, NEW p \in Pool, addpool(p) PROVE ListInv'
<1>0. /\ pc = "none" /\ p \notin Listed \cup removed
      /\ UNCHANGED <<removed, raced, currentpool, pc, loop, victim, menu, new_prio, changed>>
    BY DEF addpool, CanEdit, Idle, opVars
<1>1. Listed \subseteq Pool /\ ~Doubled /\ total_pools + 1 \in Slots
    BY <1>0, ListedPools, Room DEF ListInv, Doubled
<1>2. Cardinality(Pool) \in Nat /\ total_pools \in Nat /\ total_pools + 1 <= Cardinality(Pool)
    BY <1>1, Sizes DEF ListInv, Slots
<1>3. /\ ~Reordering /\ ~Removing /\ ~Reordering' /\ ~Removing' /\ ~Writing /\ ~Writing'
    BY <1>0 DEF Reordering, Removing, Writing
<1>4. rank = prio /\ rank' = prio'
    BY <1>3 DEF rank
<1>5. /\ pools' = [pools EXCEPT ![total_pools] = p] /\ total_pools' = total_pools + 1
      /\ pool_no' = [pool_no EXCEPT ![p] = total_pools] /\ prio' = [prio EXCEPT ![p] = total_pools]
    BY DEF addpool
<1>6. /\ pools \in [Slots -> Pool \cup {NoPool}] /\ pool_no \in [Pool -> Slots] /\ prio \in [Pool -> Slots]
      /\ total_pools \in Slots
    BY <1>2 DEF ListInv, TypeOK, Slots
<1>7. Numbers' = Numbers \cup {total_pools} /\ Numbers \subseteq Slots /\ total_pools \notin Numbers
    BY <1>2, <1>5 DEF Numbers, Slots
<1>8. \A i \in Numbers' : pools'[i] = IF i = total_pools THEN p ELSE pools[i]
    BY <1>5, <1>6, <1>7
<1>9. Listed' = Listed \cup {p}
    BY <1>7, <1>8 DEF Listed
<1>10. NumbersMatch'
    <2>. SUFFICES ASSUME NEW i \in Numbers' PROVE pools'[i] \in Pool /\ pool_no'[pools'[i]] = i
        BY DEF NumbersMatch
    <2>1. CASE i = total_pools
        BY <2>1, <1>5, <1>6, <1>8
    <2>2. CASE i # total_pools
        <3>1. i \in Numbers /\ pools'[i] = pools[i]
            BY <2>2, <1>7, <1>8
        <3>2. pools[i] \in Listed /\ pool_no[pools[i]] = i
            BY <3>1, <1>1, OnePlace DEF ListInv
        <3>. QED BY <3>1, <3>2, <1>0, <1>1, <1>5, <1>6
    <2>. QED BY <2>1, <2>2
<1>11. RanksPermuted'
    <2>1. Ranked = Listed /\ Ranked' = Listed' /\ Ranks = 0 .. total_pools - 1 /\ Ranks' = 0 .. total_pools
        BY <1>2, <1>3, <1>5 DEF Ranked, Ranks
    <2>. SUFFICES ASSUME ~raced
                  PROVE  /\ \A q \in Listed' : prio'[q] \in 0 .. total_pools
                         /\ \A q, r \in Listed' : prio'[q] = prio'[r] => q = r
        BY <2>1, <1>0, <1>4 DEF RanksPermuted
    <2>2. \A q \in Listed : prio[q] \in 0 .. total_pools - 1
        BY <2>1, <1>4 DEF ListInv, RanksPermuted
    <2>3. \A q, r \in Listed : prio[q] = prio[r] => q = r
        BY <2>1, <1>4 DEF ListInv, RanksPermuted
    <2>4. prio'[p] = total_pools /\ \A q \in Listed : prio'[q] = prio[q]
        BY <1>0, <1>1, <1>5, <1>6
    <2>5. \A q \in Listed : prio[q] # total_pools /\ prio[q] \in 0 .. total_pools
        BY <2>2, <1>2
    <2>. QED BY <2>3, <2>4, <2>5, <1>2, <1>9
<1>12. RemovalOK' /\ ReorderOK' /\ TurnsOK'
    <2>1. RemovalOK'
        <3>1. removed \cap Listed = {}
            BY <1>3 DEF ListInv, RemovalOK, Ranked
        <3>. QED BY <3>1, <1>0, <1>3, <1>9 DEF RemovalOK, Ranked
    <2>2. ReorderOK'
        BY <1>0, <1>9 DEF ListInv, ReorderOK
    <2>3. TurnsOK'
        BY <1>0 DEF TurnsOK
    <2>. QED BY <2>1, <2>2, <2>3
<1>13. TypeOK'
    <2>1. /\ enabled' \in [Pool -> {"enabled", "disabled", "rejecting"}]
          /\ enabled_pools' \in Int /\ direct' \in Nat
        BY CountType DEF ListInv, addpool
    <2>2. total_pools' \in Slots \ {0} /\ loop' \in Numbers'
        BY <1>0, <1>1, <1>2, <1>5, <1>7 DEF ListInv, TypeOK
    <2>3. pools' \in [Slots -> Pool \cup {NoPool}] /\ pool_no' \in [Pool -> Slots] /\ prio' \in [Pool -> Slots]
        BY <1>5, <1>6
    <2>. QED BY <2>1, <2>2, <2>3, <1>0 DEF ListInv, TypeOK
<1>. QED BY <1>10, <1>11, <1>12, <1>13 DEF ListInv

\* A step after the boosts keeps the priorities in order when the pools that
\* stay are the same.
LEMMA RanksKept ==
    ASSUME ListInv, ~Writing, ~Writing', UNCHANGED <<prio, raced>>, Ranked' = Ranked, Ranks' = Ranks
    PROVE  RanksPermuted'
<1>1. rank = prio /\ rank' = prio'
    BY DEF Writing, rank
<1>. QED BY <1>1 DEF ListInv, RanksPermuted

\* The last pool takes the number.
LEMMA RenumberOK == ASSUME ListInv, RemoveRenumber PROVE ListInv' /\ Ranked' = Ranked /\ Removing'
<1>0. /\ pc = "renumber" /\ pc' = "replace" /\ pool_no' = [pool_no EXCEPT ![pools[last]] = pool_no[victim]]
      /\ UNCHANGED <<pools, total_pools, removed, prio, raced, loop, victim, menu, new_prio, changed,
                    enabled, enabled_pools, direct, currentpool>>
    BY DEF RemoveRenumber, Kept, countVars
<1>1. /\ Listed' = Listed /\ Numbers' = Numbers /\ last' = last /\ Removing /\ Removing' /\ ~Doubled
      /\ ~Writing /\ ~Writing'
    BY <1>0 DEF Listed, Numbers, last, Removing, Doubled, Writing, Reordering
<1>2. total_pools \in Nat \ {0} /\ last \in Numbers /\ total_pools > 1
    BY <1>0, Sizes DEF last, Numbers, ListInv, RemovalOK
<1>3. /\ victim \in Listed /\ pools[pool_no[victim]] = victim /\ pool_no[victim] < last
      /\ victim \in Pool /\ pool_no[victim] \in Slots
    BY <1>0, ListedPools DEF ListInv, RemovalOK, TypeOK
<1>4. \A i \in Numbers : pools[i] \in Listed /\ pool_no[pools[i]] = i /\ pools[i] \in Pool
    BY <1>1, OnePlace, ListedPools DEF ListInv
<1>5. pools[last] # victim /\ pool_no[victim] \in Nat
    <2>1. pool_no[pools[last]] = last
        BY <1>2, <1>4
    <2>2. pool_no[victim] \in Nat
        BY <1>3, Sizes DEF ListInv
    <2>. QED BY <1>2, <1>3, <2>1, <2>2
<1>6. \A q \in Pool : pool_no'[q] = IF q = pools[last] THEN pool_no[victim] ELSE pool_no[q]
    BY <1>0 DEF ListInv, TypeOK
<1>7. NumbersMatch'
    <2>. SUFFICES ASSUME NEW i \in Numbers PROVE pools[i] \in Pool /\ (pool_no'[pools[i]] = i \/ i = last)
        BY <1>0, <1>1 DEF NumbersMatch
    <2>1. i # last => pools[i] # pools[last]
        BY <1>2, <1>4
    <2>. QED BY <2>1, <1>4, <1>6
<1>8. RemovalOK' /\ ReorderOK' /\ TurnsOK'
    <2>1. RemovalOK'
        <3>1. pool_no'[victim] = pool_no[victim] /\ pool_no'[pools[last]] = pool_no[victim]
            BY <1>2, <1>3, <1>4, <1>5, <1>6
        <3>. QED BY <3>1, <1>0, <1>1, <1>2, <1>3, <1>5 DEF ListInv, RemovalOK, Ranked
    <2>2. ReorderOK' /\ TurnsOK'
        BY <1>0, <1>1 DEF ListInv, ReorderOK, TurnsOK
    <2>. QED BY <2>1, <2>2
<1>9. Ranked' = Ranked /\ Ranks' = Ranks
    BY <1>0, <1>1 DEF Ranked, Ranks
<1>10. TypeOK'
    <2>1. pool_no' \in [Pool -> Slots]
        BY <1>0, <1>3 DEF ListInv, TypeOK
    <2>. QED BY <2>1, <1>0, <1>1 DEF ListInv, TypeOK
<1>. QED BY <1>0, <1>1, <1>7, <1>8, <1>9, <1>10, RanksKept DEF ListInv

\* It takes the entry.
LEMMA ReplaceOK == ASSUME ListInv, RemoveReplace PROVE ListInv' /\ Ranked' = Ranked /\ Removing'
<1>. DEFINE no == pool_no[victim]
<1>0. /\ pc = "replace" /\ pc' = "invalidate" /\ pools' = [pools EXCEPT ![no] = pools[last]]
      /\ UNCHANGED <<total_pools, pool_no, removed, prio, raced, loop, victim, menu, new_prio, changed,
                    enabled, enabled_pools, direct, currentpool>>
    BY DEF RemoveReplace, Kept, countVars
<1>1. /\ Numbers' = Numbers /\ last' = last /\ Removing /\ Removing' /\ ~Writing /\ ~Writing'
    BY <1>0 DEF Numbers, last, Removing, Writing, Reordering
<1>2. total_pools \in Nat \ {0} /\ last \in Numbers /\ total_pools > 1 /\ Numbers = 0 .. last
    BY <1>0, Sizes DEF last, Numbers, ListInv, RemovalOK
<1>3. /\ victim \in Listed /\ victim \in Pool /\ pools[no] = victim /\ no < last
      /\ pool_no[pools[last]] = no /\ pools[last] # victim
    BY <1>0, ListedPools DEF ListInv, RemovalOK
<1>4. no \in Nat /\ no \in Numbers
    <2>1. no \in Nat
        BY <1>3, Sizes DEF ListInv
    <2>. QED BY <2>1, <1>2, <1>3
<1>5. \A i \in Numbers : pools[i] \in Pool /\ (i # last => pool_no[pools[i]] = i)
    BY DEF ListInv, NumbersMatch
<1>6. \A i \in Numbers : pools'[i] = IF i = no THEN pools[last] ELSE pools[i]
    <2>1. Numbers \subseteq Slots
        <3>1. Cardinality(Pool) \in Nat /\ total_pools <= Cardinality(Pool)
            BY Sizes DEF ListInv
        <3>. QED BY <3>1, <1>2 DEF Numbers, Slots
    <2>. QED BY <2>1, <1>0 DEF ListInv, TypeOK
<1>7. \A i \in Numbers : i # no => pools[i] # victim
    BY <1>3, <1>5
<1>8. NumbersMatch'
    <2>. SUFFICES ASSUME NEW i \in Numbers PROVE pools'[i] \in Pool /\ (pool_no[pools'[i]] = i \/ i = last)
        BY <1>0, <1>1 DEF NumbersMatch
    <2>. QED BY <1>2, <1>3, <1>5, <1>6
<1>9. Listed' = Listed \ {victim}
    <2>1. \A i \in Numbers : pools'[i] \in Listed /\ pools'[i] # victim
        BY <1>2, <1>3, <1>6, <1>7 DEF Listed
    <2>2. \A i \in Numbers : pools[i] # victim => \E k \in Numbers : pools'[k] = pools[i]
        BY <1>3, <1>6
    <2>. QED BY <2>1, <2>2, <1>1 DEF Listed
<1>10. RemovalOK' /\ ReorderOK' /\ TurnsOK'
    <2>1. RemovalOK'
        <3>1. \A i \in 0 .. last - 1 : pools'[i] # victim
            <4>1. \A i \in 0 .. last - 1 : i \in Numbers
                BY <1>2
            <4>. QED BY <4>1, <1>3, <1>6, <1>7
        <3>2. pools'[last] = pools[last] /\ pools'[no] = pools[last] /\ no \in 0 .. last - 1
            BY <1>2, <1>3, <1>4, <1>6
        <3>3. removed \cap (Listed \ {victim}) = {}
            BY <1>1 DEF ListInv, RemovalOK, Ranked
        <3>. QED BY <3>1, <3>2, <3>3, <1>0, <1>1, <1>2, <1>3, <1>9 DEF RemovalOK, Ranked
    <2>2. ReorderOK' /\ TurnsOK'
        BY <1>0, <1>9 DEF ListInv, ReorderOK, TurnsOK
    <2>. QED BY <2>1, <2>2
<1>11. Ranked' = Ranked /\ Ranks' = Ranks
    BY <1>0, <1>1, <1>9 DEF Ranked, Ranks
<1>12. TypeOK'
    <2>1. pools' \in [Slots -> Pool \cup {NoPool}]
        BY <1>0, <1>2, <1>5 DEF ListInv, TypeOK
    <2>. QED BY <2>1, <1>0, <1>1 DEF ListInv, TypeOK
<1>. QED BY <1>0, <1>1, <1>8, <1>10, <1>11, <1>12, RanksKept DEF ListInv

\* The number becomes invalid.
LEMMA InvalidateOK == ASSUME ListInv, RemoveInvalidate PROVE ListInv' /\ Ranked' = Ranked /\ Removing'
<1>0. /\ pc = "invalidate" /\ pc' = "unlist" /\ pool_no' = [pool_no EXCEPT ![victim] = total_pools]
      /\ UNCHANGED <<pools, total_pools, removed, prio, raced, loop, victim, menu, new_prio, changed,
                    enabled, enabled_pools, direct, currentpool>>
    BY DEF RemoveInvalidate, Kept, countVars
<1>1. /\ Listed' = Listed /\ Numbers' = Numbers /\ last' = last /\ Removing /\ Removing'
      /\ ~Writing /\ ~Writing'
    BY <1>0 DEF Listed, Numbers, last, Removing, Writing, Reordering
<1>2. total_pools \in Nat \ {0} /\ Numbers = 0 .. last
    BY <1>0, Sizes DEF last, Numbers, ListInv
<1>3. victim \in Pool /\ \A i \in 0 .. last - 1 : pools[i] # victim
    BY <1>0 DEF ListInv, RemovalOK
<1>4. NumbersMatch'
    <2>. SUFFICES ASSUME NEW i \in Numbers PROVE pools[i] \in Pool /\ (pool_no'[pools[i]] = i \/ i = last)
        BY <1>0, <1>1 DEF NumbersMatch
    <2>1. i # last => i \in 0 .. last - 1
        BY <1>2 DEF last
    <2>2. pools[i] \in Pool /\ (i # last => pool_no[pools[i]] = i)
        BY DEF ListInv, NumbersMatch
    <2>3. i # last => pools[i] # victim
        BY <2>1, <1>3
    <2>. QED BY <2>2, <2>3, <1>0 DEF ListInv, TypeOK
<1>5. RemovalOK' /\ ReorderOK' /\ TurnsOK'
    BY <1>0, <1>1 DEF ListInv, RemovalOK, ReorderOK, TurnsOK, Ranked
<1>6. Ranked' = Ranked /\ Ranks' = Ranks
    BY <1>0, <1>1 DEF Ranked, Ranks
<1>7. TypeOK'
    BY <1>0, <1>1 DEF ListInv, TypeOK
<1>. QED BY <1>0, <1>1, <1>4, <1>5, <1>6, <1>7, RanksKept DEF ListInv

\* The pool is marked.
LEMMA UnlistOK == ASSUME ListInv, RemoveUnlist PROVE ListInv' /\ Ranked' = Ranked /\ Removing'
<1>0. /\ pc = "unlist" /\ pc' = "shrink" /\ removed' = removed \cup {victim}
      /\ UNCHANGED <<pools, total_pools, pool_no, prio, raced, loop, victim, menu, new_prio, changed,
                    enabled, enabled_pools, direct, currentpool>>
    BY DEF RemoveUnlist, Kept, countVars
<1>1. /\ Listed' = Listed /\ Numbers' = Numbers /\ last' = last /\ Removing /\ Removing'
      /\ ~Writing /\ ~Writing'
    BY <1>0 DEF Listed, Numbers, last, Removing, Writing, Reordering
<1>2. Ranked = Listed \ {victim} /\ Ranked' = Ranked /\ Ranks' = Ranks
    BY <1>0, <1>1 DEF Ranked, Ranks
<1>3. NumbersMatch'
    BY <1>0, <1>1 DEF ListInv, NumbersMatch
<1>4. RemovalOK' /\ ReorderOK' /\ TurnsOK'
    <2>1. RemovalOK'
        BY <1>0, <1>1, <1>2 DEF ListInv, RemovalOK
    <2>. QED BY <2>1, <1>0, <1>1 DEF ListInv, ReorderOK, TurnsOK
<1>5. TypeOK'
    <2>1. victim \in Pool
        BY <1>0 DEF ListInv, RemovalOK
    <2>. QED BY <2>1, <1>0, <1>1 DEF ListInv, TypeOK
<1>. QED BY <1>0, <1>1, <1>2, <1>3, <1>4, <1>5, RanksKept DEF ListInv

\* The list ends before its last entry.
LEMMA ShrinkOK ==
    ASSUME ListInv, RemoveShrink
    PROVE  ListInv' /\ Ranked' = Ranked /\ Removing /\ ~Removing' /\ ~Reordering'
<1>0. /\ pc = "shrink" /\ pc' = "none" /\ total_pools' = last /\ victim' = NoPool /\ menu' = FALSE
      /\ UNCHANGED <<pools, pool_no, removed, prio, raced, loop, new_prio, changed,
                    enabled, enabled_pools, direct, currentpool>>
    BY DEF RemoveShrink, EndRemoval, countVars
<1>1. /\ Removing /\ ~Removing' /\ ~Reordering' /\ ~Writing /\ ~Writing'
    BY <1>0 DEF Removing, Writing, Reordering
<1>2. /\ total_pools \in Nat \ {0} /\ total_pools > 1 /\ Numbers = 0 .. last /\ Numbers' = 0 .. last - 1
      /\ total_pools <= Cardinality(Pool) /\ Cardinality(Pool) \in Nat /\ last = total_pools - 1
    BY <1>0, Sizes DEF last, Numbers, ListInv, RemovalOK
<1>3. /\ \A i \in Numbers' : pools[i] # victim
      /\ pools[last] = victim \/ \E i \in Numbers' : pools[i] = pools[last]
    BY <1>0, <1>2 DEF ListInv, RemovalOK
<1>4. \A i \in Numbers' : i \in Numbers /\ i # last /\ pools[i] \in Pool /\ pool_no[pools[i]] = i
    <2>1. \A i \in Numbers' : i \in Numbers /\ i # last
        BY <1>2
    <2>. QED BY <2>1 DEF ListInv, NumbersMatch
<1>5. NumbersMatch'
    BY <1>0, <1>4 DEF NumbersMatch
<1>6. Listed' = Listed \ {victim}
    <2>1. \A i \in Numbers' : pools[i] \in Listed \ {victim}
        BY <1>3, <1>4 DEF Listed
    <2>2. \A i \in Numbers : pools[i] # victim => \E k \in Numbers' : pools[k] = pools[i]
        <3>. SUFFICES ASSUME NEW i \in Numbers, pools[i] # victim PROVE \E k \in Numbers' : pools[k] = pools[i]
            OBVIOUS
        <3>1. i # last => i \in Numbers'
            BY <1>2
        <3>. QED BY <3>1, <1>3
    <2>. QED BY <2>1, <2>2, <1>0 DEF Listed
<1>7. Ranked' = Ranked /\ Ranks' = Ranks
    <2>1. Ranked' = Ranked
        BY <1>1, <1>6 DEF Ranked
    <2>2. Ranks = 0 .. total_pools - 2 /\ Ranks' = 0 .. total_pools' - 1
        BY <1>1 DEF Ranks
    <2>. QED BY <2>1, <2>2, <1>0, <1>2
<1>8. RemovalOK' /\ ReorderOK' /\ TurnsOK'
    <2>1. RemovalOK'
        BY <1>0, <1>7 DEF ListInv, RemovalOK
    <2>2. changed = {}
        BY <1>0 DEF ListInv, ReorderOK
    <2>. QED BY <2>1, <2>2, <1>0 DEF ReorderOK, TurnsOK
<1>9. TypeOK'
    <2>1. total_pools' \in Slots \ {0}
        BY <1>0, <1>2 DEF Slots
    <2>2. loop' \in Numbers' /\ loop' = 0
        BY <1>0, <1>2 DEF ListInv, TypeOK
    <2>. QED BY <2>1, <2>2, <1>0 DEF ListInv, TypeOK
<1>. QED BY <1>0, <1>1, <1>5, <1>7, <1>8, <1>9, RanksKept DEF ListInv

\* The list is in order at the start.
LEMMA InitOK == Init => ListInv
<1>. SUFFICES ASSUME Init PROVE ListInv
    OBVIOUS
<1>1. PICK S \in (SUBSET Pool) \ {{}} :
        /\ total_pools = Cardinality(S)
        /\ \E a \in [Numbers -> S] :
            /\ \A i, j \in Numbers : a[i] = a[j] => i = j
            /\ \A p \in S : \E i \in Numbers : a[i] = p
            /\ pools = [i \in Slots |-> IF i < total_pools THEN a[i] ELSE NoPool]
            /\ pool_no = [p \in Pool |-> IF p \in S THEN CHOOSE i \in Numbers : a[i] = p ELSE 0]
        /\ prio = pool_no
        /\ enabled = [p \in Pool |-> IF p \in S THEN "enabled" ELSE "disabled"]
        /\ enabled_pools = total_pools
        /\ removed = {} /\ currentpool \in S
        /\ pc = "none" /\ loop = 0 /\ victim = NoPool /\ menu = FALSE
        /\ new_prio = <<>> /\ changed = {} /\ direct = 0 /\ raced = FALSE
    BY DEF Init
<1>2. PICK a \in [Numbers -> S] :
        /\ \A i, j \in Numbers : a[i] = a[j] => i = j
        /\ \A p \in S : \E i \in Numbers : a[i] = p
        /\ pools = [i \in Slots |-> IF i < total_pools THEN a[i] ELSE NoPool]
        /\ pool_no = [p \in Pool |-> IF p \in S THEN CHOOSE i \in Numbers : a[i] = p ELSE 0]
    BY <1>1
<1>3. total_pools \in Slots \ {0} /\ total_pools \in Nat /\ Cardinality(Pool) \in Nat
    BY <1>1, PoolAssumption, FS_Subset, FS_CardinalityType, FS_EmptySet DEF Slots
<1>4. Numbers \subseteq Slots
    BY <1>3 DEF Numbers, Slots
<1>5. \A i \in Numbers : pools[i] = a[i] /\ a[i] \in S
    BY <1>2, <1>3, <1>4 DEF Numbers
<1>6. \A p \in S : pool_no[p] \in Numbers /\ a[pool_no[p]] = p
    BY <1>1, <1>2
<1>7. NumbersMatch
    BY <1>1, <1>2, <1>5, <1>6 DEF NumbersMatch
<1>8. Listed = S /\ Ranked = S /\ Ranks = Numbers /\ rank = prio
    <2>1. Listed = S
        BY <1>5, <1>6 DEF Listed
    <2>2. ~Reordering /\ ~Removing
        BY <1>1 DEF Reordering, Removing
    <2>. QED BY <2>1, <2>2 DEF Ranked, Ranks, Numbers, rank
<1>9. RanksPermuted
    BY <1>1, <1>6, <1>8 DEF RanksPermuted
<1>10. RemovalOK /\ ReorderOK /\ TurnsOK
    BY <1>1 DEF RemovalOK, ReorderOK, TurnsOK
<1>11. TypeOK
    <2>1. pool_no \in [Pool -> Slots]
        <3>1. \A p \in Pool : pool_no[p] \in Slots
            <4>. SUFFICES ASSUME NEW p \in Pool PROVE pool_no[p] \in Slots
                OBVIOUS
            <4>1. CASE p \in S
                BY <4>1, <1>4, <1>6
            <4>2. CASE p \notin S
                BY <4>2, <1>2, <1>3 DEF Slots
            <4>. QED BY <4>1, <4>2
        <3>2. pool_no = [p \in Pool |-> pool_no[p]]
            BY <1>2
        <3>. QED BY <3>1, <3>2
    <2>2. pools \in [Slots -> Pool \cup {NoPool}]
        BY <1>2, <1>3 DEF Numbers, Slots
    <2>3. enabled \in [Pool -> {"enabled", "disabled", "rejecting"}]
        BY <1>1
    <2>4. prio \in [Pool -> Slots] /\ enabled_pools \in Int /\ currentpool \in Pool
        BY <2>1, <1>1, <1>3
    <2>5. /\ removed \in SUBSET Pool /\ direct \in Nat /\ menu \in BOOLEAN /\ raced \in BOOLEAN
          /\ victim \in Pool \cup {NoPool} /\ changed \in SUBSET Pool
        BY <1>1
    <2>6. loop \in Numbers
        <3>1. total_pools \in Nat /\ total_pools # 0 /\ loop = 0
            BY <1>1, <1>3
        <3>. QED BY <3>1 DEF Numbers
    <2>. QED BY <2>1, <2>2, <2>3, <2>4, <2>5, <2>6, <1>1, <1>3 DEF TypeOK
<1>. QED BY <1>7, <1>9, <1>10, <1>11 DEF ListInv

\* A step that only goes on to the next part of an operation, with nothing
\* written, keeps the list in order.
LEMMA GoOn ==
    ASSUME ListInv, UNCHANGED <<listVars, loop, changed, new_prio>>,
           ~Reordering, ~Removing, ~Reordering', ~Removing'
    PROVE  /\ NumbersMatch' /\ RanksPermuted'
           /\ Listed' = Listed /\ Numbers' = Numbers /\ last' = last
           /\ Ranked = Listed /\ Ranked' = Listed /\ Ranks' = Ranks /\ rank = prio /\ rank' = prio
<1>. USE DEF listVars, numVars
<1>1. Listed' = Listed /\ Numbers' = Numbers /\ last' = last
    BY DEF Listed, Numbers, last
<1>2. Ranked = Listed /\ Ranked' = Listed /\ Ranks' = Ranks /\ rank = prio /\ rank' = prio
    BY <1>1 DEF Ranked, Ranks, rank
<1>3. ~Doubled
    BY DEF Doubled, Removing
<1>4. NumbersMatch'
    BY <1>1, <1>3 DEF ListInv, NumbersMatch, Doubled
<1>5. RanksPermuted'
    BY <1>1, <1>2 DEF ListInv, RanksPermuted
<1>. QED BY <1>1, <1>2, <1>4, <1>5

\* Every step keeps it.
LEMMA NextOK == ListInv /\ [Next]_vars => ListInv'
<1>. SUFFICES ASSUME ListInv, [Next]_vars PROVE ListInv'
    OBVIOUS
<1>0. TypeOK /\ NumbersMatch /\ Listed \subseteq Pool
    BY ListedPools DEF ListInv
<1>1. ASSUME NEW p \in Pool, addpool(p) PROVE ListInv'
    BY <1>1, AddOK
\* selecting a pool
<1>2. ASSUME NEW p \in Pool, NEW m \in BOOLEAN, p \in Listed, Enable(p, m), switch_selected(p), UNCHANGED opVars
      PROVE  ListInv'
    <2>1. /\ NumbersMatch' /\ RanksPermuted' /\ RemovalOK' /\ ReorderOK' /\ TurnsOK'
          /\ prio' \in [Pool -> Slots] /\ raced' \in BOOLEAN
        BY <1>2, SelectedOK
    <2>2. currentpool' \in Pool
        BY <1>0, <1>2, SwitchType DEF switch_selected
    <2>3. /\ enabled' \in [Pool -> {"enabled", "disabled", "rejecting"}]
          /\ enabled_pools' \in Int /\ direct' \in Nat
        BY <1>0, <1>2, CountType
    <2>4. TypeOK'
        BY <1>0, <1>2, <2>1, <2>2, <2>3 DEF TypeOK, switch_selected, numVars, opVars, Numbers
    <2>. QED BY <2>1, <2>4 DEF ListInv
<1>3. ASSUME NEW p \in Pool, NEW m \in BOOLEAN, switchpool(p, m) PROVE ListInv'
    BY <1>2, <1>3 DEF switchpool
\* steps that leave the list and the operation alone
<1>4. ASSUME UNCHANGED <<listVars, opVars>>, currentpool' \in Pool,
             enabled' \in [Pool -> {"enabled", "disabled", "rejecting"}],
             enabled_pools' \in Int, direct' \in Nat
      PROVE  ListInv'
    <2>1. TypeOK'
        BY <1>0, <1>4 DEF TypeOK, listVars, numVars, opVars, Numbers
    <2>. QED BY <1>4, <2>1, Quiet DEF ListInv
<1>5. ASSUME NEW p \in Pool, NEW m \in BOOLEAN, enablepool(p, m) PROVE ListInv'
    <2>1. CASE prio[p] < prio[currentpool]
        BY <1>2, <1>5, <2>1 DEF enablepool
    <2>2. CASE ~(prio[p] < prio[currentpool])
        <3>1. /\ enabled' \in [Pool -> {"enabled", "disabled", "rejecting"}]
              /\ enabled_pools' \in Int /\ direct' \in Nat
            BY <1>0, <1>5, CountType DEF enablepool
        <3>2. UNCHANGED <<listVars, opVars>> /\ currentpool' = currentpool
            BY <1>5, <2>2 DEF enablepool
        <3>. QED BY <1>0, <1>4, <3>1, <3>2 DEF TypeOK
    <2>. QED BY <2>1, <2>2
<1>6. ASSUME NEW p \in Pool, NEW m \in BOOLEAN, disablepool(p, m) PROVE ListInv'
    <2>1. currentpool' \in Pool
        BY <1>0, <1>6, SwitchType DEF disablepool, SwitchIf, TypeOK
    <2>2. /\ enabled' \in [Pool -> {"enabled", "disabled", "rejecting"}]
          /\ enabled_pools' \in Int /\ direct' \in Nat
        BY <1>0, <1>6, CountType DEF disablepool
    <2>. QED BY <1>4, <1>6, <2>1, <2>2 DEF disablepool
<1>7. CASE Switch
    <2>1. currentpool' \in Pool
        BY <1>0, <1>7, SwitchType DEF Switch
    <2>. QED BY <1>0, <1>4, <1>7, <2>1 DEF Switch, TypeOK, countVars
<1>8. ASSUME NEW p \in Pool, reject_pool(p) PROVE ListInv'
    <2>1. currentpool' \in Pool
        BY <1>0, <1>8, SwitchType DEF reject_pool, SwitchIf, TypeOK
    <2>2. /\ enabled' \in [Pool -> {"enabled", "disabled", "rejecting"}]
          /\ enabled_pools' \in Int /\ direct' \in Nat
        BY <1>0, <1>8, CountType DEF reject_pool
    <2>. QED BY <1>4, <1>8, <2>1, <2>2 DEF reject_pool
<1>9. ASSUME NEW p \in Pool, accept_pool(p) PROVE ListInv'
    <2>1. currentpool' \in Pool
        BY <1>0, <1>9, SwitchType DEF accept_pool
    <2>2. /\ enabled' \in [Pool -> {"enabled", "disabled", "rejecting"}]
          /\ enabled_pools' \in Int /\ direct' \in Nat
        BY <1>0, <1>9, CountType DEF accept_pool
    <2>. QED BY <1>4, <1>9, <2>1, <2>2 DEF accept_pool
<1>10. CASE UNCHANGED vars
    BY <1>0, <1>4, <1>10 DEF TypeOK, vars, countVars
\* poolpriority
<1>11. CASE poolpriority
    <2>0. PICK named \in (SUBSET Listed) \ {{}} :
            \E np \in [named -> 0 .. Cardinality(named) - 1] :
                /\ \A p, q \in named : np[p] = np[q] => p = q
                /\ new_prio' = np /\ changed' = named
        BY <1>11 DEF poolpriority
    <2>1. /\ pc = "none" /\ pc' = "name" /\ loop = 0
          /\ UNCHANGED <<pools, total_pools, pool_no, removed, prio, raced, enabled, enabled_pools, direct,
                        currentpool, loop, victim, menu>>
        BY <1>0, <1>11 DEF poolpriority, CanEdit, Idle, listVars, numVars, countVars, TypeOK
    <2>2. ~Reordering /\ ~Removing /\ ~Reordering' /\ ~Removing'
        BY <2>1 DEF Reordering, Removing
    <2>3. /\ Listed' = Listed /\ Numbers' = Numbers /\ last' = last
          /\ Ranked = Listed /\ Ranked' = Listed /\ Ranks' = Ranks /\ rank = prio /\ rank' = prio
        BY <2>1, <2>2 DEF Listed, Numbers, last, Ranked, Ranks, rank
    <2>4. NumbersMatch' /\ RanksPermuted'
        BY <2>1, <2>3 DEF ListInv, NumbersMatch, RanksPermuted
    <2>5. ReorderOK'
        BY <2>0, <2>1, <2>3 DEF ReorderOK
    <2>6. TurnsOK'
        <3>1. \A p \in Listed : pool_no[p] \in Nat /\ prio[p] \in Nat
            BY <1>0, Sizes
        <3>2. ~raced => /\ \A p \in Listed : prio[p] \in Ranks
                        /\ \A p, q \in Listed : prio[p] = prio[q] => p = q
            BY <2>3 DEF ListInv, RanksPermuted
        <3>3. Ranks = 0 .. last
            BY <2>2 DEF Ranks, last
        <3>. QED BY <2>0, <2>1, <2>3, <3>1, <3>2, <3>3 DEF TurnsOK
    <2>7. RemovalOK'
        BY <2>1, <2>3 DEF ListInv, RemovalOK
    <2>8. TypeOK'
        <3>1. changed' \in SUBSET Pool
            BY <1>0, <2>0
        <3>. QED BY <1>0, <2>1, <2>3, <3>1 DEF TypeOK
    <2>. QED BY <2>4, <2>5, <2>6, <2>7, <2>8 DEF ListInv
<1>12. CASE NamePool
    <2>1. /\ Listed' = Listed /\ Numbers' = Numbers /\ Reordering' /\ ~Removing /\ ~Removing' /\ ~Doubled
          /\ prio' \in [Pool -> Slots] /\ loop' \in Numbers
          /\ ~raced => /\ \A p \in Listed : rank'[p] = Target(p)
                       /\ TurnsOK'
        BY <1>12, NameTurn
    <2>2. /\ pc = "name" /\ pc' \in {"name", "append"}
          /\ UNCHANGED <<pools, total_pools, pool_no, removed, raced, enabled, enabled_pools, direct,
                        currentpool, victim, menu, new_prio, changed>>
        BY <1>12 DEF NamePool, Turn, numVars, countVars
    <2>3. last' = last /\ Ranked' = Listed /\ Ranked = Listed /\ Ranks' = 0 .. total_pools - 1
        BY <2>1, <2>2 DEF last, Ranked, Ranks
    <2>4. RanksPermuted'
        BY <2>1, <2>2, <2>3, TargetOK DEF RanksPermuted
    <2>5. TurnsOK'
        BY <2>1, <2>2 DEF TurnsOK
    <2>6. NumbersMatch' /\ RemovalOK' /\ ReorderOK'
        <3>1. NumbersMatch'
            BY <2>1, <2>2, <2>3 DEF ListInv, NumbersMatch, Doubled
        <3>2. RemovalOK'
            BY <2>1, <2>2, <2>3 DEF ListInv, RemovalOK
        <3>3. ReorderOK'
            BY <2>1, <2>2 DEF ListInv, ReorderOK
        <3>. QED BY <3>1, <3>2, <3>3
    <2>7. TypeOK'
        BY <1>0, <2>1, <2>2 DEF TypeOK
    <2>. QED BY <2>4, <2>5, <2>6, <2>7 DEF ListInv
<1>13. CASE AppendPool
    <2>1. /\ Listed' = Listed /\ Numbers' = Numbers /\ ~Removing /\ ~Removing' /\ ~Doubled
          /\ prio' \in [Pool -> Slots] /\ loop' \in Numbers /\ changed' \subseteq Listed /\ changed' # {}
          /\ pc' \in {"append", "settle"} /\ (pc' = "settle" => loop' = 0)
          /\ ~raced => (\A q \in Listed : rank'[q] = rank[q]) /\ TurnsOK'
        BY <1>13, AppendTurn
    <2>2. /\ pc = "append"
          /\ UNCHANGED <<pools, total_pools, pool_no, removed, raced, enabled, enabled_pools, direct,
                        currentpool, victim, menu, new_prio>>
        BY <1>13 DEF AppendPool, numVars, countVars
    <2>3. last' = last /\ Ranked' = Listed /\ Ranked = Listed /\ Ranks' = Ranks
        BY <2>1, <2>2 DEF last, Ranked, Ranks
    <2>4. RanksPermuted'
        BY <2>1, <2>2, <2>3 DEF ListInv, RanksPermuted
    <2>5. TurnsOK'
        BY <2>1, <2>2 DEF TurnsOK
    <2>6. NumbersMatch' /\ RemovalOK' /\ ReorderOK'
        <3>1. NumbersMatch'
            BY <2>1, <2>2, <2>3 DEF ListInv, NumbersMatch, Doubled
        <3>2. RemovalOK'
            BY <2>1, <2>2, <2>3 DEF ListInv, RemovalOK
        <3>3. ReorderOK'
            BY <2>1, <2>2 DEF ListInv, ReorderOK
        <3>. QED BY <3>1, <3>2, <3>3
    <2>7. TypeOK'
        BY <1>0, <2>1, <2>2 DEF TypeOK
    <2>. QED BY <2>4, <2>5, <2>6, <2>7 DEF ListInv
\* steps that go on to the next part of an operation, with nothing written
<1>14. ASSUME UNCHANGED <<listVars, loop, changed, new_prio>>,
              ~Reordering, ~Removing, ~Reordering', ~Removing', pc' # "name"
       PROVE  /\ NumbersMatch' /\ RanksPermuted' /\ TurnsOK'
              /\ Listed' = Listed /\ Numbers' = Numbers /\ last' = last /\ Ranked' = Ranked
    <2>1. /\ NumbersMatch' /\ RanksPermuted'
          /\ Listed' = Listed /\ Numbers' = Numbers /\ last' = last
          /\ Ranked = Listed /\ Ranked' = Listed
        BY <1>14, GoOn
    <2>2. TurnsOK'
        BY <1>14 DEF TurnsOK, Reordering
    <2>. QED BY <2>1, <2>2
<1>15. CASE Settle
    <2>0. /\ pc = "settle" /\ pc' = "none" /\ loop' = loop /\ changed' = {}
          /\ UNCHANGED <<pools, total_pools, pool_no, removed, prio, raced, enabled, enabled_pools, direct, victim, menu>>
        BY <1>15 DEF Settle, listVars, numVars, countVars
    <2>1. currentpool' \in Pool
        BY <1>0, <1>15, SwitchType DEF Settle, SwitchIf, TypeOK
    <2>2. ~Reordering /\ ~Removing /\ ~Reordering' /\ ~Removing' /\ ~Doubled
        BY <2>0 DEF Reordering, Removing, Doubled
    <2>3. /\ Listed' = Listed /\ Numbers' = Numbers /\ last' = last
          /\ Ranked = Listed /\ Ranked' = Listed /\ Ranks' = Ranks /\ rank = prio /\ rank' = prio
        BY <2>0, <2>2 DEF Listed, Numbers, last, Ranked, Ranks, rank
    <2>4. NumbersMatch' /\ RanksPermuted'
        BY <2>0, <2>2, <2>3 DEF ListInv, NumbersMatch, RanksPermuted, Doubled
    <2>5. RemovalOK' /\ ReorderOK' /\ TurnsOK'
        BY <2>0, <2>3 DEF ListInv, RemovalOK, ReorderOK, TurnsOK
    <2>6. TypeOK'
        BY <1>0, <2>0, <2>1, <2>3 DEF TypeOK
    <2>. QED BY <2>4, <2>5, <2>6 DEF ListInv
\* removepool
<1>16. ASSUME NEW p \in Pool, NEW m \in BOOLEAN, removepool(p, m) PROVE ListInv'
    <2>0. /\ pc = "none" /\ pc' = "check" /\ p \in Listed /\ total_pools > 1 /\ victim' = p /\ menu' = m
          /\ UNCHANGED <<listVars, countVars, loop, new_prio, changed>>
        BY <1>16 DEF removepool, CanEdit, Idle
    <2>1. currentpool' \in Pool
        BY <1>0, <1>16, SwitchType DEF removepool, SwitchIf, TypeOK
    <2>2. ~Reordering /\ ~Removing /\ ~Reordering' /\ ~Removing' /\ ~Doubled
        BY <2>0 DEF Reordering, Removing, Doubled
    <2>3. /\ NumbersMatch' /\ RanksPermuted' /\ TurnsOK'
          /\ Listed' = Listed /\ Numbers' = Numbers /\ last' = last /\ Ranked' = Ranked
        BY <2>0, <2>2, <1>14
    <2>4. RemovalOK'
        <3>1. pools[pool_no[p]] = p
            BY <1>0, <2>0, <2>2, OnePlace
        <3>. QED BY <2>0, <2>3, <3>1 DEF ListInv, RemovalOK, listVars, numVars
    <2>5. ReorderOK'
        BY <2>0, <2>3 DEF ListInv, ReorderOK
    <2>6. TypeOK'
        BY <1>0, <2>0, <2>1, <2>3 DEF TypeOK, listVars, numVars, countVars
    <2>. QED BY <2>3, <2>4, <2>5, <2>6 DEF ListInv
<1>17. CASE RemoveCheck
    <2>0. /\ pc = "check" /\ pc' \in {"none", "disable"}
          /\ pc' = "disable" => UNCHANGED <<victim, menu>>
          /\ pc' = "none" => victim' = NoPool /\ menu' = FALSE
          /\ UNCHANGED <<listVars, countVars, currentpool, loop, new_prio, changed>>
        BY <1>17 DEF RemoveCheck, EndRemoval
    <2>2. ~Reordering /\ ~Removing /\ ~Reordering' /\ ~Removing'
        BY <2>0 DEF Reordering, Removing
    <2>3. /\ NumbersMatch' /\ RanksPermuted' /\ TurnsOK'
          /\ Listed' = Listed /\ Numbers' = Numbers /\ last' = last /\ Ranked' = Ranked
        BY <2>0, <2>2, <1>14
    <2>4. RemovalOK'
        BY <2>0, <2>3 DEF ListInv, RemovalOK, listVars, numVars
    <2>5. ReorderOK'
        BY <2>0, <2>3 DEF ListInv, ReorderOK
    <2>6. TypeOK'
        BY <1>0, <2>0, <2>3 DEF TypeOK, listVars, numVars, countVars
    <2>. QED BY <2>3, <2>4, <2>5, <2>6 DEF ListInv
<1>18. CASE RemoveDisable
    <2>0. /\ pc = "disable" /\ pc' = "boost" /\ Disable(victim, "disabled", menu)
          /\ UNCHANGED <<listVars, currentpool, loop, victim, menu, new_prio, changed>>
        BY <1>18 DEF RemoveDisable
    <2>1. loop = 0
        BY <1>0, <2>0 DEF TypeOK
    <2>2. ~Reordering /\ ~Removing /\ ~Reordering' /\ ~Removing'
        BY <2>0, <2>1 DEF Reordering, Removing
    <2>3. /\ NumbersMatch' /\ RanksPermuted' /\ TurnsOK'
          /\ Listed' = Listed /\ Numbers' = Numbers /\ last' = last /\ Ranked' = Ranked
        BY <2>0, <2>2, <1>14
    <2>4. RemovalOK'
        BY <2>0, <2>3 DEF ListInv, RemovalOK, listVars, numVars
    <2>5. ReorderOK'
        BY <2>0, <2>3 DEF ListInv, ReorderOK
    <2>6. TypeOK'
        <3>1. victim \in Pool /\ menu \in BOOLEAN
            BY <1>0, <2>0 DEF ListInv, RemovalOK, TypeOK
        <3>2. /\ enabled' \in [Pool -> {"enabled", "disabled", "rejecting"}]
              /\ enabled_pools' \in Int /\ direct' \in Nat
            BY <1>0, <2>0, <3>1, CountType
        <3>. QED BY <1>0, <2>0, <2>3, <3>2 DEF TypeOK, listVars, numVars
    <2>. QED BY <2>3, <2>4, <2>5, <2>6 DEF ListInv
<1>19. CASE BoostPool
    <2>1. /\ Listed' = Listed /\ Numbers' = Numbers /\ Removing' /\ ~Reordering /\ ~Reordering' /\ ~Doubled
          /\ prio' \in [Pool -> Slots] /\ loop' \in Numbers /\ victim \in Listed
          /\ \A p \in Listed \ {victim} : rank'[p] = IF loop = 0 THEN Boosted(p) ELSE rank[p]
          /\ Removing <=> loop > 0
        BY <1>19, BoostTurn
    <2>2. /\ pc = "boost"
          /\ UNCHANGED <<pools, total_pools, pool_no, removed, raced, enabled, enabled_pools, direct,
                        currentpool, victim, menu, new_prio, changed>>
        BY <1>19 DEF BoostPool, numVars, Kept, countVars
    <2>3. pc' = "boost" \/ (pc' \in {"renumber", "invalidate"} /\ loop' = 0)
        BY <1>19, <2>2 DEF BoostPool, Turn
    <2>4. /\ last' = last /\ Ranked' = Listed \ {victim} /\ Ranks' = 0 .. total_pools - 2
          /\ loop \in Nat /\ total_pools \in Nat /\ total_pools > 1
        BY <1>0, <2>1, <2>2, Sizes DEF last, Ranked, Ranks, ListInv, RemovalOK
    <2>5. RanksPermuted'
        <3>1. CASE loop = 0
            BY <2>1, <2>2, <2>4, <3>1, BoostedOK DEF RanksPermuted
        <3>2. CASE loop > 0
            <4>1. Ranked = Listed \ {victim} /\ Ranks = 0 .. total_pools - 2
                BY <2>1, <3>2 DEF Ranked, Ranks
            <4>2. \A p \in Listed \ {victim} : rank'[p] = rank[p]
                BY <2>1, <2>4, <3>2
            <4>. QED BY <4>1, <4>2, <2>1, <2>2, <2>4 DEF ListInv, RanksPermuted
        <3>. QED BY <3>1, <3>2, <2>4
    <2>6. TurnsOK' /\ ReorderOK'
        <3>1. changed = {} /\ changed' = {}
            BY <2>2 DEF ListInv, ReorderOK
        <3>. QED BY <2>1, <2>3, <3>1 DEF TurnsOK, ReorderOK
    <2>7. NumbersMatch'
        BY <2>1, <2>2, <2>4 DEF ListInv, NumbersMatch, Doubled
    <2>8. RemovalOK'
        <3>1. pool_no[victim] \in Numbers /\ \A i \in Numbers : pools[i] \in Listed /\ pool_no[pools[i]] = i
            BY <1>0, <2>1, OnePlace
        <3>2. pools[pool_no[victim]] = victim
            BY <2>2 DEF ListInv, RemovalOK
        <3>3. pc' = "renumber" => pool_no[victim] < last
            BY <1>19, <2>2 DEF BoostPool, Turn
        <3>4. pc' = "invalidate" => ~(pool_no[victim] < last)
            BY <1>19, <2>2 DEF BoostPool, Turn
        <3>5. pc' = "invalidate" => pools[last] = victim /\ \A i \in 0 .. last - 1 : pools[i] # victim
            <4>. SUFFICES ASSUME pc' = "invalidate"
                          PROVE  pools[last] = victim /\ \A i \in 0 .. last - 1 : pools[i] # victim
                OBVIOUS
            <4>1. pool_no[victim] = last
                BY <3>1, <3>4, <2>4 DEF Numbers, last
            <4>2. \A i \in 0 .. last - 1 : i \in Numbers /\ i # last
                BY <2>4 DEF Numbers, last
            <4>. QED BY <3>1, <3>2, <4>1, <4>2
        <3>6. removed \cap (Listed \ {victim}) = {}
            BY DEF ListInv, RemovalOK, Ranked
        <3>7. victim \in Pool
            BY <1>0, <2>1
        <3>. QED BY <2>1, <2>2, <2>3, <2>4, <3>2, <3>3, <3>5, <3>6, <3>7 DEF RemovalOK
    <2>9. TypeOK'
        BY <1>0, <2>1, <2>2, <2>3 DEF TypeOK
    <2>. QED BY <2>5, <2>6, <2>7, <2>8, <2>9 DEF ListInv
<1>20. CASE RemoveRenumber \/ RemoveReplace \/ RemoveInvalidate \/ RemoveUnlist \/ RemoveShrink
    BY <1>20, RenumberOK, ReplaceOK, InvalidateOK, UnlistOK, ShrinkOK
<1>. QED BY <1>1, <1>3, <1>5, <1>6, <1>7, <1>8, <1>9, <1>10, <1>11, <1>12, <1>13, <1>15, <1>16, <1>17,
            <1>18, <1>19, <1>20 DEF Next, Operator, Others

\* The numbers and priorities of the pools are in order, or are what the rest of
\* the operation puts in order, after every single write of every operation, and
\* whatever the other threads do beside it; the priorities until another pool is
\* selected while they are written.
THEOREM PoolListInvariant == Spec => []ListInv
BY InitOK, NextOK, PTL DEF Spec

---------------------------------------------------------------------------
EnabledSet == {p \in Pool : enabled[p] = "enabled"}

\* enable_pool counts what it changes.
LEMMA EnableCounts ==
    ASSUME TypeOK, EnabledCounted, NEW p \in Pool, NEW counted \in BOOLEAN, Enable(p, counted)
    PROVE  EnabledCounted'
<1>. SUFFICES ASSUME direct' = 0 PROVE enabled_pools' = Cardinality(EnabledSet')
    BY DEF EnabledCounted, EnabledSet
<1>1. counted = TRUE /\ enabled_pools = Cardinality(EnabledSet)
    <2>1. direct \in Nat
        BY DEF TypeOK
    <2>. QED BY <2>1 DEF Enable, EnabledCounted, EnabledSet
<1>2. EnabledSet' = EnabledSet \cup {p}
    BY DEF Enable, EnabledSet, TypeOK
<1>3. IsFiniteSet(EnabledSet)
    BY FS_Subset, PoolAssumption DEF EnabledSet
<1>4. Cardinality(EnabledSet') =
        IF p \in EnabledSet THEN Cardinality(EnabledSet) ELSE Cardinality(EnabledSet) + 1
    BY <1>2, <1>3, FS_AddElement
<1>5. enabled_pools' = enabled_pools + (IF enabled[p] # "enabled" THEN 1 ELSE 0)
    BY <1>1 DEF Enable
<1>6. p \in EnabledSet <=> enabled[p] = "enabled"
    BY DEF EnabledSet
<1>. QED BY <1>1, <1>4, <1>5, <1>6 DEF TypeOK

\* disable_pool and reject_pool do, too.
LEMMA DisableCounts ==
    ASSUME TypeOK, EnabledCounted, NEW p \in Pool, NEW counted \in BOOLEAN,
           NEW how \in {"disabled", "rejecting"}, Disable(p, how, counted)
    PROVE  EnabledCounted'
<1>. SUFFICES ASSUME direct' = 0 PROVE enabled_pools' = Cardinality(EnabledSet')
    BY DEF EnabledCounted, EnabledSet
<1>1. counted = TRUE /\ enabled_pools = Cardinality(EnabledSet)
    <2>1. direct \in Nat
        BY DEF TypeOK
    <2>. QED BY <2>1 DEF Disable, EnabledCounted, EnabledSet
<1>2. EnabledSet' = EnabledSet \ {p}
    BY DEF Disable, EnabledSet, TypeOK
<1>3. IsFiniteSet(EnabledSet)
    BY FS_Subset, PoolAssumption DEF EnabledSet
<1>4. Cardinality(EnabledSet') =
        IF p \in EnabledSet THEN Cardinality(EnabledSet) - 1 ELSE Cardinality(EnabledSet)
    BY <1>2, <1>3, FS_RemoveElement
<1>5. enabled_pools' = enabled_pools - (IF enabled[p] = "enabled" THEN 1 ELSE 0)
    BY <1>1 DEF Disable
<1>6. p \in EnabledSet <=> enabled[p] = "enabled"
    BY DEF EnabledSet
<1>. QED BY <1>1, <1>4, <1>5, <1>6 DEF TypeOK

\* The guard of "Cannot disable last pool" counts right while the operator
\* keeps to the menu.
THEOREM EnabledCountedHolds == Spec => []EnabledCounted
<1>1. Init => EnabledCounted
    <2>. SUFFICES ASSUME NEW S \in SUBSET Pool,
                         enabled = [p \in Pool |-> IF p \in S THEN "enabled" ELSE "disabled"],
                         enabled_pools = Cardinality(S)
                  PROVE  EnabledCounted
        BY DEF Init
    <2>1. {p \in Pool : enabled[p] = "enabled"} = S
        OBVIOUS
    <2>. QED BY <2>1 DEF EnabledCounted
<1>2. ListInv /\ EnabledCounted /\ [Next]_vars => EnabledCounted'
    <2>. SUFFICES ASSUME ListInv, EnabledCounted, [Next]_vars PROVE EnabledCounted'
        OBVIOUS
    <2>0. TypeOK /\ Listed \subseteq Pool
        BY ListedPools DEF ListInv
    <2>1. ASSUME UNCHANGED countVars PROVE EnabledCounted'
        BY <2>1 DEF EnabledCounted, countVars
    <2>2. ASSUME NEW p \in Pool, addpool(p) PROVE EnabledCounted'
        BY <2>0, <2>2, EnableCounts DEF addpool
    <2>3. ASSUME NEW p \in Pool, NEW m \in BOOLEAN, switchpool(p, m) \/ enablepool(p, m) PROVE EnabledCounted'
        BY <2>0, <2>3, EnableCounts DEF switchpool, enablepool
    <2>4. ASSUME NEW p \in Pool, NEW m \in BOOLEAN, disablepool(p, m) PROVE EnabledCounted'
        BY <2>0, <2>4, DisableCounts DEF disablepool
    <2>5. CASE RemoveDisable
        <3>1. victim \in Pool /\ menu \in BOOLEAN
            BY <2>0, <2>5 DEF ListInv, RemovalOK, TypeOK, RemoveDisable
        <3>. QED BY <2>0, <2>5, <3>1, DisableCounts DEF RemoveDisable
    <2>6. ASSUME NEW p \in Pool, reject_pool(p) PROVE EnabledCounted'
        BY <2>0, <2>6, DisableCounts DEF reject_pool
    <2>7. ASSUME NEW p \in Pool, accept_pool(p) PROVE EnabledCounted'
        BY <2>0, <2>7, EnableCounts DEF accept_pool
    <2>8. ASSUME NEW p \in Pool, NEW m \in BOOLEAN, removepool(p, m) PROVE UNCHANGED countVars
        BY <2>8 DEF removepool
    <2>9. poolpriority \/ NamePool \/ AppendPool \/ Settle \/ Switch \/ UNCHANGED vars => UNCHANGED countVars
        BY DEF poolpriority, NamePool, AppendPool, Settle, Switch, vars
    <2>10. RemoveCheck \/ BoostPool \/ RemoveRenumber \/ RemoveReplace \/ RemoveInvalidate \/ RemoveUnlist
              \/ RemoveShrink => UNCHANGED countVars
        BY DEF RemoveCheck, BoostPool, RemoveRenumber, RemoveReplace, RemoveInvalidate, RemoveUnlist,
               RemoveShrink, Kept
    <2>. QED BY <2>1, <2>2, <2>3, <2>4, <2>5, <2>6, <2>7, <2>8, <2>9, <2>10 DEF Next, Operator, Others
<1>. QED BY <1>1, <1>2, PoolListInvariant, PTL DEF Spec

---------------------------------------------------------------------------
(* PoolList implements PoolOrder *)

\* The pairs of the elements of S by their rank f
ByRank(S, f) == {e \in S \X S : f[e[1]] <= f[e[2]]}

LEMMA ByRankFacts ==
    ASSUME NEW S \in SUBSET Pool, NEW f, \A p \in S : f[p] \in Nat
    PROVE  /\ \A p, q : <<p, q>> \in ByRank(S, f) <=> p \in S /\ q \in S /\ f[p] <= f[q]
           /\ Order!Members(ByRank(S, f)) = S
           /\ \A e \in ByRank(S, f) : e = <<e[1], e[2]>>
<1>1. \A p, q : <<p, q>> \in ByRank(S, f) <=> p \in S /\ q \in S /\ f[p] <= f[q]
    BY DEF ByRank
<1>2. Order!Members(ByRank(S, f)) = S
    BY <1>1 DEF Order!Members
<1>3. \A e \in ByRank(S, f) : e = <<e[1], e[2]>>
    BY DEF ByRank
<1>. QED BY <1>1, <1>2, <1>3

\* It is an order when no two have the same rank.
LEMMA ByRankIsOrder ==
    ASSUME NEW S \in SUBSET Pool, NEW f, \A p \in S : f[p] \in Nat, \A p, q \in S : f[p] = f[q] => p = q
    PROVE  Order!IsOrder(ByRank(S, f))
<1>. DEFINE R == ByRank(S, f)
<1>1. /\ \A p, q : <<p, q>> \in R <=> p \in S /\ q \in S /\ f[p] <= f[q]
      /\ Order!Members(R) = S /\ R \subseteq S \X S
    BY ByRankFacts DEF ByRank
<1>. HIDE DEF R
<1>2. ASSUME NEW p \in S, NEW q \in S
      PROVE  /\ <<p, q>> \in R \/ <<q, p>> \in R
             /\ <<p, q>> \in R /\ <<q, p>> \in R => p = q
    <2>1. f[p] \in Nat /\ f[q] \in Nat /\ (f[p] = f[q] => p = q)
        OBVIOUS
    <2>2. (<<p, q>> \in R <=> f[p] <= f[q]) /\ (<<q, p>> \in R <=> f[q] <= f[p])
        BY <1>1
    <2>. QED BY <2>1, <2>2
<1>3. ASSUME NEW p \in S, NEW q \in S, NEW r \in S, <<p, q>> \in R, <<q, r>> \in R
      PROVE  <<p, r>> \in R
    <2>1. f[p] \in Nat /\ f[q] \in Nat /\ f[r] \in Nat
        OBVIOUS
    <2>2. f[p] <= f[q] /\ f[q] <= f[r]
        BY <1>1, <1>3
    <2>. QED BY <1>1, <2>1, <2>2
<1>4. Order!IsOrder(R)
    BY <1>1, <1>2, <1>3 DEF Order!IsOrder
<1>. QED BY <1>4 DEF R

\* Two relations between pools are the same if they have the same pairs.
LEMMA SamePairs ==
    ASSUME NEW R \in SUBSET (Pool \X Pool), NEW T \in SUBSET (Pool \X Pool),
           \A p, q \in Pool : <<p, q>> \in R <=> <<p, q>> \in T
    PROVE  R = T
<1>1. \A e \in Pool \X Pool : e \in R <=> e \in T
    <2>. SUFFICES ASSUME NEW e \in Pool \X Pool PROVE e \in R <=> e \in T
        OBVIOUS
    <2>1. e = <<e[1], e[2]>> /\ e[1] \in Pool /\ e[2] \in Pool
        OBVIOUS
    <2>. QED BY <2>1
<1>. QED BY <1>1

\* The order by rank
OrderIs ==
    /\ Ranked \subseteq Pool /\ \A p \in Ranked : rank[p] \in Nat
    /\ Order!Members(order) = Ranked /\ Order!IsOrder(order) /\ order \in SUBSET (Pool \X Pool)
    /\ \A p, q \in Pool : <<p, q>> \in order <=> p \in Ranked /\ q \in Ranked /\ rank[p] <= rank[q]

LEMMA OrderFacts == ListInv /\ ~raced => OrderIs
<1>. SUFFICES ASSUME ListInv, ~raced PROVE OrderIs
    OBVIOUS
<1>1. order = ByRank(Ranked, rank)
    BY DEF order, ByRank
<1>2. Ranked \subseteq Pool
    BY ListedPools DEF Ranked, ListInv
<1>3. \A p \in Ranked : rank[p] \in Nat
    <2>1. \A p \in Ranked : rank[p] \in Ranks
        BY DEF ListInv, RanksPermuted
    <2>2. \A r \in Ranks : r \in Nat
        BY Sizes DEF Ranks, ListInv
    <2>. QED BY <2>1, <2>2
<1>4. \A p, q \in Ranked : rank[p] = rank[q] => p = q
    BY DEF ListInv, RanksPermuted
<1>5. order \in SUBSET (Pool \X Pool)
    BY <1>1, <1>2 DEF ByRank
<1>6. /\ Order!Members(order) = Ranked
      /\ \A p, q \in Pool : <<p, q>> \in order <=> p \in Ranked /\ q \in Ranked /\ rank[p] <= rank[q]
    BY <1>1, <1>2, <1>3, ByRankFacts
<1>7. Order!IsOrder(order)
    BY <1>1, <1>2, <1>3, <1>4, ByRankIsOrder
<1>. QED BY <1>2, <1>3, <1>5, <1>6, <1>7 DEF OrderIs

LEMMA OrderFactsNext == (ListInv /\ ~raced => OrderIs)'
BY OrderFacts, PTL

\* The pools that are asked for, in their order
AskedIs ==
    /\ changed \subseteq Listed /\ changed # {} /\ \A p \in changed : new_prio[p] \in Nat
    /\ Order!Members(asked) = changed /\ Order!IsOrder(asked) /\ asked \in SUBSET (Pool \X Pool)
    /\ \A p, q \in Pool : <<p, q>> \in asked <=> p \in changed /\ q \in changed /\ new_prio[p] <= new_prio[q]

LEMMA AskedFacts == ListInv /\ ~raced /\ pc = "name" /\ loop = 0 => AskedIs
<1>. SUFFICES ASSUME ListInv, ~raced, pc = "name", loop = 0 PROVE AskedIs
    OBVIOUS
<1>1. asked = ByRank(changed, new_prio)
    BY DEF asked, ByRank
<1>2. changed \subseteq Listed /\ changed \subseteq Pool /\ changed # {}
    BY ListedPools DEF ListInv, ReorderOK
<1>3. \A p \in changed : new_prio[p] \in Nat
    <2>1. \A p \in changed : new_prio[p] \in 0 .. Cardinality(changed) - 1
        BY DEF ListInv, ReorderOK
    <2>. QED BY <2>1
<1>4. \A p, q \in changed : new_prio[p] = new_prio[q] => p = q
    BY DEF ListInv, ReorderOK
<1>5. asked \in SUBSET (Pool \X Pool)
    BY <1>1, <1>2 DEF ByRank
<1>6. /\ Order!Members(asked) = changed
      /\ \A p, q \in Pool : <<p, q>> \in asked <=> p \in changed /\ q \in changed /\ new_prio[p] <= new_prio[q]
    BY <1>1, <1>2, <1>3, ByRankFacts
<1>7. Order!IsOrder(asked)
    BY <1>1, <1>2, <1>3, <1>4, ByRankIsOrder
<1>. QED BY <1>2, <1>3, <1>5, <1>6, <1>7 DEF AskedIs

LEMMA AskedFactsNext == (ListInv /\ ~raced /\ pc = "name" /\ loop = 0 => AskedIs)'
BY AskedFacts, PTL

LEMMA NotAsked == raced \/ pc # "name" \/ loop > 0 => asked = {}
BY DEF asked

LEMMA NotAskedNext == (raced \/ pc # "name" \/ loop > 0 => asked = {})'
BY NotAsked, PTL

\* Lost orders stay lost.
LEMMA Lost == raced => order = {} /\ asked = {} /\ busy = FALSE
BY DEF order, asked, busy

LEMMA LostNext == (raced => order = {} /\ asked = {} /\ busy = FALSE)'
BY Lost, PTL

\* The order is what the ranks are.
LEMMA SameOrder ==
    ASSUME ListInv, ListInv', ~raced, ~raced', Ranked' = Ranked, \A p \in Ranked : rank'[p] = rank[p]
    PROVE  order' = order
<1>1. OrderIs /\ OrderIs'
    BY OrderFacts, OrderFactsNext
<1>2. /\ order \in SUBSET (Pool \X Pool) /\ order' \in SUBSET (Pool \X Pool)
      /\ \A p, q \in Pool : <<p, q>> \in order <=> p \in Ranked /\ q \in Ranked /\ rank[p] <= rank[q]
      /\ \A p, q \in Pool : <<p, q>> \in order' <=> p \in Ranked' /\ q \in Ranked' /\ rank'[p] <= rank'[q]
    BY <1>1 DEF OrderIs
<1>3. \A p, q \in Pool : <<p, q>> \in order <=> <<p, q>> \in order'
    BY <1>2
<1>. QED BY <1>2, <1>3, SamePairs

\* A step that leaves the list and the operation alone
LEMMA QuietOrder ==
    ASSUME UNCHANGED <<pools, total_pools, pool_no, prio, raced, pc, loop, victim, new_prio, changed>>
    PROVE  UNCHANGED Order!vars
<1>1. Ranked' = Ranked /\ rank' = rank /\ (Reordering' <=> Reordering) /\ (Removing' <=> Removing)
    BY SameRank
<1>2. order' = order
    BY <1>1 DEF order
<1>3. asked' = asked
    BY DEF asked
<1>4. busy' = busy
    BY <1>1 DEF busy
<1>. QED BY <1>2, <1>3, <1>4 DEF Order!vars

---------------------------------------------------------------------------
(* The steps that change the order *)

LEMMA AddStep ==
    ASSUME ListInv, ListInv', ~raced, NEW p \in Pool, addpool(p)
    PROVE  Order!Next
<1>0. /\ pc = "none" /\ p \notin Listed
      /\ UNCHANGED <<removed, raced, currentpool, pc, loop, victim, menu, new_prio, changed>>
      /\ pools' = [pools EXCEPT ![total_pools] = p] /\ total_pools' = total_pools + 1
      /\ prio' = [prio EXCEPT ![p] = total_pools]
    BY DEF addpool, CanEdit, Idle, opVars
<1>1. Listed \subseteq Pool /\ ~Doubled /\ total_pools + 1 \in Slots
    BY <1>0, ListedPools, Room DEF ListInv, Doubled
<1>2. Cardinality(Pool) \in Nat /\ total_pools \in Nat /\ total_pools + 1 <= Cardinality(Pool)
    BY <1>1, Sizes DEF ListInv, Slots
<1>3. ~Reordering /\ ~Removing /\ ~Reordering' /\ ~Removing' /\ ~Writing /\ ~Writing'
    BY <1>0 DEF Reordering, Removing, Writing
<1>4. Listed' = Listed \cup {p}
    <2>1. Numbers' = Numbers \cup {total_pools} /\ total_pools \notin Numbers
        BY <1>0, <1>2 DEF Numbers
    <2>2. pools'[total_pools] = p /\ \A i \in Numbers : pools'[i] = pools[i]
        BY <1>0, <1>1, <1>2, <2>1 DEF ListInv, TypeOK, Slots, Numbers
    <2>. QED BY <2>1, <2>2 DEF Listed
<1>5. Ranked = Listed /\ Ranked' = Listed \cup {p} /\ Ranks = 0 .. total_pools - 1 /\ rank = prio /\ rank' = prio'
    BY <1>3, <1>4, RankIsPrio DEF Ranked, Ranks, rank, Writing
<1>6. /\ \A q \in Listed : prio'[q] = prio[q] /\ prio[q] \in 0 .. total_pools - 1
      /\ prio'[p] = total_pools
    <2>1. \A q \in Listed : prio[q] \in 0 .. total_pools - 1
        BY <1>5 DEF ListInv, RanksPermuted
    <2>. QED BY <1>0, <1>1, <2>1 DEF ListInv, TypeOK
<1>7. OrderIs /\ OrderIs'
    BY <1>0, OrderFacts, OrderFactsNext
<1>. DEFINE T == order \cup ((Listed \cup {p}) \X {p})
<1>8. /\ order \in SUBSET (Pool \X Pool) /\ order' \in SUBSET (Pool \X Pool) /\ Order!Members(order) = Listed
      /\ \A q, r \in Pool : <<q, r>> \in order <=> q \in Listed /\ r \in Listed /\ prio[q] <= prio[r]
      /\ \A q, r \in Pool : <<q, r>> \in order' <=>
                                q \in Listed \cup {p} /\ r \in Listed \cup {p} /\ prio'[q] <= prio'[r]
    BY <1>5, <1>7 DEF OrderIs
<1>9. order' = T
    <2>1. T \in SUBSET (Pool \X Pool)
        BY <1>1, <1>8
    <2>2. ASSUME NEW q \in Pool, NEW r \in Pool PROVE <<q, r>> \in order' <=> <<q, r>> \in T
        <3>1. <<q, r>> \in T <=> <<q, r>> \in order \/ (q \in Listed \cup {p} /\ r = p)
            OBVIOUS
        <3>2. CASE q \in Listed /\ r \in Listed
            BY <1>0, <1>6, <1>8, <3>1, <3>2
        <3>3. CASE q \in Listed \cup {p} /\ r = p
            BY <1>2, <1>6, <1>8, <3>1, <3>3
        <3>4. CASE q = p /\ r \in Listed
            <4>1. r # p /\ ~(prio'[p] <= prio'[r])
                BY <1>0, <1>2, <1>6, <3>4
            <4>. QED BY <1>0, <1>8, <3>1, <3>4, <4>1
        <3>5. CASE q \notin Listed \cup {p} \/ r \notin Listed \cup {p}
            BY <1>8, <3>1, <3>5
        <3>. QED BY <3>2, <3>3, <3>4, <3>5
    <2>. HIDE DEF T
    <2>. QED BY <1>8, <2>1, <2>2, SamePairs
<1>10. order' # order
    BY <1>0, <1>8, <1>9
<1>11. asked' = asked
    BY <1>0 DEF asked
<1>12. busy = FALSE /\ busy' = FALSE
    BY <1>3 DEF busy
<1>13. Order!Add(p)
    BY <1>0, <1>8, <1>9, <1>11, <1>12 DEF Order!Add
<1>. QED BY <1>10, <1>13 DEF Order!Next

\* A selected pool comes first, and the others keep their order.
LEMMA PreferStep ==
    ASSUME ListInv, ListInv', ~raced, ~raced', NEW p \in Listed, switch_selected(p), UNCHANGED opVars,
           ~Reordering, ~Removing
    PROVE  [Order!Next]_(Order!vars)
<1>0. /\ PrioFirst(p) /\ UNCHANGED <<pools, total_pools, pool_no, pc, loop, victim, new_prio, changed>>
      /\ Listed \subseteq Pool /\ TypeOK /\ NumbersMatch
    BY ListedPools DEF switch_selected, numVars, opVars, ListInv
<1>1. /\ Listed' = Listed /\ ~Reordering' /\ ~Removing' /\ ~Doubled /\ ~Writing /\ ~Writing'
    BY <1>0 DEF Listed, Numbers, Reordering, Removing, Doubled, Writing
<1>2. Ranked = Listed /\ Ranked' = Listed /\ rank = prio /\ rank' = prio'
    BY <1>1, RankIsPrio DEF Ranked, rank, Writing
<1>3. \A q, r \in Listed : prio[q] = prio[r] => q = r
    BY <1>2 DEF ListInv, RanksPermuted
<1>4. \A q \in Listed : prio'[q] = (IF q = p THEN 0 ELSE Shifted(prio[q], prio[p])) /\ prio[q] \in Nat
    BY <1>0, <1>1, PrioFirstMoves, Sizes
<1>5. OrderIs /\ OrderIs'
    BY OrderFacts, OrderFactsNext
<1>. DEFINE rest == Listed \ {p}
            T == {<<p, p>>} \cup ({p} \X rest) \cup Order!Among(order, rest)
<1>6. /\ order \in SUBSET (Pool \X Pool) /\ order' \in SUBSET (Pool \X Pool) /\ Order!Members(order) = Listed
      /\ \A q, r \in Pool : <<q, r>> \in order <=> q \in Listed /\ r \in Listed /\ prio[q] <= prio[r]
      /\ \A q, r \in Pool : <<q, r>> \in order' <=> q \in Listed /\ r \in Listed /\ prio'[q] <= prio'[r]
    BY <1>2, <1>5 DEF OrderIs
<1>7. order' = T
    <2>1. T \in SUBSET (Pool \X Pool)
        BY <1>0, <1>6 DEF Order!Among
    <2>2. ASSUME NEW q \in Pool, NEW r \in Pool PROVE <<q, r>> \in order' <=> <<q, r>> \in T
        <3>1. <<q, r>> \in T <=>
                \/ q = p /\ r \in Listed
                \/ <<q, r>> \in order /\ q \in rest /\ r \in rest
            BY DEF Order!Among
        <3>2. CASE q \in rest /\ r \in rest
            <4>1. /\ prio[q] # prio[p] /\ prio[r] # prio[p] /\ prio[q] \in Nat /\ prio[r] \in Nat /\ prio[p] \in Nat
                  /\ prio'[q] = Shifted(prio[q], prio[p]) /\ prio'[r] = Shifted(prio[r], prio[p])
                BY <1>3, <1>4, <3>2
            <4>2. prio'[q] <= prio'[r] <=> prio[q] <= prio[r]
                BY <4>1 DEF Shifted
            <4>. QED BY <1>6, <3>1, <3>2, <4>2
        <3>3. CASE q = p /\ r \in Listed
            <4>1. prio'[p] = 0 /\ prio'[r] \in Nat
                BY <1>4, <3>3 DEF Shifted
            <4>. QED BY <1>6, <3>1, <3>3, <4>1
        <3>4. CASE q \in rest /\ r = p
            <4>1. prio[q] # prio[p] /\ prio[q] \in Nat /\ prio[p] \in Nat /\ prio'[q] = Shifted(prio[q], prio[p])
                BY <1>3, <1>4, <3>4
            <4>2. prio'[q] \in Nat /\ prio'[q] # 0 /\ prio'[p] = 0
                BY <1>4, <4>1 DEF Shifted
            <4>. QED BY <1>6, <3>1, <3>4, <4>2
        <3>5. CASE q \notin Listed \/ r \notin Listed
            BY <1>6, <3>1, <3>5
        <3>. QED BY <3>2, <3>3, <3>4, <3>5
    <2>. HIDE DEF T
    <2>. QED BY <1>6, <2>1, <2>2, SamePairs
<1>8. Order!Members({<<p, p>>}) = {p}
    BY <1>0 DEF Order!Members
<1>9. asked' = asked
    <2>1. raced' = raced
        BY DEF ListInv, TypeOK
    <2>. QED BY <1>0, <2>1 DEF asked
<1>10. busy = FALSE /\ busy' = FALSE
    BY <1>1 DEF busy
<1>11. Order!PreferOne(p)
    BY <1>6, <1>7, <1>8, <1>9, <1>10 DEF Order!PreferOne, Order!Prefer
<1>12. CASE order' = order
    BY <1>9, <1>10, <1>12 DEF Order!vars
<1>13. CASE order' # order
    BY <1>0, <1>11, <1>13 DEF Order!Next
<1>. QED BY <1>12, <1>13

\* The request of poolpriority
LEMMA AskStep ==
    ASSUME ListInv, ListInv', ~raced, poolpriority
    PROVE  Order!Next
<1>1. /\ pc = "none" /\ pc' = "name" /\ loop = 0 /\ loop' = 0 /\ ~raced'
      /\ UNCHANGED <<pools, total_pools, pool_no, prio, victim>>
    BY DEF poolpriority, CanEdit, Idle, listVars, numVars, ListInv, TypeOK
<1>2. ~Reordering /\ ~Removing /\ ~Reordering' /\ ~Removing'
    BY <1>1 DEF Reordering, Removing
<1>3. Listed' = Listed /\ Ranked = Listed /\ Ranked' = Listed /\ rank = prio /\ rank' = prio
    BY <1>1, <1>2 DEF Listed, Numbers, Ranked, rank
<1>4. order' = order
    BY <1>1, <1>3, SameOrder
<1>5. asked = {} /\ AskedIs' /\ OrderIs
    BY <1>1, NotAsked, AskedFactsNext, OrderFacts
<1>6. Order!IsOrder(asked') /\ Order!Members(asked') = changed' /\ changed' \subseteq Listed' /\ changed' # {}
    <2>1. (Order!IsOrder(asked))' /\ (Order!Members(asked))' = changed' /\ changed' \subseteq Listed' /\ changed' # {}
        BY <1>5 DEF AskedIs
    <2>. QED BY <2>1 DEF Order!IsOrder, Order!Members
<1>7. asked' # {} /\ Order!Members(asked') \subseteq Order!Members(order)
    BY <1>3, <1>5, <1>6 DEF Order!Members, OrderIs
<1>8. busy = FALSE /\ busy' = FALSE
    BY <1>2 DEF busy
<1>9. Order!Ask
    BY <1>4, <1>5, <1>6, <1>7, <1>8 DEF Order!Ask
<1>. QED BY <1>9 DEF Order!Next

\* With its first write the order is the one asked for.
LEMMA ServeStep ==
    ASSUME ListInv, ListInv', ~raced, NamePool, loop = 0
    PROVE  Order!Next
<1>0. pc = "name" /\ UNCHANGED <<raced, changed, new_prio, victim>> /\ ~raced' /\ pc' \in {"name", "append"}
    BY DEF NamePool, ListInv, TypeOK, Turn
<1>1. /\ Listed' = Listed /\ Reordering' /\ ~Removing /\ ~Removing' /\ ~Doubled
      /\ \A p \in Listed : rank'[p] = Target(p)
    BY <1>0, NameTurn
<1>2. ~Reordering
    BY <1>0 DEF Reordering
<1>3. Ranked = Listed /\ Ranked' = Listed /\ rank = prio /\ Listed \subseteq Pool
    BY <1>1, <1>2, ListedPools DEF Ranked, rank, ListInv
<1>4. OrderIs /\ OrderIs' /\ AskedIs
    BY <1>0, OrderFacts, OrderFactsNext, AskedFacts
<1>. DEFINE rest == Listed \ changed
            T == asked \cup (changed \X rest) \cup Order!Among(order, rest)
<1>5. /\ order \in SUBSET (Pool \X Pool) /\ order' \in SUBSET (Pool \X Pool) /\ Order!Members(order) = Listed
      /\ \A q, r \in Pool : <<q, r>> \in order <=> q \in Listed /\ r \in Listed /\ prio[q] <= prio[r]
      /\ \A q, r \in Pool : <<q, r>> \in order' <=> q \in Listed /\ r \in Listed /\ Target(q) <= Target(r)
    <2>1. \A q, r \in Pool : <<q, r>> \in order' <=> q \in Ranked' /\ r \in Ranked' /\ rank'[q] <= rank'[r]
        BY <1>4 DEF OrderIs
    <2>2. \A q, r \in Pool : <<q, r>> \in order' <=> q \in Listed /\ r \in Listed /\ Target(q) <= Target(r)
        BY <2>1, <1>1, <1>3
    <2>. QED BY <1>3, <1>4, <2>2 DEF OrderIs
<1>6. /\ changed \subseteq Listed /\ Order!Members(asked) = changed /\ asked \in SUBSET (Pool \X Pool) /\ changed # {}
      /\ \A q, r \in Pool : <<q, r>> \in asked <=> q \in changed /\ r \in changed /\ new_prio[q] <= new_prio[r]
    BY <1>4 DEF AskedIs
<1>7. /\ \A q \in changed : Target(q) = new_prio[q] /\ new_prio[q] \in Nat /\ new_prio[q] < Cardinality(changed)
      /\ \A q \in rest : /\ Target(q) = Cardinality(changed) + Cardinality(Before(q))
                         /\ Cardinality(Before(q)) \in Nat
      /\ Cardinality(changed) \in Nat
    <2>1. \A q \in changed : new_prio[q] \in 0 .. Cardinality(changed) - 1
        BY <1>0 DEF ListInv, ReorderOK
    <2>2. /\ Cardinality(changed) \in Nat
          /\ \A q \in rest : Cardinality(Before(q)) \in Nat
        BY <1>0, BeforeFacts
    <2>. QED BY <2>1, <2>2 DEF Target
<1>8. ASSUME NEW q \in rest, NEW r \in rest PROVE Target(q) <= Target(r) <=> prio[q] <= prio[r]
    <2>1. prio[q] \in Nat /\ prio[r] \in Nat
        BY <1>3, Sizes DEF ListInv
    <2>2. /\ prio[q] < prio[r] => Cardinality(Before(q)) < Cardinality(Before(r))
          /\ prio[r] < prio[q] => Cardinality(Before(r)) < Cardinality(Before(q))
        BY <1>0, BeforeFacts
    <2>3. prio[q] = prio[r] => q = r
        BY <1>0 DEF ListInv, TurnsOK
    <2>. QED BY <1>7, <2>1, <2>2, <2>3
<1>9. order' = T
    <2>1. T \in SUBSET (Pool \X Pool)
        BY <1>3, <1>5, <1>6 DEF Order!Among
    <2>2. ASSUME NEW q \in Pool, NEW r \in Pool PROVE <<q, r>> \in order' <=> <<q, r>> \in T
        <3>1. <<q, r>> \in T <=>
                \/ <<q, r>> \in asked
                \/ q \in changed /\ r \in rest
                \/ <<q, r>> \in order /\ q \in rest /\ r \in rest
            BY DEF Order!Among
        <3>2. CASE q \in rest /\ r \in rest
            BY <1>5, <1>6, <1>8, <3>1, <3>2
        <3>3. CASE q \in changed /\ r \in changed
            BY <1>5, <1>6, <1>7, <3>1, <3>3
        <3>4. CASE q \in changed /\ r \in rest
            <4>1. Target(q) <= Target(r)
                BY <1>7, <3>4
            <4>. QED BY <1>5, <1>6, <3>1, <3>4, <4>1
        <3>5. CASE q \in rest /\ r \in changed
            <4>1. ~(Target(q) <= Target(r))
                BY <1>7, <3>5
            <4>. QED BY <1>5, <1>6, <3>1, <3>5, <4>1
        <3>6. CASE q \notin Listed \/ r \notin Listed
            BY <1>5, <1>6, <3>1, <3>6
        <3>. QED BY <3>2, <3>3, <3>4, <3>5, <3>6
    <2>. HIDE DEF T
    <2>. QED BY <1>5, <2>1, <2>2, SamePairs
<1>10. asked # {} /\ asked' = {}
    <2>1. asked # {}
        BY <1>6 DEF Order!Members
    <2>2. loop' > 0 \/ pc' # "name"
        BY <1>0, Sizes DEF NamePool, Turn, ListInv
    <2>. QED BY <2>1, <2>2, NotAskedNext
<1>11. busy = FALSE /\ busy' = TRUE
    BY <1>0, <1>1, <1>2 DEF busy
<1>12. Order!Serve
    BY <1>5, <1>6, <1>9, <1>10, <1>11 DEF Order!Serve, Order!Prefer
<1>. QED BY <1>12 DEF Order!Next

\* With the first write of remove_pool the pool is gone from the order.
LEMMA RemoveStep ==
    ASSUME ListInv, ListInv', ~raced, BoostPool, loop = 0
    PROVE  Order!Next
<1>0. pc = "boost" /\ UNCHANGED <<raced, victim>> /\ ~raced' /\ total_pools > 1
    BY DEF BoostPool, Kept, ListInv, TypeOK, RemovalOK
<1>1. /\ Listed' = Listed /\ Removing' /\ ~Removing /\ ~Reordering /\ ~Reordering' /\ ~Doubled /\ victim \in Listed
      /\ \A p \in Listed \ {victim} : rank'[p] = Boosted(p)
    BY BoostTurn
<1>2. Ranked = Listed /\ Ranked' = Listed \ {victim} /\ rank = prio /\ Listed \subseteq Pool
    BY <1>0, <1>1, ListedPools DEF Ranked, rank, ListInv
<1>3. OrderIs /\ OrderIs'
    BY <1>0, OrderFacts, OrderFactsNext
<1>. DEFINE rest == Listed \ {victim}
            T == Order!Among(order, rest)
<1>4. /\ order \in SUBSET (Pool \X Pool) /\ order' \in SUBSET (Pool \X Pool) /\ Order!Members(order) = Listed
      /\ \A q, r \in Pool : <<q, r>> \in order <=> q \in Listed /\ r \in Listed /\ prio[q] <= prio[r]
      /\ \A q, r \in Pool : <<q, r>> \in order' <=> q \in rest /\ r \in rest /\ Boosted(q) <= Boosted(r)
    <2>1. \A q, r \in Pool : <<q, r>> \in order' <=> q \in Ranked' /\ r \in Ranked' /\ rank'[q] <= rank'[r]
        BY <1>3 DEF OrderIs
    <2>2. \A q, r \in Pool : <<q, r>> \in order' <=> q \in rest /\ r \in rest /\ Boosted(q) <= Boosted(r)
        BY <2>1, <1>1, <1>2
    <2>. QED BY <1>2, <1>3, <2>2 DEF OrderIs
<1>5. \A q, r \in rest : Boosted(q) <= Boosted(r) <=> prio[q] <= prio[r]
    BY <1>0, BoostedOK
<1>6. order' = T
    <2>1. T \in SUBSET (Pool \X Pool)
        BY <1>4 DEF Order!Among
    <2>2. ASSUME NEW q \in Pool, NEW r \in Pool PROVE <<q, r>> \in order' <=> <<q, r>> \in T
        <3>1. <<q, r>> \in T <=> <<q, r>> \in order /\ q \in rest /\ r \in rest
            BY DEF Order!Among
        <3>. QED BY <1>4, <1>5, <3>1
    <2>. HIDE DEF T
    <2>. QED BY <1>4, <2>1, <2>2, SamePairs
<1>7. Listed # {victim}
    <2>1. total_pools \in Nat /\ 0 \in Numbers /\ 1 \in Numbers
        BY <1>0, Sizes DEF ListInv, Numbers
    <2>2. \A i \in Numbers : pools[i] \in Listed /\ pool_no[pools[i]] = i
        BY <1>1, OnePlace DEF ListInv
    <2>. QED BY <2>1, <2>2
<1>8. asked = {} /\ asked' = {}
    <2>1. pc' # "name"
        BY <1>0 DEF BoostPool, Turn
    <2>. QED BY <1>0, <2>1, NotAsked, NotAskedNext
<1>9. busy = FALSE /\ busy' = TRUE
    BY <1>0, <1>1 DEF busy
<1>10. Order!Remove(victim)
    BY <1>1, <1>4, <1>6, <1>7, <1>8, <1>9 DEF Order!Remove
<1>11. victim \notin Order!Members(order') /\ victim \in Order!Members(order)
    BY <1>1, <1>4, <1>6 DEF Order!Members, Order!Among
<1>. QED BY <1>1, <1>2, <1>10, <1>11 DEF Order!Next

\* Beside an edit the selection of another pool than the first loses the order.
LEMMA SelectStep ==
    ASSUME ListInv, ListInv', ~raced, NEW p \in Listed, switch_selected(p), UNCHANGED opVars
    PROVE  [Order!Next]_(Order!vars)
<1>0. /\ PrioFirst(p) /\ UNCHANGED <<pools, total_pools, pool_no, removed, pc, loop, victim, menu, new_prio, changed>>
      /\ raced' = (raced \/ ((Reordering \/ Removing) /\ prio[p] # 0))
    BY DEF switch_selected, numVars, opVars
<1>1. (Reordering' <=> Reordering) /\ (Removing' <=> Removing)
    BY <1>0 DEF Reordering, Removing
<1>2. CASE ~Reordering /\ ~Removing
    <2>1. ~raced'
        BY <1>0, <1>2
    <2>. QED BY <1>2, <2>1, PreferStep
<1>3. CASE (Reordering \/ Removing) /\ prio[p] = 0
    <2>1. \A q \in Pool : prio[q] \in Nat
        BY Sizes DEF ListInv
    <2>2. \A q \in Pool : prio'[q] = prio[q]
        BY <1>0, <1>3, <2>1 DEF PrioFirst
    <2>3. prio' = prio
        BY <2>2 DEF ListInv, TypeOK
    <2>4. raced' = raced
        BY <1>0, <1>3 DEF ListInv, TypeOK
    <2>. QED BY <1>0, <2>3, <2>4, QuietOrder
<1>4. CASE (Reordering \/ Removing) /\ prio[p] # 0
    <2>1. raced'
        BY <1>0, <1>4
    <2>2. pc # "name" \/ loop > 0
        BY <1>4, Sizes DEF Reordering, Removing, ListInv
    <2>3. asked = {} /\ asked' = {} /\ order' = {} /\ busy' = FALSE
        BY <2>1, <2>2, NotAsked, LostNext
    <2>4. busy
        BY <1>4 DEF busy
    <2>. QED BY <2>3, <2>4 DEF Order!Next, Order!Disturb
<1>. QED BY <1>2, <1>3, <1>4

\* A step of an operation that is writing: the order is the same.
LEMMA WriteStep ==
    ASSUME ListInv, ListInv', ~raced, ~raced', Reordering \/ Removing, pc' # "name" \/ loop' > 0,
           Ranked' = Ranked, \A p \in Ranked : rank'[p] = rank[p]
    PROVE  [Order!Next]_(Order!vars)
<1>1. order' = order
    BY SameOrder
<1>2. pc # "name" \/ loop > 0
    BY Sizes DEF Reordering, Removing, ListInv
<1>3. asked = {} /\ asked' = {}
    BY <1>2, NotAsked, NotAskedNext
<1>4. busy = TRUE /\ busy' \in BOOLEAN
    BY DEF busy
<1>5. CASE busy' = TRUE
    BY <1>1, <1>3, <1>4, <1>5 DEF Order!vars
<1>6. CASE busy' = FALSE
    BY <1>1, <1>3, <1>4, <1>6 DEF Order!Next, Order!Finish
<1>. QED BY <1>4, <1>5, <1>6

\* A step of one that is not
LEMMA IdleStep ==
    ASSUME ListInv, ListInv', ~raced, UNCHANGED <<listVars, loop, changed, new_prio>>,
           ~Reordering, ~Removing, ~Reordering', ~Removing', pc # "name", pc' # "name"
    PROVE  UNCHANGED Order!vars
<1>1. ~raced' /\ Ranked' = Ranked /\ rank' = rank
    BY GoOn DEF listVars
<1>2. order' = order
    BY <1>1, SameOrder
<1>3. asked = {} /\ asked' = {}
    BY NotAsked, NotAskedNext
<1>4. busy = FALSE /\ busy' = FALSE
    BY DEF busy
<1>. QED BY <1>2, <1>3, <1>4 DEF Order!vars

LEMMA StaysRaced == [Next]_vars /\ raced => raced'
<1>. SUFFICES ASSUME [Next]_vars, raced PROVE raced'
    OBVIOUS
<1>1. ASSUME NEW p \in Pool, NEW m \in BOOLEAN, addpool(p) \/ switchpool(p, m) \/ removepool(p, m) PROVE raced'
    BY <1>1 DEF addpool, switchpool, switch_selected, removepool, listVars
<1>2. ASSUME NEW p \in Pool, NEW m \in BOOLEAN, enablepool(p, m) PROVE raced'
    <2>1. switch_selected(p) \/ UNCHANGED listVars
        BY <1>2 DEF enablepool
    <2>. QED BY <2>1 DEF switch_selected, listVars
<1>3. ASSUME NEW p \in Pool, NEW m \in BOOLEAN, disablepool(p, m) \/ reject_pool(p) \/ accept_pool(p) PROVE raced'
    BY <1>3 DEF disablepool, reject_pool, accept_pool, listVars
<1>4. Switch \/ poolpriority \/ NamePool \/ AppendPool \/ Settle \/ UNCHANGED vars => raced'
    BY DEF Switch, poolpriority, NamePool, AppendPool, Settle, vars, listVars
<1>5. RemoveCheck \/ RemoveDisable \/ BoostPool \/ RemoveRenumber \/ RemoveReplace \/ RemoveInvalidate
        \/ RemoveUnlist \/ RemoveShrink => raced'
    BY DEF RemoveCheck, RemoveDisable, BoostPool, RemoveRenumber, RemoveReplace, RemoveInvalidate,
           RemoveUnlist, RemoveShrink, listVars
<1>. QED BY <1>1, <1>2, <1>3, <1>4, <1>5 DEF Next, Operator, Others

\* Every step of PoolList is one of PoolOrder, or does not touch the order.
LEMMA StepSimulation == ListInv /\ ListInv' /\ [Next]_vars => [Order!Next]_(Order!vars)
<1>. SUFFICES ASSUME ListInv, ListInv', [Next]_vars PROVE [Order!Next]_(Order!vars)
    OBVIOUS
<1>1. CASE raced
    <2>1. raced'
        BY <1>1, StaysRaced
    <2>. QED BY <1>1, <2>1, Lost, LostNext DEF Order!vars
<1>2. CASE ~raced
    <2>1. ASSUME NEW p \in Pool, addpool(p) PROVE Order!Next
        BY <1>2, <2>1, AddStep
    <2>2. ASSUME NEW p \in Pool, NEW m \in BOOLEAN, switchpool(p, m) PROVE [Order!Next]_(Order!vars)
        BY <1>2, <2>2, SelectStep DEF switchpool
    <2>3. ASSUME NEW p \in Pool, NEW m \in BOOLEAN, enablepool(p, m) PROVE [Order!Next]_(Order!vars)
        <3>1. CASE prio[p] < prio[currentpool]
            BY <1>2, <2>3, <3>1, SelectStep DEF enablepool
        <3>2. CASE ~(prio[p] < prio[currentpool])
            BY <2>3, <3>2, QuietOrder DEF enablepool, listVars, numVars, opVars
        <3>. QED BY <3>1, <3>2
    <2>4. ASSUME NEW p \in Pool, NEW m \in BOOLEAN, disablepool(p, m) \/ reject_pool(p) \/ accept_pool(p)
          PROVE  UNCHANGED Order!vars
        BY <2>4, QuietOrder DEF disablepool, reject_pool, accept_pool, listVars, numVars, opVars
    <2>5. Switch \/ UNCHANGED vars => UNCHANGED Order!vars
        BY QuietOrder DEF Switch, vars, listVars, numVars, opVars
    <2>6. CASE poolpriority
        BY <1>2, <2>6, AskStep
    <2>7. CASE NamePool
        <3>1. CASE loop = 0
            BY <1>2, <2>7, <3>1, ServeStep
        <3>2. CASE loop > 0
            <4>1. /\ Listed' = Listed /\ Reordering' /\ ~Removing /\ ~Removing'
                  /\ \A p \in Listed : rank'[p] = rank[p]
                BY <1>2, <2>7, <3>2, NameTurn
            <4>2. Ranked' = Ranked /\ Ranked = Listed
                BY <4>1 DEF Ranked
            <4>3. ~raced' /\ Reordering /\ (pc' # "name" \/ loop' > 0)
                BY <1>2, <2>7, <3>2, Sizes DEF NamePool, Turn, Reordering, ListInv
            <4>. QED BY <1>2, <4>1, <4>2, <4>3, WriteStep
        <3>. QED BY <3>1, <3>2, Sizes DEF ListInv
    <2>8. CASE AppendPool
        <3>1. /\ Listed' = Listed /\ Reordering /\ ~Removing /\ ~Removing' /\ pc' # "name"
              /\ \A p \in Listed : rank'[p] = rank[p]
            BY <1>2, <2>8, AppendTurn
        <3>2. Ranked' = Ranked /\ Ranked = Listed
            BY <3>1 DEF Ranked
        <3>3. ~raced'
            BY <1>2, <2>8 DEF AppendPool
        <3>. QED BY <1>2, <3>1, <3>2, <3>3, WriteStep
    <2>9. CASE Settle
        <3>1. /\ pc = "settle" /\ pc' = "none" /\ UNCHANGED <<listVars, loop, victim>>
              /\ ~Reordering /\ ~Removing /\ ~Reordering' /\ ~Removing'
            BY <2>9 DEF Settle, Reordering, Removing
        <3>2. Listed' = Listed /\ Ranked = Listed /\ Ranked' = Listed /\ rank = prio /\ rank' = prio
            BY <3>1 DEF Listed, Numbers, Ranked, rank, listVars, numVars
        <3>3. order' = order
            BY <1>2, <3>1, <3>2, SameOrder DEF listVars
        <3>4. asked = {} /\ asked' = {}
            BY <3>1, NotAsked, NotAskedNext
        <3>5. busy = FALSE /\ busy' = FALSE
            BY <3>1 DEF busy
        <3>. QED BY <3>3, <3>4, <3>5 DEF Order!vars
    <2>10. ASSUME NEW p \in Pool, NEW m \in BOOLEAN, removepool(p, m) PROVE UNCHANGED Order!vars
        <3>1. pc = "none" /\ pc' = "check" /\ UNCHANGED <<listVars, loop, changed, new_prio>>
            BY <2>10 DEF removepool, CanEdit, Idle
        <3>2. ~Reordering /\ ~Removing /\ ~Reordering' /\ ~Removing'
            BY <3>1 DEF Reordering, Removing
        <3>. QED BY <1>2, <3>1, <3>2, IdleStep
    <2>11. CASE RemoveCheck
        <3>1. pc = "check" /\ pc' \in {"none", "disable"} /\ UNCHANGED <<listVars, loop, changed, new_prio>>
            BY <2>11 DEF RemoveCheck, EndRemoval
        <3>2. ~Reordering /\ ~Removing /\ ~Reordering' /\ ~Removing'
            BY <3>1 DEF Reordering, Removing
        <3>. QED BY <1>2, <3>1, <3>2, IdleStep
    <2>12. CASE RemoveDisable
        <3>1. pc = "disable" /\ pc' = "boost" /\ UNCHANGED <<listVars, loop, changed, new_prio>>
            BY <2>12 DEF RemoveDisable
        <3>2. ~(loop > 0)
            BY <3>1 DEF ListInv, TypeOK
        <3>3. ~Reordering /\ ~Removing /\ ~Reordering' /\ ~Removing'
            BY <3>1, <3>2 DEF Reordering, Removing
        <3>. QED BY <1>2, <3>1, <3>3, IdleStep
    <2>13. CASE BoostPool
        <3>1. CASE loop = 0
            BY <1>2, <2>13, <3>1, RemoveStep
        <3>2. CASE loop > 0
            <4>1. /\ Listed' = Listed /\ Removing /\ Removing' /\ victim' = victim /\ ~raced' /\ pc' # "name"
                  /\ \A p \in Listed \ {victim} : rank'[p] = rank[p]
                BY <1>2, <2>13, <3>2, BoostTurn DEF BoostPool, Turn, Kept
            <4>2. Ranked' = Ranked /\ Ranked = Listed \ {victim}
                BY <4>1 DEF Ranked
            <4>. QED BY <1>2, <4>1, <4>2, WriteStep
        <3>. QED BY <3>1, <3>2, Sizes DEF ListInv
    <2>14. CASE RemoveRenumber \/ RemoveReplace \/ RemoveInvalidate \/ RemoveUnlist \/ RemoveShrink
        <3>1. Ranked' = Ranked
            BY <2>14, RenumberOK, ReplaceOK, InvalidateOK, UnlistOK, ShrinkOK
        <3>2. /\ UNCHANGED <<prio, raced>> /\ pc \notin {"name", "append", "boost"}
              /\ pc' \notin {"name", "append", "boost"}
              /\ pc \in {"renumber", "replace", "invalidate", "unlist", "shrink"}
            BY <2>14 DEF RemoveRenumber, RemoveReplace, RemoveInvalidate, RemoveUnlist, RemoveShrink, EndRemoval
        <3>3. ~Writing /\ ~Writing' /\ Removing
            BY <3>2 DEF Writing, Reordering, Removing
        <3>4. rank = prio /\ rank' = prio'
            BY <3>3, Zenon DEF Writing, rank
        <3>. QED BY <1>2, <3>1, <3>2, <3>3, <3>4, WriteStep
    <2>. QED BY <2>1, <2>2, <2>3, <2>4, <2>5, <2>6, <2>7, <2>8, <2>9, <2>10, <2>11, <2>12, <2>13, <2>14
             DEF Next, Operator, Others
<1>. QED BY <1>1, <1>2

\* The first pools are in an order.
LEMMA InitSimulation == Init => Order!Init
<1>. SUFFICES ASSUME Init PROVE Order!Init
    OBVIOUS
<1>1. ListInv
    BY InitOK
<1>2. pc = "none" /\ ~raced /\ ~Reordering /\ ~Removing
    BY DEF Init, Reordering, Removing
<1>3. OrderIs /\ asked = {} /\ busy = FALSE
    BY <1>1, <1>2, OrderFacts, NotAsked DEF busy
<1>4. pools[0] \in Ranked
    <2>1. 0 \in Numbers
        BY <1>1, Sizes DEF ListInv, Numbers
    <2>. QED BY <2>1, <1>2 DEF Listed, Ranked
<1>5. order # {}
    BY <1>3, <1>4 DEF OrderIs, Order!Members
<1>. QED BY <1>3, <1>5 DEF Order!Init, OrderIs

\* The list that is written entry by entry, without a lock and beside the
\* switches of other threads, is a list in an order of preference that changes as
\* the operator is promised, or whose order is lost to a switch.
THEOREM Refinement == Spec => ImplementsPoolOrder
BY PoolListInvariant, InitSimulation, StepSimulation, PTL DEF Spec, ImplementsPoolOrder, Order!Spec
=============================================================================
