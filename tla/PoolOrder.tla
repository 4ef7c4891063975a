----------------------------- MODULE PoolOrder -----------------------------
(***************************************************************************)
(* What the operator is promised of the list of pools: the pools are in an *)
(* order of preference; a new pool comes last, a removed one leaves the    *)
(* others in their order, and pools that are given preference come first,  *)
(* in the order they are named, before the others in theirs.  The order is *)
(* new when the operation begins to write it.  One that is disturbed by    *)
(* another before it ends leaves no order at all.                          *)
(***************************************************************************)
CONSTANT Pool

VARIABLES
    order,      \* the pairs of listed pools, the preferred one first
    asked,      \* those of the pools that a request prefers, in its order
    busy        \* whether an operation is writing the order

vars == <<order, asked, busy>>

Members(R) == {p \in Pool : <<p, p>> \in R}

\* R is the total order of a set of pools.
IsOrder(R) ==
    /\ R \subseteq Members(R) \X Members(R)
    /\ \A p, q \in Members(R) :
        /\ <<p, q>> \in R \/ <<q, p>> \in R
        /\ <<p, q>> \in R /\ <<q, p>> \in R => p = q
        /\ \A r \in Members(R) : <<p, q>> \in R /\ <<q, r>> \in R => <<p, r>> \in R

\* The order R among the pools S
Among(R, S) == {e \in R : e[1] \in S /\ e[2] \in S}

Init == IsOrder(order) /\ order # {} /\ asked = {} /\ busy = FALSE

Add(p) ==
    /\ ~busy /\ p \notin Members(order)
    /\ order' = order \cup ((Members(order) \cup {p}) \X {p})
    /\ UNCHANGED <<asked, busy>>

Remove(p) ==
    /\ ~busy /\ busy' = TRUE
    /\ p \in Members(order) /\ Members(order) # {p}
    /\ order' = Among(order, Members(order) \ {p})
    /\ UNCHANGED asked

\* What is preferred comes first.
Prefer(front) ==
    LET rest == Members(order) \ Members(front) IN
    order' = front \cup (Members(front) \X rest) \cup Among(order, rest)

\* One pool is preferred at once, several by a request ...
PreferOne(p) ==
    /\ ~busy /\ p \in Members(order)
    /\ Prefer({<<p, p>>})
    /\ UNCHANGED <<asked, busy>>

Ask ==
    /\ ~busy /\ asked = {} /\ asked' # {} /\ IsOrder(asked')
    /\ Members(asked') \subseteq Members(order)
    /\ UNCHANGED <<order, busy>>

\* ... that is served afterwards.
Serve ==
    /\ ~busy /\ busy' = TRUE
    /\ asked # {} /\ Prefer(asked) /\ asked' = {}

\* The order is written ...
Finish == busy /\ busy' = FALSE /\ UNCHANGED <<order, asked>>

\* ... or lost.
Disturb == busy /\ busy' = FALSE /\ order' = {} /\ UNCHANGED asked

Next ==
    \/ order' # order /\ \E p \in Pool : Add(p) \/ Remove(p) \/ PreferOne(p)
    \/ Ask \/ Serve \/ Finish \/ Disturb

Spec == Init /\ [][Next]_vars
=============================================================================
