-------------------------- MODULE MCStratumSession --------------------------
(***************************************************************************)
(* Model-checking instance of StratumSession.  No action looks at both the *)
(* difficulties and the work, so a behaviour either has the pool set       *)
(* difficulties or has a piece of work watched.                            *)
(***************************************************************************)
EXTENDS StratumSession

VARIABLE about

MCInit == Init /\ about \in {"diffs", "work"}

MCNext ==
    /\ Next
    /\ about = "work" => next_diff' = 0
    /\ about = "diffs" => work' = {}
    /\ UNCHANGED about

MCSpec == MCInit /\ [][MCNext]_<<vars, about>>

=============================================================================
