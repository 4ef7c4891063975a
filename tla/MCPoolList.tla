----------------------------- MODULE MCPoolList -----------------------------
(***************************************************************************)
(* Model-checking instance of PoolList.                                    *)
(***************************************************************************)
EXTENDS PoolList, TLC

Symmetry == Permutations(Pool)
=============================================================================
