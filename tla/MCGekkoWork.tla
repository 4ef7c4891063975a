---------------------------- MODULE MCGekkoWork ----------------------------
(***************************************************************************)
(* Model-checking instance of GekkoWork.                                   *)
(***************************************************************************)
EXTENDS GekkoWork, TLC

Symmetry == Permutations(Works)

=============================================================================
