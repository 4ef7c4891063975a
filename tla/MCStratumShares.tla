-------------------------- MODULE MCStratumShares --------------------------
(***************************************************************************)
(* Model-checking instance of StratumShares.                               *)
(***************************************************************************)
EXTENDS StratumShares

=============================================================================
