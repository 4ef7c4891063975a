---------------------------- MODULE MCWorkQueue ----------------------------
(***************************************************************************)
(* Model-checking instance of WorkQueue.  max_queue is 1, as in cgminer.c. *)
(***************************************************************************)
EXTENDS WorkQueue, TLC

Symmetry == Permutations(Works) \cup Permutations(Miners)

=============================================================================
