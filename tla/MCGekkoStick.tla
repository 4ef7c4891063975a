---------------------------- MODULE MCGekkoStick ----------------------------
(***************************************************************************)
(* Model-checking instance of GekkoStick.                                  *)
(***************************************************************************)
EXTENDS GekkoStick

=============================================================================
