----------------------------- MODULE MCCgLock -----------------------------
(***************************************************************************)
(* Model-checking instance of CgLock.  Four threads are enough for two     *)
(* readers, a writer that waits for them and a second writer behind it.    *)
(***************************************************************************)
EXTENDS CgLock
=============================================================================
