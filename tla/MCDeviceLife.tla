---------------------------- MODULE MCDeviceLife ----------------------------
(***************************************************************************)
(* Model-checking instance of DeviceLife.                                  *)
(***************************************************************************)
EXTENDS DeviceLife

=============================================================================
