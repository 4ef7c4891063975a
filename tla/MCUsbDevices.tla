---------------------------- MODULE MCUsbDevices ----------------------------
(***************************************************************************)
(* Model-checking instance of UsbDevices: a stick that is wanted and one   *)
(* that the options exclude.                                               *)
(***************************************************************************)
EXTENDS UsbDevices

=============================================================================
