-------------------------- MODULE MCEfaDevicePlugin --------------------------
(***************************************************************************)
(* Instances of EfaDevicePlugin for TLC.                                   *)
(***************************************************************************)
EXTENDS EfaDevicePlugin

CONSTANTS d0, d1
=============================================================================
