----------------------- MODULE MCEfaDriverController -----------------------
(***************************************************************************)
(* Instances of EfaDriverController for TLC: the names of drivers and      *)
(* nodes are model values.                                                 *)
(***************************************************************************)
EXTENDS EfaDriverController

CONSTANTS a, b, n1, n2

\* Which calls may fail.
AllCalls     == PCs
\* Every call but the Create of the DaemonSet, whose errors are dropped.
CheckedCalls == PCs \ {"CreateDevicePlugin"}
=============================================================================
