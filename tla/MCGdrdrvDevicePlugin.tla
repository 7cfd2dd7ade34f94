------------------------- MODULE MCGdrdrvDevicePlugin -------------------------
(***************************************************************************)
(* Instances of GdrdrvDevicePlugin for TLC.                                *)
(***************************************************************************)
EXTENDS GdrdrvDevicePlugin

CONSTANTS p1, p2
=============================================================================
