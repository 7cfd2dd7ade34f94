---------------------- MODULE MCGdrdrvDriverController ----------------------
(***************************************************************************)
(* Instances of GdrdrvDriverController for TLC: two versions of the CUDA   *)
(* driver, each with its dockerfile and its Module.                        *)
(***************************************************************************)
EXTENDS GdrdrvDriverController

TLC == INSTANCE TLC

CONSTANTS a, n1, n2

CudaVersions   == {"525", "535"}
VersionPairs   == CudaVersions \X Kernels
CmNames        == [v \in CudaVersions |-> IF v = "525" THEN "cm525" ELSE "cm535"]
KmmNames       == [v \in CudaVersions |-> IF v = "525" THEN "kmm525" ELSE "kmm535"]
VersionModules == Range(KmmNames)
VersionFiles   == Range(CmNames)
VersionObjects == VersionModules \cup VersionFiles \cup {"scc", "ds"}

\* Every call but the Create of the DaemonSet, whose errors are dropped.
CheckedCalls == PCs \ {"CreateDevicePlugin"}

\* The nodes are interchangeable.
Symmetry == TLC!Permutations(Nodes)
=============================================================================
