CONSTANTS
    a = a
    b = b
    n1 = n1
    n2 = n2
    NoReq = NoReq
    NoKernel = NoKernel
    Kinds <- EfaKinds
    Modules = {"kmm"}
    Dockerfiles = {"cm"}
    Builds <- Kernels
    Labels <- EfaLabels
    Names = {a}
    Nodes = {n1}
    EfaNodes = {n1}
    Kernels = {"4.18"}
    OpenShift = FALSE
    FaultyCalls <- CheckedCalls
    LateEvents = {"cr", "ds"}
    MaxBorn = 1
    MaxFaults = 1
    MaxChildDeletes = 1
    MaxCrashes = 1
    MaxNodeChanges = 0
    MaxBackOff = 1

SPECIFICATION FairSpec
CHECK_DEADLOCK FALSE
INVARIANTS
    RestsOnlyWhenDone
PROPERTIES
    DeletionCompletes
    Converges
