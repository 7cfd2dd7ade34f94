CONSTANTS
    a = a
    b = b
    n1 = n1
    n2 = n2
    NoReq = NoReq
    NoKernel = NoKernel
    Kinds <- EfaKinds
    Modules = {"kmm"}
    Dockerfiles = {"cm"}
    Builds <- Kernels
    Labels <- EfaLabels
    Names = {a, b}
    Nodes = {}
    EfaNodes = {}
    Kernels = {"4.18"}
    OpenShift = FALSE
    FaultyCalls <- CheckedCalls
    LateEvents = {}
    MaxBorn = 2
    MaxFaults = 0
    MaxChildDeletes = 0
    MaxCrashes = 0
    MaxNodeChanges = 0
    MaxBackOff = 1

SPECIFICATION FairSpec
CHECK_DEADLOCK FALSE
PROPERTIES
    DeletionCompletes
