CONSTANTS
    a = a
    b = b
    n1 = n1
    n2 = n2
    NoReq = NoReq
    NoKernel = NoKernel
    Kinds <- EfaKinds
    Modules = {"kmm"}
    Dockerfiles = {"cm"}
    Builds <- Kernels
    Labels <- EfaLabels
    Names = {a}
    Nodes = {n1}
    EfaNodes = {n1}
    Kernels = {"4.18"}
    OpenShift = TRUE
    FaultyCalls <- AllCalls
    LateEvents = {}
    MaxBorn = 1
    MaxFaults = 1
    MaxChildDeletes = 1
    MaxCrashes = 0
    MaxNodeChanges = 0
    MaxBackOff = 1

SPECIFICATION Spec
CHECK_DEADLOCK FALSE
INVARIANTS
    ReadyHasDevicePlugin
