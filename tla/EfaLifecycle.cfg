CONSTANTS
    a = a
    b = b
    n1 = n1
    n2 = n2
    NoReq = NoReq
    NoKernel = NoKernel
    Kinds <- EfaKinds
    Modules = {"kmm"}
    Dockerfiles = {"cm"}
    Builds <- Kernels
    Labels <- EfaLabels
    Names = {a}
    Nodes = {n1, n2}
    EfaNodes = {n1, n2}
    Kernels = {"4.18", "5.14"}
    OpenShift = TRUE
    FaultyCalls <- AllCalls
    LateEvents = {"cr"}
    MaxBorn = 2
    MaxFaults = 1
    MaxChildDeletes = 0
    MaxCrashes = 1
    MaxNodeChanges = 1
    MaxBackOff = 1

SPECIFICATION Spec
CHECK_DEADLOCK FALSE
INVARIANTS
    TypeOK
    KernelsCovered
    FinalizerGuards
    NoModuleLeftBehind
PROPERTIES
    BuildsOnlyGuarded
    KeepsContract
