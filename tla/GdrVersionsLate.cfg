CONSTANTS
    a = a
    n1 = n1
    n2 = n2
    NoReq = NoReq
    NoKernel = NoKernel
    NoVersion = NoVersion
    Names = {a}
    Nodes = {n1, n2}
    Kernels = {"4.18", "5.14"}
    Versions <- CudaVersions
    Kinds <- VersionObjects
    Modules <- VersionModules
    Dockerfiles <- VersionFiles
    Builds <- VersionPairs
    DockerfileOf <- CmNames
    ModuleOf <- KmmNames
    Labels <- GdrLabels
    OpenShift = TRUE
    FaultyCalls <- CheckedCalls
    LateEvents = {}
    MaxBorn = 1
    MaxFaults = 0
    MaxChildDeletes = 0
    MaxCrashes = 0
    MaxNodeChanges = 1
    MaxBackOff = 1

SPECIFICATION Spec
CHECK_DEADLOCK FALSE
SYMMETRY Symmetry
INVARIANTS
    CudaDriversDetected
