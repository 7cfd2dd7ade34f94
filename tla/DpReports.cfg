CONSTANTS
    d0 = d0
    d1 = d1
    Devices = {d0, d1}
    DirAlways = TRUE
    MaxKubeletStops = 2
    MaxSignals = 2
    MaxDeviceChanges = 2
    MaxTimeouts = 1

SPECIFICATION FairSpec
CHECK_DEADLOCK FALSE
INVARIANTS
    TypeOK
    RegisteredWhenQuiet
    ReportIsCurrent
PROPERTIES
    Advertised
