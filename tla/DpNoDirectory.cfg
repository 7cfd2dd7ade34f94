CONSTANTS
    d0 = d0
    d1 = d1
    Devices = {d0, d1}
    DirAlways = FALSE
    MaxKubeletStops = 0
    MaxSignals = 0
    MaxDeviceChanges = 2
    MaxTimeouts = 0

SPECIFICATION FairSpec
CHECK_DEADLOCK FALSE
PROPERTIES
    Advertised
