CONSTANTS
    p1 = p1
    p2 = p2
    Pods = {p1, p2}
    NoPod = NoPod
    Majors = {1, 2}
    MaxLoads = 2
    MaxFaults = 3

SPECIFICATION FairSpec
CHECK_DEADLOCK FALSE
INVARIANTS
    TypeOK
    FileHasOneOwner
    FileIsFresh
    ReportIsCurrent
PROPERTIES
    Advertised
