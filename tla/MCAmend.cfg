SPECIFICATION FairSpec
CONSTANTS
    k1 = k1
    k2 = k2
    k3 = k3
    k4 = k4
    b1 = b1
    b2 = b2
    b3 = b3
    b4 = b4
    p1 = p1
    p2 = p2
    Procs = {p1}
    Keys = {k1, k2, k3, k4}
    BadKeys = {k3}
    Wheels = {k1, k2}
    Blobs = {b1, b2, b3, b4}
    Malformed = {b3}
    Requires <- Requirements
    Asks <- KeyLists
    Expect <- Published
    InitialFile <- OnePin
    NoPin = NoPin
    Absent = Absent
    Broken = Broken
    MaxRuns = 3
    MaxKills = 1
INVARIANTS
    TypeOK
    PinsAreKept
    NothingSmuggled
    ClosedOnSuccess
PROPERTIES
    EveryRunEnds
