SPECIFICATION Spec
CONSTANTS
    p1 = p1
    p2 = p2
    w1 = w1
    w2 = w2
    w3 = w3
    NoWriter = NoWriter
    Procs = {p1, p2}
    Writers = {w1, w2, w3}
    Home <- MCHome
    Payloads = {"served", "miss"}
    RemoveOnStart = TRUE
    MaxEntries = 3
    MaxStarts = 3
    MaxFaults = 2
INVARIANTS
    TypeOK
    HonestRunVerifies
    VerifiedMeansComplete
PROPERTIES
    DamageIsPermanent
SYMMETRY WriterSymmetry
