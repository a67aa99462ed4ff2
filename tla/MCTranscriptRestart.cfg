SPECIFICATION Spec
CONSTANTS
    p1 = p1
    p2 = p2
    w1 = w1
    w2 = w2
    w3 = w3
    NoWriter = NoWriter
    Procs = {p1}
    Writers = {w1, w2}
    Home <- SingleHome
    Payloads = {"served", "miss"}
    RemoveOnStart = FALSE
    MaxEntries = 2
    MaxStarts = 2
    MaxFaults = 0
INVARIANTS
    FileVerifies
