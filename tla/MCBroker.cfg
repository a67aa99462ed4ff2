SPECIFICATION Spec
CONSTANTS
    k1 = k1
    k2 = k2
    b1 = b1
    b2 = b2
    t1 = t1
    t2 = t2
    NoKey = NoKey
    NoPin = NoPin
    NoData = NoData
    NoLockfile = NoLockfile
    Threads = {t1, t2}
    Keys = {k1, k2}
    Blobs = {b1, b2}
    Lockfiles <- TwoLockfiles
    InitialLockfile <- Seed
    Gated = TRUE
    NoCache = FALSE
    NotedAtStart = FALSE
    ReloadBetweenRuns = FALSE
    MaxRequests = 2
    MaxReloads = 2
    MaxFaults = 2
INVARIANTS
    TypeOK
    ServedBytesArePinned
    AnswersHaveEvidence
    RequestsHaveOneVerdict
    AttemptsHaveEvidence
PROPERTIES
    CacheIsStable
    ImplementsPromise
SYMMETRY ThreadSymmetry
