SPECIFICATION Spec
CONSTANTS
    t1 = t1
    t2 = t2
    NoThread = NoThread
    Threads = {t1, t2}
    Quota = 2
    Window = 3
    Interval = 1
    MaxTime = 4
    MaxAsks = 4
INVARIANTS
    TranscriptWithinQuota
SYMMETRY ThreadSymmetry
CHECK_DEADLOCK FALSE
