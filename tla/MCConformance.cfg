SPECIFICATION Spec
CONSTANT MaxFaults = 2
INVARIANTS
    TypeOK
    VerifiedMeansTested
    CleanSuiteVerifies
    LinesAreCountedOnce
