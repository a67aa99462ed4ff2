SPECIFICATION Spec
CONSTANTS
    shared = shared
    a1 = a1
    a2 = a2
    a3 = a3
    b1 = b1
    b2 = b2
    b3 = b3
    b4 = b4
    NoKey = NoKey
    NoReport = NoReport
    Keys = {shared, a1, a2, a3, b1, b2, b3, b4}
    Entries <- Lockfiles
    Quota <- Quotas
    Configs <- TenantLists
    Shared = shared
    Wanted <- WantedByAlpha
    Foreign <- OthersKey
    Task <- BetaTask
    MaxRuns = 2
    MaxFaults = 3
INVARIANTS
    TypeOK
    CleanTenancyVerifies
    VerifiedMeansIsolated
    QuotaPerRun
