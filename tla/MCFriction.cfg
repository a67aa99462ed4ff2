SPECIFICATION FairSpec
CONSTANTS
    app = app
    lib = lib
    core = core
    build = build
    test = test
    util = util
    Keys = {app, lib, core, build, test, util}
    Requires <- Needs
    Roots <- Manifest
    Seed = {app}
    MAX_RUNS = 8
    MaxFaults = 4
INVARIANTS
    TypeOK
    ReportMatchesTranscript
    SameLockfile
    RunsAreBounded
    VerifiedWorkloadIsGreen
PROPERTIES
    CleanExperimentVerifies
    ExperimentEnds
