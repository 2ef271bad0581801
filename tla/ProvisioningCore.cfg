CONSTANTS
    d1 = d1
    Targets = {d1}
    MaxRuns = 2
    MaxMachines = 2
    MaxVolumes = 2
    MaxCrashes = 1
    Ops = {"create", "recover", "destroy", "report", "stale"}
    Legacy = TRUE
    LateCreates = TRUE
    StaleLists = TRUE
    LateReports = TRUE
SPECIFICATION Spec
INVARIANTS TypeOK AtMostOneVolume IdentityCoherent
