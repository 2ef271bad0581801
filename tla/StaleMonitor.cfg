CONSTANTS
    d1 = d1
    Targets = {d1}
    MaxRuns = 1
    MaxMachines = 1
    MaxVolumes = 1
    MaxCrashes = 0
    Ops = {"create", "destroy", "report", "stale"}
    Legacy = FALSE
    LateCreates = FALSE
    StaleLists = FALSE
    LateReports = TRUE
SPECIFICATION Spec
PROPERTY NoResurrection
