CONSTANTS
    d1 = d1
    d2 = d2
    Targets = {d1, d2}
    MaxRuns = 2
    MaxMachines = 2
    MaxVolumes = 2
    MaxCrashes = 1
    Ops = {"create", "recover", "destroy", "replace", "report"}
    Legacy = FALSE
    LateCreates = FALSE
    StaleLists = FALSE
    LateReports = TRUE
SPECIFICATION Spec
SYMMETRY Symmetry
INVARIANT NothingLost
PROPERTIES KeepsLedger 
