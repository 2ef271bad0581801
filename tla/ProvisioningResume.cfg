CONSTANTS
    d1 = d1
    Targets = {d1}
    MaxRuns = 3
    MaxMachines = 2
    MaxVolumes = 2
    MaxCrashes = 0
    Ops = {"create", "recover", "destroy", "report", "pause", "resume", "stop", "hold"}
    Legacy = FALSE
    LateCreates = FALSE
    StaleLists = FALSE
    LateReports = FALSE
SPECIFICATION Spec
 
PROPERTY HeldEvidenceKept
