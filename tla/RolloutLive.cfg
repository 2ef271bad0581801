SPECIFICATION FairSpec
CONSTANTS
    w1 = w1
    w2 = w2
    v1 = v1
    v2 = v2
    i1 = i1
    i2 = i2
    l1 = l1
    Workers = {w1}
    Managed = {w1}
    Versions = {v1}
    Loads = {l1}
    Images = {i1}
    Kind = "main"
    Features = {"reconcile", "build"}
    MaxRows = 2
    MaxRecords = 2
    MaxFailures = 1
    MaxCrashes = 1
    MaxFaults = 1
INVARIANT PendingUntilServed
 
CHECK_DEADLOCK FALSE
