SPECIFICATION FairSpec
CONSTANTS
    w1 = w1
    w2 = w2
    v1 = v1
    v2 = v2
    i1 = i1
    i2 = i2
    l1 = l1
    Workers = {w1}
    Managed = {w1}
    Versions = {v1, v2}
    Loads = {}
    Images = {i1}
    Kind = "pr"
    Features = {"reconcile", "stop"}
    MaxRows = 2
    MaxRecords = 2
    MaxFailures = 2
    MaxCrashes = 0
    MaxFaults = 2
PROPERTIES PendingResolved
CHECK_DEADLOCK FALSE
