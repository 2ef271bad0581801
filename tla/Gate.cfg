SPECIFICATION FairSpec
CONSTANTS
    c1 = c1
    c2 = c2
    b1 = b1
    stress = stress
    other = other
    g1 = g1
    g2 = g2
    i1 = i1
    i2 = i2
INVARIANTS TypeOK OneGatePerSource   TailKeepsStressOnly
PROPERTIES GateCloses
CHECK_DEADLOCK FALSE
