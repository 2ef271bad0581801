INIT MCInit
NEXT MCNext
CONSTANTS
    w1 = w1
    w2 = w2
    a1 = a1
    a2 = a2
INVARIANTS SafeToDestroy EvidenceExact ExactlyOnce VerdictsProven AnswersCurrent
PROPERTIES  NeverBackwards
CHECK_DEADLOCK FALSE
