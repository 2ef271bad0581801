SPECIFICATION MCSpec
CONSTANTS
    w1 = w1
    d1 = d1
PROPERTIES ControlLoopsServe WorkerLoopsServe 
CHECK_DEADLOCK FALSE
