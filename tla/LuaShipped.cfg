SPECIFICATION FairSpec
CONSTANTS
    Callers = {"w1", "w2"}
    Threshold = 2
    Scenarios <- MCShipped
PROPERTY EveryHookReturns
CHECK_DEADLOCK FALSE
