SPECIFICATION FairSpec
CONSTANTS
    Pushers = {p1, p2}
    Workers = {w1, w2}
    Max = 1
    MaxJobs = 5
CHECK_DEADLOCK FALSE
PROPERTIES BlockedPushEnds
