SPECIFICATION RtSpec
CONSTANTS
    Pushers = {p1, p2}
    Workers = {w1, w2}
    Max = 3
    MaxJobs = 5
    s1 = s1
    s2 = s2
    IoThreads = 2
    MaxOps = 2
    MaxNoise = 1
    Threshold = 2
    Addresses = {"x", "y"}
    MaxHosts = 6
CHECK_DEADLOCK FALSE
INVARIANTS NoSleeperAfterStop ReadyIsServing PoolConserved SendQueueMoves AnswersMatch DenyHolds EveryPluginAsked NoVersionMissed
PROPERTIES QueuedJobsRun 
