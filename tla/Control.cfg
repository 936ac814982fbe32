SPECIFICATION FairSpec
CONSTANTS
    None = none
    Commands = {c1, c2}
    a = a
    b = b
    bad = bad
    Servers = {1, 2}
    Selectors = {{1, 2}}
    ForceFailWave = 0
    MaxSkew = 0
    ExtTime = 1
    MaxFaults = 1
    s1 = s1
    s2 = s2
    user1 = user1
    host1 = host1
    Workers = {w1, w2}
    Values = {1, 3}
    MinSetting = 1
    MaxRecent = 3
    MaxList = 4
    Ttl = 1
    FutureSkew = 1
    Ahead = 1
    MuteLen = 1
    BanLen = 2
    Window = 1
    Threshold = 1
    BanViolations = 2
    QueueMax = 2
    MaxTime = 3
    MaxOps = 4
INVARIANTS ExclusiveGroups StoreFollows AppliedOnce BannedAreLeaving
PROPERTIES CommandSettles PenaltyStands
CHECK_DEADLOCK FALSE
