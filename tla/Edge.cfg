SPECIFICATION EdgeSpec
CONSTANTS
    Conns = {c1, c2}
    Endpoints = {e1, e2}
    Menus <- GateMenus
    MaxSeq = 1
    MaxSessions = 2
    Burst = 1
    FailThreshold = 2
    OpenFor = 1
    RetryBudget = 2
    BudgetWindow = 2
    QMax = 3
    PreMax = 1
    BackoffBase = 1
    BackoffMax = 1
    BindAttempts = 2
    TicketTtl = 1
    FailWindow = 1
    FailLimit = 2
    MaxCharges = 4
    BlockFor = 2
    g1 = g1
    g2 = g2
    c1 = c1
    c2 = c2
    b1 = b1
    b2 = b2
    NoServer = NoServer
INVARIANTS SessionsFollowClients InOrderToBackend NoStalledWrite SequencedOnce
PROPERTIES BindingsRespected KeepsBeingServed
CHECK_DEADLOCK FALSE
