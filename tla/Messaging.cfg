SPECIFICATION MsgSpec
CONSTANTS
    Workers = {w1, w2}
    None = none
    Early = {u1}
    u1 = u1
    u2 = u2
    n1 = n1
    n2 = n2
    RecentLimit = 2
    FetchFactor = 2
    MaxListLen = 2
    MaxMessages = 2
    MaxOther = 1
    MaxOps = 4
    NoConn = NoConn
    New = New
    Old = Old
    Window = 2
    MaxInflight = 2
    MaxBytes = 6
    Header = 1
    Payload = 2
    Mtu = 2
    AckDelay = 1
    HandshakeTimeout = 1
    IdleTimeout = 1
    RtoInit = 2
    RtoMin = 1
    RtoMax = 1
    Batch = 1
    Menus <- RudpMenus
SYMMETRY Symmetry
INVARIANTS NoDuplicateFrame AckedWasTaken AgreedConnection NoDoubleDelivery SnapshotSound BlockRespected
CHECK_DEADLOCK FALSE
