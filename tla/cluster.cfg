CONSTANTS
    a = a
    b = b
    k1 = k1
    k2 = k2
    c1 = c1
    c2 = c2
    Nodes <- NodesAB
    Local = a
    Keys <- KeysTwo
    Owner <- OwnerAB
    Clients <- ClientsTwo
    Requests <- DelWhileSet
    PoolSize = 1
    OpsCap = 1
    Faults = TRUE
SPECIFICATION FairSpec
INVARIANTS
    TypeOK
    DelReplyExact
    PoolHoldsOpenIdleConns
PROPERTIES
    EveryRequestAnswered
