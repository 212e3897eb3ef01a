SPECIFICATION FairSpec
CONSTANTS
    Conns = {1, 2}
    NoConn = 0
    Payloads <- MCPayloads
    MaxFiles = 2
    MaxFaults = 1
INVARIANTS
    RightServer
    NothingKept
PROPERTY
    EveryoneServed
CHECK_DEADLOCK FALSE
