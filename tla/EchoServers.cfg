SPECIFICATION FairSpec
CONSTANTS
    Conns = {1, 2}
    NoConn = 0
    BurstSz <- MCBurstSz
    BurstCount = 1
    UP = 2
    DOWN = 1
    MaxMishaps = 1
    Kinds = {"naive", "splice", "iosubmit", "sockmap"}
    BUFFER_SIZE = 2
    SPLICE_MAX = 2
    MaxPipes = 2
INVARIANTS
    Conservation
    PrintedWhenReflected
    ServerSurvives
    OrderKept
PROPERTIES
    PromiseSpec
    ClientsFinish
CHECK_DEADLOCK FALSE
