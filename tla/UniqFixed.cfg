SPECIFICATION Spec
CONSTANTS
    Cells = {"a", "b"}
    NL = "n"
    Zero = "z"
    BUF_SZ = 3
    Inputs <- MCInputs
    MaxInput = 6
    HashMod = 8
    OVERFLOW_AFTER = 2
    HashOf <- MCHash
    GlobalSizes = {0, 1, 2, 3}
    Ks = {0, 3, 5, 13}
    BloomMask = 15
    WORD = 4
    SipState <- MCSipState
    Swap <- MCSwap
INVARIANTS
    EveryLineOnce
    OverflowExact
    RoomForEstimate
    NoStaleHash
    WrittenIffUncovered
