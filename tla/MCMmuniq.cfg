SPECIFICATION Spec
CONSTANTS
    HashMod = 8
    OVERFLOW_AFTER = 2
    Cells = {"a", "b"}
    NL = "n"
    Zero = "z"
    HashOf <- MCHash
    BUF_SZ = 3
    C_LINE_SZ = 2
    InitMask = 0
    FillNum = 1
    FillDen = 4
    Inputs <- MCInputs
    MaxInput = 5
INVARIANTS
    TypeOK
    ProbeChains
    DuplicateOnlyAfterLoss
    NoSilentSuppression
    BatchSafe
    StreamIntegrity
PROPERTIES
    FilterSpec
    Terminates
