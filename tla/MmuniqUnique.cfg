SPECIFICATION Spec
CONSTANTS
    HashMod = 16
    OVERFLOW_AFTER = 4
    Cells = {"a", "b"}
    NL = "n"
    Zero = "z"
    HashOf <- MCHashNonzero
    BUF_SZ = 3
    C_LINE_SZ = 2
    InitMask = 1
    FillNum = 3
    FillDen = 5
    Inputs <- MCInputs
    MaxInput = 4
INVARIANT WritesUniqueLines
