SPECIFICATION Spec
CONSTANTS
    Kinds = {"naive", "naive-avx2", "batch-avx2", "short-avx2", "short-inv", "short-inv-avx2"}
    DIM = 4
    MIXER_SIZE = 2
    SIMD = 2
    LANE_SIZE = 2
    BATCH_SIZE = 2
    BYTES = 4
    UINT16 = 16
    UINT32 = 256
    Files <- MCFiles
    Inputs <- MCInputs
    Thresholds <- MCThresholds
INVARIANTS
    MatchesTestVector
    EveryLineAnswered
CHECK_DEADLOCK FALSE
