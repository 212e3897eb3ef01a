SPECIFICATION FairSpec
CONSTANTS
    Tests <- MCTests
    Noise <- MCNoise
    Cells <- MCCells
    Cell <- MCCell
    Locations <- MCCells
    Origin = 0
    Middle = 2
    COVER_SIZE = 6
    RingCap = 2
    MaxRuns = 3
    MaxLog = 5
    MaxLate = 1
    Options <- MCOptions
INVARIANTS
    LockStep
    MapIsTheTest
    CrashBlamed
    CrashIsolated
PROPERTIES
    Answered
CHECK_DEADLOCK FALSE
