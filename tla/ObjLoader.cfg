SPECIFICATION Spec
CONSTANTS
    Loaders = {"1", "2", "3", "4_2", "4_3"}
    Objects <- MCObjects
    page_size = 32
    TextBase = 64
    MyPuts = 228
    W16 = 8
    W32 = 1024
INVARIANTS
    ReferencesResolve
    NoFault
