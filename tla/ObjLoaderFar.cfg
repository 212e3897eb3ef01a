SPECIFICATION Spec
CONSTANTS
    Loaders = {"4_2", "4_3"}
    Objects <- MCFarObjects
    page_size = 32
    TextBase = 64
    MyPuts = 228
    W16 = 8
    W32 = 1024
INVARIANT ReferencesResolve
