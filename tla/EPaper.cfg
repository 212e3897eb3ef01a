SPECIFICATION FairSpec
CONSTANTS
    None = None
    Reqs = {r1, r2}
    Sessions = {s1, s2}
    MaxWeather = 1
    MaxFaults = 1
INVARIANTS
    SessionOwned
    NotModifiedMeansShown
PROPERTY
    PanelCatchesUp
CHECK_DEADLOCK FALSE
