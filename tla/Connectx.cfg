SPECIFICATION Spec
CONSTANTS
    Callers = {1, 2}
    IPs = {"l"}
    WILDCARD = "any"
    Remotes = {"r1", "r2"}
    NoPeer = "none"
    Source <- MCSource
    lo = 1
    hi = 3
    skip = {3}
    MaxCalls = 3
INVARIANTS
    Exclusive
    PortsUnlocked
PROPERTIES
    NoSpuriousFailure
CHECK_DEADLOCK FALSE
