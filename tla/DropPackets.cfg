SPECIFICATION Spec
CONSTANTS
    Loops = {"recv", "recvmmsg", "trunc", "busypoll", "bpf", "ebpf"}
    Lengths = {0, 1, 3}
    MTU_SIZE = 2
    MAX_MSG = 2
    QueueLen = 3
    MaxPackets = 5
    MaxTicks = 2
    Frames <- MCFrames
    Slots = 3
    NmFrames <- MCNmFrames
    MaxFrames = 4
INVARIANTS
    NothingUncounted
    DropsBenchmark
PROPERTY
    LoopKeepsReceiving
CHECK_DEADLOCK FALSE
