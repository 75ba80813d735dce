SPECIFICATION Spec
CONSTANTS
    Callers <- MCCallers
    Calls <- AllCalls
    FdSlots = {s1, s2}
    MAX_OPEN = 3
    MAX_PIPES = 1
    MaxLost = 3
    capacity = 2
    MaxPid = 4
    Codes <- MCCodes
    Pids <- MCPids
    slots = 2
    NFRAMES = 11
    Usable = {8, 11}
    MmPids = {1, 2}
    StoreVas = {4}
    DmaRuns = {2}
    BrkTargets = {4, 6}
    Images = {"sh", "corrupt"}
    Execs <- MCExecs
    GROW_CHUNK = 3
    PAGE = 2
    Available = 4
    MaxSize = 4
    APS = 2
    HAMMER_ITERS = 1
    POSTS_PER_CORE = 1
    TARGET_TICKS = 1
    TASKS_PER_CORE = 2
    ITERS = 1
    QUEUE_CAP = 2
    GiveUps = TRUE
    Parts = {"memory"}
INVARIANT CallerKeepsPages
