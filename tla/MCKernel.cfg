SPECIFICATION Spec
CONSTANTS
    Callers <- MCCallers
    Calls <- AllCalls
    FdSlots = {s1, s2}
    MAX_OPEN = 3
    MAX_PIPES = 1
    MaxLost = 2
    capacity = 2
    MaxPid = 4
    Codes <- MCCodes
    Pids <- MCPids
    slots = 2
    NFRAMES = 12
    Usable = {12}
    MmPids = {1, 2}
    StoreVas = {4}
    DmaRuns = {4}
    BrkTargets = {4, 6}
    Images = {"sh", "corrupt"}
    Execs <- MCExecs
    GROW_CHUNK = 3
    PAGE = 2
    Available = 4
    MaxSize = 4
    APS = 2
    HAMMER_ITERS = 1
    POSTS_PER_CORE = 1
    TARGET_TICKS = 1
    TASKS_PER_CORE = 2
    ITERS = 1
    QUEUE_CAP = 2
    GiveUps = TRUE
    Parts = {"dispatch", "fds", "table", "slots", "memory", "heap", "smp"}
SYMMETRY SlotSymmetry
INVARIANTS
    DispatchSound
    FdSound
    TableSound
    PoolSound
    MemorySound
    HeapExact
    SmpSound
PROPERTIES
    DeferredIsOwn
    TableHistory
    GrantsInOrder
