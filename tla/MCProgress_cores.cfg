SPECIFICATION Spec
CONSTANTS
    Attached <- MCAttached
    MAX_DEVICES = 2
    PageCounts = {7, 21}
    MaxLate = 12
    PIPE_CAP = 4
    MaxLen = 2
    Total = 7
    Shells <- MCShells
    Fails = {0}
    CAP = 2
    MaxWrites = 3
    APS = 2
    HAMMER_ITERS = 1
    POSTS_PER_CORE = 1
    TARGET_TICKS = 1
    TASKS_PER_CORE = 2
    ITERS = 1
    QUEUE_CAP = 2
    GiveUps = FALSE
    WORKERS_PER_CORE = 3
    WORK_ROUNDS = 1
    MAILBOX_CAP = 6
    BYTES = 2
    Segments <- MCSegments
    MaxDigit = 4
    ARM_TICKS = 2
    PP_MAX_ROUNDS = 2
    ROUNDS_PER_WORKER = 2
    Pids <- TwoPids
    slots = 1
    Sectors = {s1}
    Statuses = {0, 1}
    Values = {v0}
    Parts = {"smp"}
PROPERTY BringUpEnds
CHECK_DEADLOCK FALSE
