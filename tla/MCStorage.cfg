SPECIFICATION Spec
CONSTANTS
    Pids <- TwoPids
    slots = 2
    Sectors = {s1}
    Statuses = {0, 1}
    Values = {v0, v1}
    CachePids <- TwoPids
    BlockNos <- TwoBlocks
    Versions <- MCVersions
    CACHE_SLOTS = 2
    Faults = TRUE
    INODE_COUNT = 5
    DATA_BLOCKS = 8
    NDIRECT = 1
    CELLS = 2
    Staged <- MCStaged
    Paths <- MCPaths
    Offsets <- MCOffsets
    Datas <- MCDatas
    MaxOps = 4
    FileLen = 4
    DiskCap = 4
    FLUSH_AT = 2
    REFILL = 2
    MaxItem = 3
    MaxWritten = 5
    MaxJumped = 2
    Parts = {"disk", "cache", "fs", "streams"}
INVARIANTS
    DiskSound
    StructuresSound
    FilesSafe
    StreamsSound
    CacheTransparent
PROPERTIES
    ImplementsSectorStore
