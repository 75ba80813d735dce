SPECIFICATION Spec
CONSTANTS
    Attached <- MCAttached
    MAX_DEVICES = 2
    PageCounts = {7, 13, 21}
    MaxLate = 1
    RING_TRBS = 4
    MaxOutstanding = 2
    MaxTrbs = 10
    QSIZE = 2
    NUM_RX_BUFS = 2
    IDX_MOD = 4
    MaxFrames = 6
    MaxSends = 5
    Present = {TRUE, FALSE}
    LastDay = 11687
    UPDATES_PER_CALL = 1
    NSLOTS = 2
    MaxJobPid = 3
    MaxId = 3
    MaxTokens = 5
    SERVER_SLOTS = 1
    Peers = {"p", "r"}
    ServerPeer = "q"
    SEQ_MOD = 2
    TcpSegs <- MCTcpSegs
    Datagrams = {"a", "b", "c", "d"}
    Length <- MCLength
    PeerChunks = {2, 4}
    UNIT = 2
    MTU = 5
    REASM_MAX = 8
    Parts = {"jobs"}
INVARIANT JobHasChild
