SPECIFICATION Spec
CONSTANTS
    capacity = 8
    MaxPid = 4
    MAX_THREADS = 5
    Codes <- MCCodes
    Calls = {"exit", "fork", "wait", "reap_nohang", "exec"}
    Signals = {}
INVARIANT
    ProcsSound
PROPERTY
    WaitAnswers
