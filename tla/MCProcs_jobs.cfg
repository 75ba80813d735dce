SPECIFICATION Spec
CONSTANTS
    capacity = 8
    MaxPid = 4
    MAX_THREADS = 4
    Codes <- MCCodes
    Calls = {"exit", "fork", "wait", "kill"}
    Signals = {2, 18, 20}
INVARIANT
    ProcsSound
PROPERTY
    OnlyContResumes
