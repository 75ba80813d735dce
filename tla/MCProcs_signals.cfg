SPECIFICATION Spec
CONSTANTS
    capacity = 8
    MaxPid = 2
    MAX_THREADS = 4
    Codes <- MCCodes
    Calls = {"exit", "fork", "wait", "kill", "sigaction", "sigprocmask", "fault", "read_line", "other"}
    Signals = {15}
INVARIANT
    ProcsSound
PROPERTIES
    BlockedStaysPending
    UserModeTakesSignals
