SPECIFICATION Spec
CONSTANTS
    Writers = {w1}
    Settings <- FewSettings
    Sec = 8
    MaxTime = 12
INVARIANT NoTimerAfterFree
CHECK_DEADLOCK FALSE
