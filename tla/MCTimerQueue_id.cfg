SPECIFICATION Spec
CONSTANTS
    Addrs = {1, 2}
    MaxTimers = 1
    MaxTime = 2
    MaxQueue = 1
    Intervals = {0}
    OtherThread = TRUE
CHECK_DEADLOCK FALSE
INVARIANT IdOfLiveTimer
