SPECIFICATION Spec
CONSTANTS
    Addrs = {1, 2}
    MaxTimers = 3
    MaxTime = 3
    MaxQueue = 2
    Intervals = {0, 1}
    OtherThread = TRUE
CHECK_DEADLOCK FALSE
INVARIANTS TypeOK SameTimers OneOwner EarliestArmed
PROPERTIES CallsLegal OnlyCancelledVanish
