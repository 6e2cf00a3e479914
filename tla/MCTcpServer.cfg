SPECIFICATION Spec
CONSTANTS
    Base = base
    l1 = l1
    l2 = l2
    Uses <- CorrectUses
    MaxOut = 2
    HighWater = 2
CHECK_DEADLOCK FALSE
INVARIANTS TypeOK NoAssertionFails ChannelOwned UpThenDown
