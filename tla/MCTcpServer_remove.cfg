SPECIFICATION Spec
CONSTANTS
    Base = base
    l1 = l1
    l2 = l2
    Uses <- DestroyUses
    MaxOut = 2
    HighWater = 2
CHECK_DEADLOCK FALSE
INVARIANT RemoveSeesNoEvents
