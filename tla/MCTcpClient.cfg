SPECIFICATION FairSpec
CONSTANTS
    Uses <- AllUses
    Fds = {2, 3}
    MaxOut = 1
    HighWater = 1
CHECK_DEADLOCK FALSE
INVARIANTS TypeOK NoOtherAssertion PollerAgrees
PROPERTIES StopStops ConnectsAgain
