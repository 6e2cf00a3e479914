SPECIFICATION ThreadSpec
CONSTANTS
    Threads = {creator, t1}
    Creator = creator
    Owner = io
    Channels = {c1, c2}
    Wakeup = wakeupChannel
    NULL = null
    MaxFunctors = 3
INVARIANT TypeOK NoLostWakeup EachOnceInOrder StartedLoopAlive
PROPERTIES QueuePromise FunctorsRun QuitEndsLoop StartReturns JoinReturns
