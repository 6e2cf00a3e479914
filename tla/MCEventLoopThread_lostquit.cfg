SPECIFICATION ThreadSpec
CONSTANTS
    Threads = {creator}
    Creator = creator
    Owner = io
    Channels = {c1}
    Wakeup = wakeupChannel
    NULL = null
    MaxFunctors = 2
PROPERTY JoinAlwaysReturns
