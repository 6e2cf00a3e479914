SPECIFICATION Spec
CONSTANTS
    Streams <- SomeStreams
    kCheapPrepend = 1
    kInitialSize = 4
    ExtraSize = 3
    NUL = "NUL"
CHECK_DEADLOCK FALSE
INVARIANTS TypeOK BytesKept AnswersAsAsked
