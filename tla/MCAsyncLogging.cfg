SPECIFICATION FairSpec
CONSTANTS
    MaxLines = 9
    Capacity = 2
    Backlog = 3
INVARIANTS TypeOK EnoughToRecycle InOrderOnce
PROPERTIES LinesWritten StopReturns
