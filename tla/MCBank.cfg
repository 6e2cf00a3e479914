SPECIFICATION FairSpec
CONSTANTS
    Sessions = {s1, s2}
    NoOne = noOne
    Opening <- SomeBalances
    FirstPass = "first"
    PageSize = 1
    MaxId = 5
    Requests <- SomeRequests
    MaxRequests = 3
CHECK_DEADLOCK FALSE
INVARIANTS TypeOK Books
PROPERTIES NoMoneyIntoClosed Ends
