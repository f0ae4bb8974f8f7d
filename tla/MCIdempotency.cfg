SPECIFICATION FairStoreSpec
CONSTANTS
    r1 = r1
    r2 = r2
    other = other
    Requests <- MCRequests
    HashOf <- MCHashOf
    Nothing = Nothing
    MaxFailures = 2
INVARIANTS
    OnceUnlessExcused
PROPERTIES
    StoredAnswerIsFinal
    WaitsEnd
CHECK_DEADLOCK FALSE
