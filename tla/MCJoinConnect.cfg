SPECIFICATION JoinSpec
CONSTANTS
    t1 = t1
    t2 = t2
    none = none
    NoTask = none
    Tasks <- MCTask
    Calls <- MCConnect
    EarlyEvents = FALSE
    MaxTries = 5
INVARIANTS JoinTypeOK FailureReported
PROPERTIES SuccessMeansJoined TimeoutMeansNotJoined ReadyMeansConnected
           FreedOnlyInWindow DhcpReturns
