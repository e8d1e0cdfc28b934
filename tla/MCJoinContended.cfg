SPECIFICATION JoinSpec
CONSTANTS
    t1 = t1
    t2 = t2
    none = none
    NoTask = none
    Tasks <- MCTasks
    Calls <- MCMixed
    EarlyEvents = FALSE
    MaxTries = 0
PROPERTY ConnectReturns
