SPECIFICATION ScanSpec
CONSTANTS
    t1 = t1
    t2 = t2
    a = a
    b = b
    c = c
    d = d
    none = none
    NoTask = none
    NoBssid = none
    Tasks <- MCTasks
    Bssids <- MCTwoBssids
    Signals <- MCTwoSignals
    Max = 1
    Polls = 2
    Preemptible = TRUE
PROPERTY WaitEnds
