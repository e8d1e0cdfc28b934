SPECIFICATION ScanSpec
CONSTANTS
    t1 = t1
    t2 = t2
    a = a
    b = b
    c = c
    d = d
    none = none
    NoTask = none
    NoBssid = none
    Tasks <- MCTask
    Bssids <- MCBssids
    Signals <- MCSignals
    Max = 3
    Polls = 2
    Preemptible = FALSE
INVARIANTS ScanTypeOK ListOrdered NoAlias Strongest NoUseAfterFree
PROPERTY ScanCompletes
