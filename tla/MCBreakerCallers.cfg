\* Three callers, any of whom may leave without reporting.
CONSTANTS
    c1 = c1
    c2 = c2
    c3 = c3
    Callers <- MCCallers
    Forgetters <- MCCallers
    FailureThreshold = 3
    RecoveryTime = 2
SPECIFICATION FairSpec
INVARIANTS SingleProbe DecidesByHistory HistoryInv
PROPERTIES ImplementsContract NeverStuck
