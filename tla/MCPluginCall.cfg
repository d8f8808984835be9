\* Two calls, one thread.
CONSTANTS
    p1 = p1
    p2 = p2
    Calls <- MCTwo
    Threads = 1
    Budget = 2
SPECIFICATION FairSpec
INVARIANTS PluginInv OverrunIsTheWait
PROPERTIES ImplementsContract ThreadsRecover
CHECK_DEADLOCK FALSE
