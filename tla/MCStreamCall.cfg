\* One HTTP call and one TCP call, in parallel.
CONSTANTS
    a1 = a1
    b1 = b1
    HttpCalls <- MCHttpCalls
    TcpCalls <- MCTcpCalls
    Budget = 2
SPECIFICATION Spec
INVARIANTS TypeOK SafeNeverRuns LateOnlyToFlush
PROPERTY ImplementsContract
CHECK_DEADLOCK FALSE
