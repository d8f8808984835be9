\* The monitor and one caller of GET /status over two backends.
CONSTANTS
    h1 = h1
    h2 = h2
    c1 = c1
    Backends <- MCBackends
    Callers <- MCCallers
    ProbeTimeout = 1
SPECIFICATION FairMonitorSpec
INVARIANT MonitorInv
PROPERTIES WrittenWhileRecent ServesOnOwnFindings EventuallyKnown
