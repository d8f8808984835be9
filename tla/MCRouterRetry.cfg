\* Does the breaker that refused a request always admit again?  It does not.
CONSTANTS
    b = b
    c = c
    r1 = r1
    r2 = r2
    r3 = r3
    none = none
    Services <- MCSoloServices
    Operations <- MCSoloOperations
    Versions <- MCVersions
    Requests <- MCSoloRequests
    Asks <- MCSoloAsks
    Capable <- MCSoloCapable
    Served <- MCSoloServed
    ActiveVersion <- MCSoloActiveVersion
    DefaultPriority <- MCSoloDefaultPriority
    OperationPriority <- MCSoloOperationPriority
    IdOrder <- MCSoloIdOrder
    AdapterCodes <- MCAdapterCodes
    MaxBudget = 1
    Nothing = none
    FailureThreshold = 1
    RecoveryTime = 1
SPECIFICATION FairSpec
PROPERTY RetryMayHelp
