\* The safety of fallback, with every behaviour of two backends, and the answer
\* to every request.
CONSTANTS
    b = b
    c = c
    r1 = r1
    r2 = r2
    r3 = r3
    none = none
    Services <- MCServices
    Operations <- MCOperations
    Versions <- MCVersions
    Requests <- MCRequests
    Asks <- MCAsks
    Capable <- MCCapable
    Served <- MCServed
    ActiveVersion <- MCActiveVersion
    DefaultPriority <- MCDefaultPriority
    OperationPriority <- MCOperationPriority
    IdOrder <- MCIdOrder
    AdapterCodes <- MCAdapterCodes
    MaxBudget = 1
    Nothing = none
    FailureThreshold = 1
    RecoveryTime = 1
SPECIFICATION FairSpec
INVARIANTS NoDuplicateExecution SuccessNamesTheRunner RefusedNeverRuns InFlightCounts RouteInv
PROPERTIES ImplementsContract EveryRequestAnswered
