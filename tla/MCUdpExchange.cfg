\* Two exchanges over one permit: late answers reach a later exchange.
CONSTANTS
    x1 = x1
    x2 = x2
    Exchanges <- MCTwo
    MaxInFlight = 1
    QueueSize = 1
    Budget = 2
    MinRto = 1
    InitialRto = 1
    MaxRto = 2
    NetSize = 1
SPECIFICATION FairSpec
INVARIANTS TypeOK SamplesUnambiguous PermitsExact AnswersAreOwn
PROPERTY EveryExchangeEnds
CHECK_DEADLOCK FALSE
