CONSTANTS
    K1 = K1
    K2 = K2
    Plans <- SomePlans
    MaxProducers <- Producers
    MaxCard = 8
    NumParallel = 2
    KeyOf <- Keys
    MaxHash = 1
    SkipChoices = {TRUE, FALSE}
    TrimChoices = {TRUE, FALSE}

SPECIFICATION Spec

INVARIANTS
    TypeOK
    RowsKept
    NodesCompute
    LimitHolds
    RightPartition
    EvenParts
    PlanFailureHasReason
    RunFailureHasReason
