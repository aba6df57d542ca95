CONSTANTS
    K1 = K1
    K2 = K2
    Plans <- RowsThenSink
    MaxProducers <- Producers
    MaxCard = 8
    NumParallel = 2
    KeyOf <- Keys
    MaxHash = 1
    SkipChoices = {TRUE, FALSE}
    TrimChoices = {TRUE, FALSE}

SPECIFICATION Spec

INVARIANTS
    NodesCompute
