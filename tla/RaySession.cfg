CONSTANTS
    Inputs <- PairInputs
    Width <- PairWidth
    Plan <- PairPlan
    Programs <- Growing
    Editable = {1}
    FlakyNode = {2}
    MaxRetry = 1
    MaxEdits = 1

SPECIFICATION Spec

INVARIANTS
    ResultIsCurrent
    AttemptsApart

