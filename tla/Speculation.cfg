CONSTANTS
    t1 = t1
    t2 = t2
    t3 = t3
    e1 = e1
    e2 = e2
    Task = {t1}
    Root = t1
    Deps <- OneDeps
    LocalTask = {}
    TrivialTask = {}
    Executor = {e1, e2}
    Local = Local
    MaxMissed = 1
    CpuCount = 1
    SpeculativeTask = {t1}
    MaxRetry = 1
    MaxFail = 0
    StopOnFailure = FALSE
    FlakyTask = {}
    Faulty = {}
    LateExit = FALSE
    LowChoices = {FALSE}

SPECIFICATION Spec

INVARIANTS
    OneSuccess
    DispatchedOnce

PROPERTIES
    SuccessIsFinal

SYMMETRY ExecSymmetry
