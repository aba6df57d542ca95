CONSTANTS
    t1 = t1
    t2 = t2
    t3 = t3
    e1 = e1
    e2 = e2
    Task = {t1}
    Root = t1
    Deps <- OneDeps
    LocalTask = {}
    TrivialTask = {}
    Executor = {e1, e2}
    Local = Local
    MaxMissed = 1
    CpuCount = 2
    SpeculativeTask = {}
    MaxRetry = 1
    MaxFail = 1
    StopOnFailure = TRUE
    FlakyTask = {t1}
    Faulty = {e1, e2}
    LateExit = FALSE
    LowChoices = {FALSE}

SPECIFICATION Spec

INVARIANTS
    NothingLost
    NeverStuck

PROPERTIES
    StopIsLast

SYMMETRY ExecSymmetry
