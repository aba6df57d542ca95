CONSTANTS
    t1 = t1
    t2 = t2
    t3 = t3
    e1 = e1
    e2 = e2
    Task = {t1, t2, t3}
    Root = t3
    Deps <- JoinDeps
    LocalTask = {t3}
    TrivialTask = {t3}
    Executor = {e1}
    Local = Local
    MaxMissed = 1
    CpuCount = 2
    SpeculativeTask = {}
    MaxRetry = 1
    MaxFail = 1
    StopOnFailure = FALSE
    FlakyTask = {t1}
    Faulty = {}
    LateExit = FALSE
    LowChoices = {TRUE, FALSE}

SPECIFICATION FairSpec

INVARIANTS
    TypeOK
    NoPhantomWork
    FailureHasCause

PROPERTIES
    ImplementsJob
    JobEnds
    ExecutorsLeave
