CONSTANTS
    t1 = t1
    t2 = t2
    t3 = t3
    e1 = e1
    Task = {t1, t2, t3}
    Root = t3
    Deps <- LongChainDeps
    LocalTask = {t1, t3}
    TrivialTask = {t3}
    Executor = {e1}
    Local = Local
    MaxMissed = 1
    CpuCount = 1
    SpeculativeTask = {t2}
    MaxRetry = 1
    MaxFail = 0
    StopOnFailure = FALSE
    FlakyTask = {t2, t3}
    Faulty = {}
    LateExit = FALSE
    LowChoices = {FALSE}
    MaxDeaths = 1

SPECIFICATION RecoverySpec

INVARIANTS
    NothingForgotten
    AttemptsAreNew
    DependenciesFirst
    LocalAlive
