CONSTANTS
    t1 = t1
    t2 = t2
    t3 = t3
    e1 = e1
    Task = {t1, t2, t3}
    Root = t3
    Deps <- LongChainDeps
    LocalTask = {t3}
    TrivialTask = {t3}
    Executor = {e1}
    Local = Local
    MaxMissed = 1
    CpuCount = 1
    SpeculativeTask = {}
    MaxRetry = 1
    MaxFail = 0
    StopOnFailure = FALSE
    FlakyTask = {}
    Faulty = {}
    LateExit = FALSE
    LowChoices = {FALSE}
    MaxDeaths = 1

SPECIFICATION RecoverySpec

INVARIANT NeverStuck
