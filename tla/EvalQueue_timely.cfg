CONSTANTS
    Runs = {1, 2}
    Executors = {e1, e2}
    NoRun = NoRun
    Modes = {"durable", "sync", "background"}
    MaxAttempts = 2
    Concurrency = 1
    MaxTurns = 2
    MaxCrashes = 1
    MaxCancels = 1
    MaxDeletes = 1
    TimelyLease = TRUE
    AtomicRequests = TRUE
SPECIFICATION FairSpec
INVARIANTS
    TypeOK
    PlanConcurrency
    SettledOnce
    HeldUnitsMatchOpenJobs
    ExclusiveExecution
    CleanTrace
    QueuedCanRun
PROPERTIES
    EndIsFinal
    EveryJobEnds
CHECK_DEADLOCK FALSE
