CONSTANTS
    Runs = {1}
    Executors = {e1, e2}
    NoRun = NoRun
    Modes = {"durable"}
    MaxAttempts = 3
    Concurrency = 1
    MaxTurns = 1
    MaxCrashes = 3
    MaxCancels = 0
    MaxDeletes = 0
    TimelyLease = TRUE
    AtomicRequests = TRUE
SPECIFICATION FairSpec
PROPERTIES
    ExpiredLeaseReclaimed
CHECK_DEADLOCK FALSE
