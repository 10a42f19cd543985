CONSTANTS
    Runs = {1, 2}
    Executors = {e1, e2}
    NoRun = NoRun
    Modes = {"durable"}
    MaxAttempts = 3
    Concurrency = 1
    MaxTurns = 1
    MaxCrashes = 0
    MaxCancels = 0
    MaxDeletes = 0
    TimelyLease = FALSE
    AtomicRequests = TRUE
SPECIFICATION Spec
INVARIANTS
    SettledOnce
SYMMETRY Symmetry
CHECK_DEADLOCK FALSE
