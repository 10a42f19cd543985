CONSTANTS
    Runs = {1, 2}
    Executors = {e1, e2}
    NoRun = NoRun
    Modes = {"durable", "sync"}
    MaxAttempts = 2
    Concurrency = 1
    MaxTurns = 1
    MaxCrashes = 0
    MaxCancels = 1
    MaxDeletes = 1
    TimelyLease = FALSE
    AtomicRequests = FALSE
SPECIFICATION Spec
INVARIANTS
    UnitsConserved
    EndedIsAccounted
CONSTRAINT CancelOnlyDurable
VIEW WithoutTraces
SYMMETRY Symmetry
CHECK_DEADLOCK FALSE
