CONSTANTS
    Keys = {k1, k2}
    NoKey = NoKey
    Requests = {q1, q2}
    Included = 3
    MaxUnits = 2
    Timings = {"calm", "late", "torn"}
    MaxDeletes = 1
    MaxPeriods = 1
SPECIFICATION FairSpec
INVARIANTS
    TypeOK
    WithinPlan
    AccountsConserved
    KeyEvaluatedOnce
    CompletedRunsCharged
PROPERTIES
    RefusedOnlyWhenFull
    ImplementsAccount
    HeldUnitsReleased
CHECK_DEADLOCK FALSE
