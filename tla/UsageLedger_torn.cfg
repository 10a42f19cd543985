CONSTANTS
    Keys = {k1, k2}
    NoKey = NoKey
    Requests = {q1, q2}
    Included = 3
    MaxUnits = 2
    Timings = {"torn"}
    MaxDeletes = 0
    MaxPeriods = 0
SPECIFICATION Spec
INVARIANT QuotaKept
CHECK_DEADLOCK FALSE
