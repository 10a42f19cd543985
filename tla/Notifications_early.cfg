CONSTANTS
    Jobs = {j1, j2}
    Senders = {s1, s2}
    Destinations = {a}
    NoDestination = NoDestination
    MaxTries = 2
    MaxMishaps = 1
SPECIFICATION Spec
INVARIANT NeverEarly
SYMMETRY Symmetry
CHECK_DEADLOCK FALSE
