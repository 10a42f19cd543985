CONSTANTS
    PaidPlans = {"starter", "team"}
    Handlers = {h1}
    Period = 1
    Bounds <- TrialBounds
    Persons = {founder, ann}
    Founder = founder
    Roles = {"admin", "member"}
    Seats <- MCSeats
    Spaces <- MCSpaces
    InviteLife = 1
SPECIFICATION OrgSpec
INVARIANTS
    TrialOncePerPerson
CHECK_DEADLOCK FALSE
