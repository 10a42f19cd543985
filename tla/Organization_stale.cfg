CONSTANTS
    PaidPlans = {"starter", "team"}
    Handlers = {h1, h2}
    Period = 1
    Bounds <- StaleBounds
    Persons = {founder, ann}
    Founder = founder
    Roles = {"admin", "member"}
    Seats <- MCSeats
    Spaces <- MCSpaces
    InviteLife = 1
SPECIFICATION OrgSpec
INVARIANTS
    NewestWins
CHECK_DEADLOCK FALSE
