CONSTANTS
    PaidPlans = {"starter", "team"}
    Handlers = {h1, h2}
    Period = 1
    Bounds <- MCBounds
    Persons = {founder, ann}
    Founder = founder
    Roles = {"admin", "member"}
    Seats <- MCSeats
    Spaces <- MCSpaces
    InviteLife = 1
SPECIFICATION FairSpec
INVARIANTS
    OrgTypeOK
    NewestKept
    NoFreePlan
    OnePeriodPerPayment
    PaidPlanHonoured
    SeatsWithinPlan
    FounderKeepsOrganization
PROPERTIES
    EventsProcessed
CHECK_DEADLOCK FALSE
