CONSTANTS
    Jobs = {j1, j2}
    Senders = {s1, s2}
    Destinations = {a, b}
    NoDestination = NoDestination
    MaxTries = 2
    MaxMishaps = 1
SPECIFICATION FairSpec
INVARIANTS
    TypeOK
    EarlyOnlyByRerun
    OneEmail
    SentIsDelivered
    PostsLimited
PROPERTIES
    CompletionAnnounced
    DeliveryConcluded
CHECK_DEADLOCK FALSE
