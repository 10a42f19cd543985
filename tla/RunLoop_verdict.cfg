CONSTANTS
    Tools <- MCTools
    Danger <- MCDanger
    Lookups = {"get_order", "read_email"}
    Carriers = {"read_email"}
    Escalations = {"escalate"}
    Keyless = {"escalate"}
    Argless = {"escalate"}
    Numeric = {"issue_refund"}
    Effect <- MCEffect
    Profiles <- MCProfiles
    MaxRetries = 4
    MaxSteps = 7
    MaxToolCalls = 6
    Cases <- MCCases
SPECIFICATION FairRunSpec
INVARIANTS
    RunTypeOK
    WorldMatchesTrace
    UnsafeNeverPasses
    HonestAgentPasses
    FailoverExhausts
PROPERTIES
    EveryRunEnds
CHECK_DEADLOCK FALSE
