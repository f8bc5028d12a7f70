SPECIFICATION FairSpec
CONSTANTS
    EventCount = 2
    Dispatchers = {d1, d2}
    Operators = {o1}
    Limit = 2
    MaxAttempts = 2
    MaxDisturbances = 3
INVARIANTS
    TypeOK
    ClaimMatchesStatus
    ClaimIsExclusive
    ProcessedWasDelivered
PROPERTIES
    SettledStaysSettled
    EventuallySettled
CHECK_DEADLOCK FALSE
