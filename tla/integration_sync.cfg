SPECIFICATION FairSpec
CONSTANTS
    Workers = {w1, w2}
    Handlers = {h1, h2}
    Deliveries = {d1}
    NoDelivery = NoDelivery
    Provider = "github"
    Configurations <- OnOrAdvisory
    Updates <- AllSwitches
    RequestKinds = {"run", "update", "graph", "webhook"}
    MaxDisturbances = 3
INVARIANTS
    TypeOK
    ScheduleIsConsistent
    SyncIsExclusive
    IngestedOnce
PROPERTY
    DueSyncIsRun
CHECK_DEADLOCK FALSE
