SPECIFICATION FairSpec
CONSTANTS
    Workers = {w1}
    Requests = {r1}
    Backend = "kubernetes"
    SignalSource = "simulated"
    AutoAdvance = TRUE
    ApprovalRequired = FALSE
    SignalsRequired = TRUE
    Policy <- StrictPolicy
    InitialModes = {"active_control"}
    OperatorActions = {"pause", "resume", "rollback"}
    Reports <- NoReports
    Signals <- OnlyCritical
    RequestKinds = {"advance", "ingest", "reconcile"}
    Serial = FALSE
    MaxDisturbances = 3
    MaxSnapshots = 1
    MaxResults = 2
PROPERTIES
    OperatorDecisionsConverge
