SPECIFICATION Spec
CONSTANTS
    Workers = {w1}
    Requests = {r1}
    Backend = "simulated"
    SignalSource = "simulated"
    AutoAdvance = TRUE
    ApprovalRequired = FALSE
    SignalsRequired = TRUE
    Policy <- StrictPolicy
    InitialModes = {"active_control"}
    OperatorActions = {"pause", "rollback"}
    Reports <- NoReports
    Signals <- GoodOrCritical
    RequestKinds = {"advance"}
    Serial = FALSE
    MaxDisturbances = 1
    MaxSnapshots = 1
    MaxResults = 2
PROPERTY
    RuntimeWritesKeepStatus
