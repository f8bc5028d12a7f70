SPECIFICATION FairSpec
CONSTANTS
    Workers = {w1}
    Requests = {r1}
    Backend = "kubernetes"
    SignalSource = "simulated"
    AutoAdvance = TRUE
    ApprovalRequired = TRUE
    SignalsRequired = TRUE
    Policy <- StrictPolicy
    InitialModes = {"active_control"}
    OperatorActions = {"approve"}
    Reports <- NoReports
    Signals <- OnlyCritical
    RequestKinds = {"advance"}
    Serial = TRUE
    MaxDisturbances = 1
    MaxSnapshots = 1
    MaxResults = 2
PROPERTIES
    StartedIsSubmitted
