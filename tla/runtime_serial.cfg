SPECIFICATION FairSpec
CONSTANTS
    Workers = {w1}
    Requests = {r1}
    Backend = "simulated"
    SignalSource = "simulated"
    AutoAdvance = TRUE
    ApprovalRequired = TRUE
    SignalsRequired = TRUE
    Policy <- PatientPolicy
    InitialModes = {"active_control"}
    OperatorActions = {"approve", "pause", "resume", "continue", "rollback", "fail"}
    Reports <- NoReports
    Signals <- AllSignals
    RequestKinds = {"advance", "ingest", "reconcile"}
    Serial = TRUE
    MaxDisturbances = 6
    MaxSnapshots = 3
    MaxResults = 3
INVARIANTS
    NoRepeatedVerdict
    PatienceIsBounded
PROPERTIES
    ImplementsContract
    CriticalSignalIsHeeded
