SPECIFICATION Spec
CONSTANTS
    Workers = {w1}
    Requests = {r1}
    Backend = "kubernetes"
    SignalSource = "prometheus"
    AutoAdvance = TRUE
    ApprovalRequired = TRUE
    SignalsRequired = FALSE
    Policy <- BudgetPolicy
    InitialModes = {"active_control", "advisory"}
    OperatorActions = {"approve", "pause", "resume", "rollback"}
    Reports <- AnyReports
    Signals <- GoodOrBreaching
    RequestKinds = {"advance", "verify", "ingest", "reconcile", "mode"}
    Serial = FALSE
    MaxDisturbances = 3
    MaxSnapshots = 2
    MaxResults = 2
INVARIANTS
    TypeOK
    MutationsAreDecided
    ApprovalGate
    AdvisoryHandsOff
    TimestampsFollowStatus
    VerdictsAreSupported
