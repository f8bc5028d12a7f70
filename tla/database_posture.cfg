SPECIFICATION Spec
CONSTANTS
    Operators = {o1, o2}
    Connections = {c1}
    Checks = {k1}
    Changes = {d1}
    Sources = {s1, s2, unbound}
    Unbound = {unbound}
    Unset = {}
    CheckShapes <- AllShapes
    Attested = {"defined", "passed"}
    ChangeFacts <- AllFacts
    Null = Null
    MaxRequests = 4
    TouchesSchema = FALSE
SYMMETRY Interchangeable
INVARIANTS
    TypeOK
    ReadyMeansProbed
    PassedMeansRun
    AdvisoryIsProven
    RiskIsReviewed
CHECK_DEADLOCK FALSE
