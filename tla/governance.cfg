SPECIFICATION Spec
CONSTANTS
    Actors = {a1, a2}
    Policies = {p1}
    PolicyRows <- Rows
    NewModes = {"block"}
    Changes = {c1}
    Facts <- TheFacts
    Services <- TheServices
    Environments <- TheEnvironments
    Releases = {r1}
    Bundles <- TheBundles
    Configs = TRUE
    Migrating = {}
    Owner = svc
    Null = Null
    MaxRequests = 4
SYMMETRY Interchangeable
INVARIANTS
    TypeOK
    ReviewsPrecedeExecution
    RiskFollowsFacts
PROPERTIES
    StandingPoliciesAreHeeded
    BlockedChangesStayBlocked
CHECK_DEADLOCK FALSE
