SPECIFICATION Spec
CONSTANTS
    p1 = p1
    p2 = p2
    s1 = s1
    s2 = s2
    e1 = e1
    e2 = e2
    g1 = g1
    g2 = g2
    k1 = k1
    m1 = m1
    r1 = r1
    Actors = {a1, a2}
    Repositories = {r1}
    Workloads = {k1}
    Targets = {m1}
    Projects = {p1, p2}
    Services = {s1, s2}
    Environments = {e1, e2}
    Teams = {g1, g2}
    Home <- Homes
    TeamOf <- Owners
    Hint <- Names
    RepositoryRequests <- ForRepositories
    ResourceRequests <- ForResources
    Ingestions <- Said
    Keep = Keep
    Null = Null
    MaxRequests = 5
SYMMETRY Interchangeable
INVARIANTS
    TypeOK
    DecidedMappingsStay
CHECK_DEADLOCK FALSE
