SPECIFICATION Spec
CONSTANTS
    p1 = p1
    p2 = p2
    t1 = t1
    t2 = t2
    s1 = s1
    s2 = s2
    e1 = e1
    e2 = e2
    A = A
    B = B
    Actors = {a1, a2}
    Projects = {p1, p2}
    Teams = {t1, t2}
    Services = {s1, s2}
    Environments = {e1, e2}
    Changes = {c1}
    Slugs = {A, B}
    Standing <- Standing0
    Null = Null
    MaxRequests = 3
SYMMETRY Interchangeable
INVARIANTS
    TypeOK
    ArchiveHolds
    TrailFollowsWrites
CHECK_DEADLOCK FALSE
