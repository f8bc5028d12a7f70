SPECIFICATION Spec
CONSTANTS
    Actors = {a1, a2}
    Users = {u1, u2, u3}
    Emails = {inside, outside}
    AllowedEmails = {inside}
    Subjects = {p1, p2}
    Roles = {"org_admin", "viewer"}
    Accounts = {m1}
    Tokens = {t1, t2}
    Sessions = {s1, s2}
    Founder = u1
    FounderEmail = outside
    Null = Null
    MaxRequests = 4
SYMMETRY Interchangeable
INVARIANTS
    TypeOK
    WithdrawalHolds
    OneAccountPerPerson
CHECK_DEADLOCK FALSE
