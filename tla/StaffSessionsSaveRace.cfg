SPECIFICATION Spec
CONSTANTS
    m1 = m1
    m2 = m2
    Nobody = Nobody
    NoSession = NoSession
    Members = {m1, m2}
    Admins = {m1}
    Founders = {m1, m2}
    Sessions = {s1, s2}
    Requests = {r1, r2}
    DbFails = FALSE
SYMMETRY Symmetry
INVARIANT DeletedForGood
CHECK_DEADLOCK FALSE
