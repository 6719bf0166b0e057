SPECIFICATION Spec
CONSTANTS
    m1 = m1
    m2 = m2
    Nobody = Nobody
    NoSession = NoSession
    Members = {m1, m2}
    Admins = {m1}
    Founders = {m1}
    Sessions = {s1, s2}
    Requests = {r1, r2}
    DbFails = TRUE
SYMMETRY Symmetry
INVARIANTS TypeOK DeletionIsComplete RowsGoTogether
PROPERTY LoggedOutStaysOut
CHECK_DEADLOCK FALSE
