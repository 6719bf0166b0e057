SPECIFICATION Spec
CONSTANTS
    m1 = m1
    m2 = m2
    NoEmail = NoEmail
    NoPhoto = NoPhoto
    NoRegistration = NoRegistration
    Members = {m1, m2}
    Founders = {m1}
    Emails = {e1, e2, e3}
    Photos = {f1, f2}
    Registrations = {k1}
    Requests = {r1, r2}
SYMMETRY Symmetry
INVARIANTS
    TypeOK
    EmailsDiffer
    RedeemedOnce
    PhotosMatchRows
