CONSTANTS
    Jobs = {j1, j2}
    Users = {u1}
    Nobody = Nobody
    Staff = {s1, s2}
    Posters = {p1}
    DbFails = TRUE

SPECIFICATION Spec
SYMMETRY Symmetry

INVARIANTS
    TypeOK
    EveryDecisionPushed
    OnlyDecidedPushed
    ListedAreClosed

PROPERTIES
    LegalUnlessContested
    OnlySlippedOutlive
