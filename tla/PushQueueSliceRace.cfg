CONSTANTS
    Requests = {r1, r2, r3, r4}
    Adders = {h1, h2}
    Worker = worker
    Nil = nil

SPECIFICATION Spec

INVARIANT
    HoldsAllRequests
CHECK_DEADLOCK FALSE
