CONSTANTS
    Requests = {r1, r2, r3, r4}
    Adders = {h1}
    Worker = worker
    Nil = nil

SPECIFICATION Spec
SYMMETRY Symmetry
VIEW View

INVARIANTS
    TypeOK
    
    HeldUntilOverlap
    WorkerStaysUp
PROPERTY ImplementsList
CHECK_DEADLOCK FALSE
