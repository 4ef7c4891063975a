SPECIFICATION Spec
CONSTANTS
    Pool = {p1, p2, p3}
    NoPool = NoPool
    opt_disable_pool = TRUE
    MaxDirect = 1
    EditRaced = FALSE
SYMMETRY Symmetry
INVARIANTS ListInv EnabledCounted
PROPERTIES ImplementsPoolOrder
CHECK_DEADLOCK FALSE
