SPECIFICATION Spec
CONSTANTS
    Works = {w1, w2, w3, w4, w5}
    NoWork = NoWork
    Restarters = {r1}
    min_job_id = 2
    max_job_id = 4
    Attempts = 2
    MaxNonces = 1
SYMMETRY Symmetry
INVARIANTS WorkOwned NonceWorkLive RecoveredUnlessRolled
