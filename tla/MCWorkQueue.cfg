SPECIFICATION Spec
CONSTANTS
    NoWork = NoWork
    Miners = {m1, m2}
    StratumPools = {p1}
    Longpoller = p2
    Works = {w1, w2, w3, w4}
    MaxQueue = 1
    MaxRollable = 2
SYMMETRY Symmetry
INVARIANTS OwnedOnce PopFindsWork NoMinerSleepsOnWork NoMutualSleep
