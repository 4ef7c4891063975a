SPECIFICATION FairSpec
CONSTANTS
    NoWork = NoWork
    Miners = {m1, m2}
    StratumPools = {p1}
    Longpoller = p2
    Works = {w1, w2, w3}
    MaxQueue = 1
    MaxRollable = 0
PROPERTIES HungryMinersServed
