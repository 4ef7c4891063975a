SPECIFICATION FairSpec
CONSTANTS
    NoThread = NoThread
    Threads = {t1, t2, t3, t4}
    Values = {0, 1}
INVARIANTS Exclusion
PROPERTIES HoldsStill ImplementsModeLock WriterServed
