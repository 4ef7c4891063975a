SPECIFICATION FairSpec
CONSTANTS
    NoShare = NoShare
    Pools = {p1}
    Shares = {s1, s2}
    opt_lowmem = FALSE
INVARIANTS CountedOnce AwaitedIsCounted
PROPERTIES ShareSettled
\* Nothing is left to do here once the pool was removed and its shares settled.
CHECK_DEADLOCK FALSE
