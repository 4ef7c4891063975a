SPECIFICATION StickFairSpec
CONSTANTS
    Kinds = {"GSF", "GSA1", "GSA2"}
    NodevEvery = 2
    DisableAbove = 2
    TELEM_FAIL_MAX = 1
    CountSize = 4
    MaxResets = 1
CHECK_DEADLOCK FALSE
INVARIANTS StickInv MinesWithChips OverheatWatched
PROPERTIES GivenUp ShutdownEnds
