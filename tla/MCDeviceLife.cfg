SPECIFICATION FairSpec
CONSTANTS
    Devices = {"d1"}
    Operators = {"api", "menu"}
    NoDevice = NoDevice
    MaxPosts = 2
INVARIANTS SleeperHasReason
PROPERTIES EnabledMines StoppedRests HungIsReset
