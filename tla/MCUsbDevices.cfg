SPECIFICATION BusFairSpec
CONSTANTS
    MaxCgpus = 2
    Addrs = {a1, a2}
    Wanted = {a1}
    Users = {"mine", "listen"}
    NoAddr = NoAddr
    MaxBlacklisted = 1
INVARIANTS BusInv UseLive LiveIsClaimed ClaimIsUsed ReinitUnused
PROPERTIES DeviceReturns
