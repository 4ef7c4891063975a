SPECIFICATION FairSpec
CONSTANTS
    total_pools = 2
    opt_disable_pool = TRUE
INVARIANTS IdleIsRetried
PROPERTIES BackupTakesOver PrimaryReturns MinersFed
