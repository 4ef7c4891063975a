SPECIFICATION MCSpec
CONSTANTS
    Diffs = {2, 3}
    MaxJobs = 2
    MaxNonce1 = 2
    MaxNonce2 = 2
INVARIANTS NoWorkTwice LatestDiff
PROPERTIES FitsSession
