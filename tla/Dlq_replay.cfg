SPECIFICATION FairSpec
CONSTANTS
    Rows = {r1, r2, r3}
    Unreadable = {r3}
    MaxAttempts = 2
    MaxMessages = 2
    MaxLog = 3
    MaxCrashes = 1
    MaxFlips = 2
INVARIANTS
    LostOnlyWhenDeferred
PROPERTIES
    CommitNeverGoesBack
    RecoveryReplays
