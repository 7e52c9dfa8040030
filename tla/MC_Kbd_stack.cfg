CONSTANTS
    BufSize = 2
    PosWidth = 3
    MaxKeys = 5
    MaxAhead = 3
    MaxMods = 0

SPECIFICATION FairSpec
CHECK_DEADLOCK FALSE

INVARIANT LocalBufBound
