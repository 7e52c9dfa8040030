CONSTANTS
    BufSize = 2
    PosWidth = 3
    MaxKeys = 2
    MaxAhead = 2
    MaxMods = 2

SPECIFICATION FairSpec
\* The typist stops after MaxKeys keys and MaxMods modifier codes.
CHECK_DEADLOCK FALSE

INVARIANT DecodedAsPressed
