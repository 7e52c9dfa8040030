CONSTANTS
    BufSize = 2
    PosWidth = 3
    MaxKeys = 4
    MaxAhead = 2
    MaxMods = 0
    Chars <- MCChars
    Commands <- MCCommands
    IntBits = 8
    LongBits = 16
    NULL = NULL

SPECIFICATION TermSpec
\* kterm_run reads forever; the typist stops after MaxKeys keys.
CHECK_DEADLOCK FALSE

INVARIANT EchoMatches
