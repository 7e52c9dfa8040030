\* The big-page database through vm_boot_sync and client use, and one
\* small-page database built in a page a client allocated.
CONSTANTS
    NumPages = 6
    NumReserved = 1
    Mapped <- MCMapped
    PageShift = 4
    SmallShift = 2
    IndexBits = 6
    PageIndex = 0
    SmallPages = 4
    SmallReserved = 1

SPECIFICATION TwoTierSpec

INVARIANT TwoTierTypeOK
INVARIANT FreeListSound
INVARIANT SmallPagesInBacking

PROPERTY TiersRefine
