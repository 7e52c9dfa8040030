\* The big-page database alone: vm_boot_sync over the frames the boot
\* tables reference, then client alloc, free and free_addr.  Used to
\* reproduce the num_free and page_db_free_addr observations of the
\* README (INVARIANT NumFreeAccurate, or NoLeak).
CONSTANTS
    NumPages = 6
    NumReserved = 1
    Mapped <- MCMapped
    PageShift = 2
    SmallShift = 0
    PageIndex = 0
    IndexBits = 4

SPECIFICATION Spec

INVARIANT NumFreeAccurate
