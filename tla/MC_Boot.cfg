\* Scaled boot memory: tables of 8 entries, 4 address units per 2 MiB
\* page, a memory map whose top leaves 6 pages of RAM, 2 spare boot
\* frames (of the 28 the code has; the boot needs at most two, so the pool
\* is as tight as it can be).  The framebuffer lies in the 4 GiB hole (or
\* is the text buffer in page 0), the RSDT near the top of RAM (possibly
\* across its end), the APICs at the top of the hole.  Bring-up of a boot
\* CPU and two APs; main.c creates its thread on CPU 1.
CONSTANTS
    Fan = 8
    PageUnits = 4
    Mmap <- MCMmap
    NumBootFrames = 2
    KernelEnds = {3, 6, 7}
    DbUnits = 1
    HashUnits = 1
    MultibootInfos <- MCMultibootInfos
    AcpiTables <- MCAcpiTables
    IoApicAddr = 120
    LapicAddr = 124
    BootLayouts = {"shared", "separate"}
    None = None
    NoAcpi = NoAcpi
    Madt <- MCMadt
    BspId = 0
    Target = 1
    NewThread = NewThread
    NULL = NULL
    MaxBus = 2
    MaxDev = 2
    MaxFunc = 2
    MaxBars = 1
    Devices <- MCDevices
    NoDevice = NoDevice
    PortJunk <- MCPortJunk
SPECIFICATION BootSpec
\* The boot ends: the boot CPU goes on to kterm and the APs idle.
CHECK_DEADLOCK FALSE
INVARIANTS
    BootTypeOK
    BootFramesSuffice
    FreePagesInRam
    KernelImageMapped
    BootFramesReserved
    MapIdempotent
    InterruptsOnlyWhenReady
    NoMisroute
    DevicesEnumerated
PROPERTY BootTicks
