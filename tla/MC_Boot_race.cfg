\* The boot of the boot run, with ThreadPlaced the one property: main.c's
\* thread_create against CPU 1's sched_init_cpu.
CONSTANTS
    Fan = 8
    PageUnits = 4
    Mmap <- MCMmap
    NumBootFrames = 2
    KernelEnds = {3, 6, 7}
    DbUnits = 1
    HashUnits = 1
    MultibootInfos <- MCMultibootInfos
    AcpiTables <- MCAcpiTables
    IoApicAddr = 120
    LapicAddr = 124
    BootLayouts = {"shared", "separate"}
    None = None
    NoAcpi = NoAcpi
    Madt <- MCMadt
    BspId = 0
    Target = 1
    NewThread = NewThread
    NULL = NULL
    MaxBus = 2
    MaxDev = 2
    MaxFunc = 2
    MaxBars = 1
    Devices <- MCDevices
    NoDevice = NoDevice
    PortJunk <- MCPortJunk
SPECIFICATION BootSpec
CHECK_DEADLOCK FALSE
INVARIANT ThreadPlaced
