\* One bus, one device, two functions: function 0 generic and
\* multi-function, function 1 a PCI-to-PCI bridge.
CONSTANTS
    MaxBus = 1
    MaxDev = 1
    MaxFunc = 2
    MaxBars = 1
    Devices <- MCBridgeDevices
    NoDevice = NoDevice
    PortJunk <- MCFloatingPort
SPECIFICATION PciSpec
\* pci_init is called once; the scan then stops.
CHECK_DEADLOCK FALSE
INVARIANT HeaderTypesOwn
