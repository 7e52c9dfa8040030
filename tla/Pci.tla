-------------------------------- MODULE Pci --------------------------------
(***************************************************************************)
(* pci_init of src/src/pci.c: the boot CPU's scan of every bus, device    *)
(* and function of the PCI configuration space, through the address port  *)
(* 0xCF8 and the data port 0xCFC, into pci_devices[].                     *)
(*                                                                         *)
(* The configuration space is the hardware: each function present has a  *)
(* type-0 header (vendor and device id at 0x00, class bytes at 0x08,      *)
(* header type at 0x0E, BARs from 0x10, interrupt line and pin at 0x3C),  *)
(* stored as dwords of four bytes, least significant first; a function    *)
(* that is absent reads all ones.  The accessors are modelled by what    *)
(* they do with the port lanes: pci_read_8 and pci_read_16 take a byte or *)
(* word lane of the dword the address port selects, and pci_read_32 reads *)
(* port 0xCFC + reg, which is the data port only for reg = 0; any other   *)
(* port returns a value of PortJunk.  pci_write_32 writes the selected    *)
(* dword.                                                                 *)
(*                                                                         *)
(* Only the boot CPU touches these ports and pci_devices, and no other    *)
(* CPU reads anything pci_init writes, so the whole scan is one step: its *)
(* loops are operators giving the set of results the reads of other      *)
(* ports allow.  The bars[] fields of an entry are left out: they are     *)
(* copies of the values read, which no property looks at; what            *)
(* pci_bar_size writes back to the BARs is kept.                          *)
(***************************************************************************)
EXTENDS Naturals, Sequences, FiniteSets

CONSTANTS
    MaxBus,     \* PCI_MAX_BUS
    MaxDev,     \* PCI_MAX_DEV
    MaxFunc,    \* PCI_MAX_FUNC
    MaxBars,    \* PCI_MAX_BARS
    Devices,    \* the function at each id: a header record, or NoDevice
    NoDevice,
    PortJunk    \* what inl of an I/O port other than 0xCFC may return

Byte == 0..255
Dword == [1..4 -> Byte]             \* bytes 0 .. 3 of the dword
AllOnes == [k \in 1..4 |-> 255]
Zero == [k \in 1..4 |-> 0]

\* The dword of two 16-bit halves, and of four bytes.
Halves(lo, hi) == <<lo % 256, lo \div 256, hi % 256, hi \div 256>>
Ids == (0..(MaxBus - 1)) \X (0..(MaxDev - 1)) \X (0..(MaxFunc - 1))
Regs == {4 * i : i \in 0..15}
BarReg(i) == 16 + 4 * i                 \* PCI_CONFIG_BAR_0 + i * BAR_SIZE

ASSUME /\ Devices \in [Ids -> {NoDevice} \cup
                         [vendor_id : 0..65534, device_id : 0..65535,
                          class : 0..255, subclass : 0..255,
                          prog_intf : 0..255, header_type : 0..255,
                          int_line : 0..255, int_pin : 0..255,
                          bars : [1..MaxBars -> Dword]]]
       /\ PortJunk \subseteq Dword /\ PortJunk # {}
       /\ MaxBars <= 6

\* A device that answers at all answers at function 0.
ASSUME \A b \in 0..(MaxBus - 1), d \in 0..(MaxDev - 1), f \in 0..(MaxFunc - 1) :
           Devices[<<b, d, f>>] # NoDevice => Devices[<<b, d, 0>>] # NoDevice

\* The header of a function as the dwords the data port returns.
Header(d) ==
    [r \in Regs |->
        IF d = NoDevice THEN AllOnes
        ELSE CASE r = 0  -> Halves(d.vendor_id, d.device_id)
               [] r = 8  -> <<0, d.prog_intf, d.subclass, d.class>>
               [] r = 12 -> <<0, 0, d.header_type, 0>>
               [] r = 60 -> <<d.int_line, d.int_pin, 0, 0>>
               [] \E i \in 0..(MaxBars - 1) : r = BarReg(i) ->
                      d.bars[(CHOOSE i \in 0..(MaxBars - 1) : r = BarReg(i)) + 1]
               [] OTHER -> Zero]

VARIABLES
    space,          \* the configuration space, as pci_write_32 leaves it
    pci_devices,    \* pci_devices[0 .. pci_num_devices-1]
    scanned         \* pci_init has returned

pciVars == <<space, pci_devices, scanned>>

-----------------------------------------------------------------------------
(* The configuration accessors.                                           *)

\* outl(PCI_CONFIG_ADDR, 0x80000000 | id | (reg & 0xfc)): the dword the
\* data port then shows.
Selected(sp, id, reg) == sp[id][reg - (reg % 4)]

\* inb(PCI_CONFIG_DATA + (reg & 0x03)): one byte lane of it.
pci_read_8(sp, id, reg) == Selected(sp, id, reg)[(reg % 4) + 1]

\* inw(PCI_CONFIG_DATA + (reg & 0x02)): one word lane of it.
pci_read_16(sp, id, reg) ==
    LET k == (reg % 4) - (reg % 2)
    IN  Selected(sp, id, reg)[k + 1] + 256 * Selected(sp, id, reg)[k + 2]

\* inl(PCI_CONFIG_DATA + reg): the values it may return.
pci_read_32(sp, id, reg) ==
    IF reg = 0 THEN {Selected(sp, id, reg)} ELSE PortJunk

\* outl(PCI_CONFIG_DATA, val) after the address.
pci_write_32(sp, id, reg, val) == [sp EXCEPT ![id][reg - (reg % 4)] = val]

\* pci_bar_size(id, bar): cur_val read, all ones written, read back and
\* cur_val written again; the BAR ends holding the cur_val read.
pci_bar_size(sp, id, i) ==
    {pci_write_32(pci_write_32(sp, id, BarReg(i), AllOnes), id, BarReg(i), cur)
        : cur \in pci_read_32(sp, id, BarReg(i))}

\* pci_read_bars from BAR i on, for a header type already known to be
\* PCI_TYPE_GENERIC: the configuration spaces the loop may leave.  A zero
\* BAR is skipped, an I/O BAR only recorded, a 32-bit memory BAR sized,
\* a 64-bit one sized and its upper half skipped.
RECURSIVE ReadBars(_, _, _)
ReadBars(sp, id, i) ==
    IF i >= MaxBars THEN {sp}
    ELSE UNION {
        IF bar = Zero \/ bar[1] % 2 = 1 THEN ReadBars(sp, id, i + 1)
        ELSE IF (bar[1] \div 2) % 4 = 0
        THEN UNION {ReadBars(s2, id, i + 1) : s2 \in pci_bar_size(sp, id, i)}
        ELSE IF (bar[1] \div 2) % 4 = 2
        THEN UNION {ReadBars(s2, id, i + 2) : s2 \in pci_bar_size(sp, id, i)}
        ELSE ReadBars(sp, id, i + 1)
        : bar \in pci_read_32(sp, id, BarReg(i))}

pci_read_bars(sp, id, ht) ==
    IF ht = 0 THEN ReadBars(sp, id, 0) ELSE {sp}

\* The entry pci_init fills for a function found at id.
Entry(sp, id, ht) ==
    [bus |-> id[1], dev |-> id[2], func |-> id[3],
     header_type |-> ht % 128,
     vendor_id |-> pci_read_16(sp, id, 0),
     device_id |-> pci_read_16(sp, id, 2),
     class |-> pci_read_8(sp, id, 11),
     subclass |-> pci_read_8(sp, id, 10),
     prog_intf |-> pci_read_8(sp, id, 9),
     int_line |-> pci_read_8(sp, id, 60),
     int_pin |-> pci_read_8(sp, id, 61)]

-----------------------------------------------------------------------------
(* pci_init                                                               *)

\* The body of the func loop for function f: a vendor id of 0xFFFF is
\* skipped, else pci_devices[pci_num_devices++] is filled and its BARs
\* read.  st holds the configuration space and pci_devices.
ScanFunc(st, id, ht) ==
    IF pci_read_16(st.space, id, 0) = 65535 THEN {st}
    ELSE {[space |-> sp,
           devices |-> Append(st.devices, Entry(st.space, id, ht))]
             : sp \in pci_read_bars(st.space, id, ht % 128)}

\* The func loop from function f to n_func - 1.
RECURSIVE ScanFuncs(_, _, _, _, _, _)
ScanFuncs(st, b, d, ht, f, n) ==
    IF f >= n THEN {st}
    ELSE UNION {ScanFuncs(s2, b, d, ht, f + 1, n)
                  : s2 \in ScanFunc(st, <<b, d, f>>, ht)}

\* A scan that ignores the multi-function bit.
ScanDeviceFunc0(st, b, d) ==
    ScanFuncs(st, b, d, pci_read_8(st.space, <<b, d, 0>>, 14), 0, 1)

\* One pass of the dev loop: the header type of function 0 decides how
\* many functions are scanned (all PCI_MAX_FUNC when PCI_TYPE_MULTIFUNC is
\* set).
ScanDevice(st, b, d) ==
    LET ht == pci_read_8(st.space, <<b, d, 0>>, 14)
    IN  ScanFuncs(st, b, d, ht, 0, IF ht >= 128 THEN MaxFunc ELSE 1)

\* The bus and dev loops, from the k-th device in scan order on.
DevOrder == [k \in 1..(MaxBus * MaxDev) |->
                <<(k - 1) \div MaxDev, (k - 1) % MaxDev>>]
RECURSIVE ScanFrom(_, _)
ScanFrom(st, k) ==
    IF k > Len(DevOrder) THEN {st}
    ELSE UNION {ScanFrom(s2, k + 1)
                  : s2 \in ScanDevice(st, DevOrder[k][1], DevOrder[k][2])}

PciInit ==
    /\ space = [id \in Ids |-> Header(Devices[id])]
    /\ pci_devices = <<>>
    /\ scanned = FALSE

pci_init ==
    /\ ~scanned
    /\ \E st \in ScanFrom([space |-> space, devices |-> <<>>], 1) :
         /\ space' = st.space
         /\ pci_devices' = st.devices
    /\ scanned' = TRUE

\* kernel_main's single call of pci_init, on its own.
PciSpec == PciInit /\ [][pci_init]_pciVars

-----------------------------------------------------------------------------
(* Properties.                                                            *)

\* The functions the scan must find: present, and function 0 or a
\* function of a device whose function 0 sets the multi-function bit.
Found(id) ==
    /\ Devices[id] # NoDevice
    /\ \/ id[3] = 0
       \/ Header(Devices[<<id[1], id[2], 0>>])[12][3] >= 128

\* Scan order: bus, then device, then function.
Before(a, b) ==
    \/ a[1] < b[1]
    \/ a[1] = b[1] /\ a[2] < b[2]
    \/ a[1] = b[1] /\ a[2] = b[2] /\ a[3] < b[3]

\* When pci_init returns, pci_devices lists every function found, once
\* and in scan order, with the identity, class and interrupt bytes of its
\* own header, taken through the byte and word lanes of the data port.
DevicesEnumerated ==
    scanned =>
        LET found == {id \in Ids : Found(id)}
            rank(id) == Cardinality({x \in found : Before(x, id)}) + 1
        IN /\ Len(pci_devices) = Cardinality(found)
           /\ \A id \in found :
                LET e == pci_devices[rank(id)]
                    d == Devices[id]
                IN /\ <<e.bus, e.dev, e.func>> = id
                   /\ e.vendor_id = d.vendor_id /\ e.device_id = d.device_id
                   /\ e.class = d.class /\ e.subclass = d.subclass
                   /\ e.prog_intf = d.prog_intf
                   /\ e.int_line = d.int_line /\ e.int_pin = d.int_pin


\* Every entry of pci_devices records the header type of its own function,
\* without the multi-function bit.  Header type is a register of each
\* function (offset 0x0E), and pci_read_bars chooses by this field how to
\* read the function's BARs.  pci_init stores function 0's header type
\* (read once, before the func loop) in the entry of every function of
\* the device.
HeaderTypesOwn ==
    scanned =>
        \A k \in 1..Len(pci_devices) :
            LET e == pci_devices[k]
            IN  e.header_type = Devices[<<e.bus, e.dev, e.func>>].header_type % 128

=============================================================================
