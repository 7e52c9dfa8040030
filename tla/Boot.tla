-------------------------------- MODULE Boot --------------------------------
(***************************************************************************)
(* kernel_main (main.c) from vm_boot_init to the thread it creates on     *)
(* CPU 1: the boot CPU's memory steps of VmBoot and the bring-up of       *)
(* SmpBoot, composed in the order kernel_main calls them.                 *)
(*                                                                         *)
(*   vm_boot_init .. vm_hash_init      VmBoot's steps alone               *)
(*   acpi_init                         SmpBoot's MADT walk (ParseEntry),   *)
(*                                     then VmBoot's map / unmap of the   *)
(*                                     RSDT                               *)
(*   kmalloc_init, vm_boot_sync        VmBoot's steps alone               *)
(*   sched_init, cpu_init              one step of both: io_apic_init and *)
(*                                     local_apic_init map the APIC        *)
(*                                     windows (VmBoot) while cpu_init     *)
(*                                     sets up the boot CPU (SmpBoot)      *)
(*   cpu_smp_init .. thread_create     SmpBoot's steps alone               *)
(*   cpu_init_ap on each AP            SmpBoot's AP steps; its             *)
(*                                     local_apic_init also maps the local *)
(*                                     APIC window in VmBoot's tables      *)
(*   pci_init                          Pci's scan, on the boot CPU once    *)
(*                                     thread_create has returned, while   *)
(*                                     the APs may still be coming up      *)
(*                                                                         *)
(* acpi_init maps the RSDT, parses it (the MADT walk among it) and unmaps *)
(* it; the walk reads no state the mapping writes, so it is taken as the  *)
(* steps before the one map / unmap step.  The APs' local_apic_init map  *)
(* the window through vm_boot_map_range, which holds vm_boot_lock for the *)
(* whole range, so each AP's call is one step; the BSP's cpu_init has     *)
(* mapped the same window already, so it rewrites entries to the values  *)
(* they hold.  A boot that halts (a wrong multiboot                       *)
(* magic, a failed check) goes no further.                               *)
(***************************************************************************)
EXTENDS SmpBoot

CONSTANTS
    Fan, PageUnits, Mmap, NumBootFrames, KernelEnds, DbUnits, HashUnits,
    MultibootInfos, AcpiTables, IoApicAddr, LapicAddr, BootLayouts, None,
    NoAcpi,
    MaxBus, MaxDev, MaxFunc, MaxBars, Devices, NoDevice, PortJunk

\* Without an RSDP acpi_init returns at once, no CPU or I/O APIC is
\* registered and cpu_init programs an I/O APIC at address 0: bring-up
\* needs the firmware's tables.
ASSUME NoAcpi \notin AcpiTables

VARIABLES
    mem, bootInfo, acpi, layout, pc, walk,
    flags, next_free, free_list, num_free, num_reserved, pdbPhase,
    space, pci_devices, scanned

V == INSTANCE VmBoot
P == INSTANCE Pci

vvars == <<mem, bootInfo, acpi, layout, pc, walk,
          flags, next_free, free_list, num_free, num_reserved, pdbPhase>>
svars == vars
pvars == <<space, pci_devices, scanned>>
bootVars == <<vvars, svars, pvars>>

\* The boot CPU has not stopped: multiboot_init accepted the magic, no
\* check() of the memory code failed and the MADT fitted its tables.
Alive == pc # "halted" /\ mem.ok /\ pdbPhase # "halted" /\ bpc # "halted"

BootInit == V!Init /\ Init /\ P!PciInit

\* kernel_main's calls up to vm_boot_sync that touch memory alone.
VmStep ==
    /\ \/ V!MultibootInit \/ V!MultibootBadMagic \/ V!ConsoleInit
       \/ V!VmPageInit \/ V!VmHashInit \/ V!KmallocInit \/ V!SyncReserve
    /\ UNCHANGED <<svars, pvars>>

\* acpi_init: one entry of the MADT walk.
Parse == pc = "acpi" /\ ParseEntry /\ UNCHANGED <<vvars, pvars>>

\* acpi_init: the RSDT mapped, parsed and unmapped, once the walk is over.
Acpi ==
    V!AcpiInit /\ ptr >= MadtEnd /\ bpc # "halted" /\ UNCHANGED <<svars, pvars>>

\* sched_init and cpu_init up to cpu_smp_init.
CpuInit == V!CpuInit /\ BspInit /\ UNCHANGED <<acpiVars, pvars>>

\* cpu_smp_init, kbd_8042_init and thread_create on the boot CPU.
SmpStep ==
    /\ Alive
    /\ \/ SmpStart \/ SendInit \/ InitDone \/ SendStartup
       \/ Online \/ KbdInit \/ CreateLock \/ CreateQueue
    /\ UNCHANGED <<vvars, acpiVars, pvars>>

\* pci_init, after thread_create.
PciStep ==
    /\ bpc = "done" /\ Alive
    /\ P!pci_init
    /\ UNCHANGED <<vvars, svars>>

BspNext == VmStep \/ Parse \/ Acpi \/ CpuInit \/ SmpStep \/ PciStep

\* cpu_init_ap's local_apic_init: the LDR, and the window mapped.
ApMapLapic(a) ==
    /\ ApLapic(a) /\ UNCHANGED <<acpiVars, pvars>>
    /\ \/ V!ApInit
       \/ pc = "done" /\ mem.ok /\ V!MapLapic /\ UNCHANGED pc

ApNext(a) ==
    \/ ApMapLapic(a)
    \/ /\ \/ ApStart(a) \/ ApDesc(a) \/ ApQueue(a) \/ ApIdle(a)
       /\ UNCHANGED <<vvars, acpiVars, pvars>>

BootNext == BspNext \/ \E a \in Aps : ApNext(a)

\* Every CPU runs on its own, so each gets weak fairness.
BootSpec == BootInit /\ [][BootNext]_bootVars /\ WF_bootVars(BspNext)
                                      /\ \A a \in Aps : WF_bootVars(ApNext(a))

-----------------------------------------------------------------------------
(* Properties: those of VmBoot over the whole boot (SmpBoot's are its own *)
(* InterruptsOnlyWhenReady, NoMisroute and ThreadPlaced).                *)

BootTypeOK == V!TypeOK /\ TypeOK

\* When pci_init returns, pci_devices lists every function the scan should
\* find (present, and function 0 or of a multi-function device), once
\* and in bus / device / function order, with the bytes of its own header.
DevicesEnumerated == P!DevicesEnumerated

\* No boot_page_alloc check fails, the APs' maps of the local APIC
\* included.
BootFramesSuffice == V!BootFramesSuffice

\* The database's FREE pages lie in available RAM.
FreePagesInRam == V!FreePagesInRam

\* The kernel image and slack stay mapped at KERNEL_BASE through the boot,
\* the APs' local_apic_init included.
KernelImageMapped == V!KernelImageMapped

\* After vm_boot_sync the RESERVED pages are exactly the frames the tables
\* map, with a sound free list, and the APs' maps change neither.
BootFramesReserved == V!BootFramesReserved

\* Re-mapping a mapped range changes nothing, in every state of the boot.
MapIdempotent == V!MapIdempotent

\* A boot that does not halt ends with every CPU taking the timer and the
\* boot CPU the keyboard: the APs come up and cpu_smp_init returns
\* whatever the memory steps before it did.
BootTicks == <>[](~Alive) \/ AllCpusTick

=============================================================================
