------------------------------- MODULE MC_Boot -------------------------------
(***************************************************************************)
(* Boot for TLC: spec example E1's memory in units of 512 KiB, the        *)
(* multiboot tags GRUB leaves, an RSDT near the top of RAM, and the MADT  *)
(* of spec example E5 cut to three CPUs.                                  *)
(***************************************************************************)
EXTENDS Boot, TLC

\* Low memory below the EBDA hole, the hole, RAM from 1 MiB to a top that
\* is not 2 MiB aligned, a reserved area above it and the BIOS area just
\* below 4 GiB.
MCMmap == <<[addr |-> 0, len |-> 1, avail |-> TRUE],
            [addr |-> 1, len |-> 1, avail |-> FALSE],
            [addr |-> 2, len |-> 24, avail |-> TRUE],
            [addr |-> 26, len |-> 2, avail |-> FALSE],
            [addr |-> 127, len |-> 1, avail |-> FALSE]>>

\* The tags at mb_addr + 8, by byte offset: the command line, the loader
\* name (a type multiboot_init skips), the basic meminfo, the memory map
\* (five 24-byte entries) and the framebuffer, in the 4 GiB hole
\* (0xFD000000 scaled, three units of pitch * height) or the text buffer
\* at 0xB8000 in page 0 (the tag before the memory map); and a boot by a
\* loader that is not multiboot2.
Cmdline == [type |-> 1, size |-> 12, string |-> <<"k", "i", "f">>]
LoaderName == [type |-> 2, size |-> 14]
Meminfo == [type |-> 4, size |-> 16, mem_lower |-> 639, mem_upper |-> 12288]
MmapTag == [type |-> 6, size |-> 136]
FbTag(addr, height) == [type |-> 8, size |-> 31, fb_addr |-> addr, fb_pitch |-> 1,
                        fb_height |-> height]
EndTag == [type |-> 0, size |-> 8]

MCMultibootInfos ==
    {[magic |-> 920085129,
      tags |-> 8 :> Cmdline @@ 24 :> LoaderName @@ 40 :> Meminfo @@ 56 :> MmapTag
               @@ 192 :> FbTag(112, 3) @@ 224 :> EndTag],
     [magic |-> 920085129,
      tags |-> 8 :> Meminfo @@ 24 :> FbTag(1, 1) @@ 56 :> MmapTag @@ 192 :> EndTag],
     [magic |-> 732803074, tags |-> 8 :> EndTag]}

\* An RSDT near the top of RAM, or one running past it.
MCAcpiTables == {<<21, 1>>, <<23, 2>>}

\* The boot CPU 0 and APs 1 and 2, listed in id order, and the I/O APIC
\* and the override QEMU's MADT gives: 24 pins from GSI 0, ISA IRQ 0 on
\* GSI 2.
MCMadt == <<[type |-> "lapic", id |-> 0, enabled |-> TRUE, len |-> 8],
            [type |-> "lapic", id |-> 1, enabled |-> TRUE, len |-> 8],
            [type |-> "lapic", id |-> 2, enabled |-> TRUE, len |-> 8],
            [type |-> "ioapic", base |-> 0, pins |-> 24, len |-> 12],
            [type |-> "iovr", irq |-> 0, gsi |-> 2, len |-> 10]>>

\* The PCI configuration space: a multi-function device (an ISA bridge at
\* function 0, a PCI-to-PCI bridge of header type 1 with an I/O BAR at
\* function 1) and, on
\* bus 1, a single-function display device with a 32-bit memory BAR whose
\* header also answers at function 1, as devices that decode no function
\* number do.
PciDev(v, d, c, s, ht, bar) ==
    [vendor_id |-> v, device_id |-> d, class |-> c, subclass |-> s,
     prog_intf |-> 0, header_type |-> ht, int_line |-> 11, int_pin |-> 1,
     bars |-> <<bar>>]
MCDevices ==
    [id \in (0..(MaxBus - 1)) \X (0..(MaxDev - 1)) \X (0..(MaxFunc - 1)) |->
        CASE id = <<0, 0, 0>> -> PciDev(32902, 28672, 6, 1, 128, <<0, 0, 0, 0>>)
          [] id = <<0, 0, 1>> -> PciDev(32902, 28688, 6, 4, 1, <<1, 192, 0, 0>>)
          [] id \in {<<1, 0, 0>>, <<1, 0, 1>>} ->
                 PciDev(4660, 4369, 3, 0, 0, <<0, 0, 192, 254>>)
          [] OTHER -> NoDevice]

\* inl of the ports 0xCFC + 0x10 .. 0xCFC + 0x24: one that returns a value
\* shaped like a 32-bit memory BAR, so that pci_bar_size runs.
MCPortJunk == {<<0, 0, 192, 254>>}

=============================================================================
