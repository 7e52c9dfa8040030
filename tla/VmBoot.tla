------------------------------- MODULE VmBoot -------------------------------
(***************************************************************************)
(* Early boot memory: the boot page-table editor of src/src/vm_boot.c,    *)
(* the slack allocator kernel_slack_alloc of kernel.c, and the boot       *)
(* sequence of kernel_main (main.c) that drives them up to and past       *)
(* vm_boot_sync, which hands every frame the tables map to the page       *)
(* database of PageDB.                                                    *)
(*                                                                         *)
(* Everything here runs on the boot CPU before the APs start, one call    *)
(* after another, so each call of kernel_main's sequence is one action    *)
(* and the editor's operations are operators over the table state.  The  *)
(* firmware's inputs (where the kernel image ends, where the framebuffer  *)
(* and the ACPI tables are) are chosen in Init.                           *)
(*                                                                         *)
(* Addresses are in units of PAGE_2M_SIZE \div PageUnits; a virtual       *)
(* address is a number like a physical one, with the table indices taken *)
(* from it as PML_INDEX, PDP_INDEX and PAGE_2M_INDEX do, each table       *)
(* having Fan entries.                                                    *)
(***************************************************************************)
EXTENDS Integers, Sequences, FiniteSets, SequencesExt

CONSTANTS
    Fan,            \* PDIR_NUM_ENTRIES
    PageUnits,      \* PAGE_2M_SIZE in address units
    Mmap,           \* the multiboot memory map: [addr, len, avail] entries
    NumBootFrames,  \* (BOOT_PAGES_TOP - BOOT_PAGE_NEXT) / PAGE_4K_SIZE
    KernelEnds,     \* possible &_end - KERNEL_BASE
    DbUnits,        \* page_db_calc_size(mmap_top)
    HashUnits,      \* page_hash_size * sizeof(uintptr_t)
    MultibootInfos, \* possible [magic, tags]: mb_magic and the tags at mb_addr
    AcpiTables,     \* possible <<rsdt_addr, hdr.length>>, or NoAcpi
    IoApicAddr,     \* io_apic.io_apic_addr
    LapicAddr,      \* local_apic.local_apic_addr
    BootLayouts,    \* page-table layouts the boot stubs may leave
    None,           \* an entry without PAGE_PRESENT (zero)
    NoAcpi          \* acpi_find_rsdp found nothing

ASSUME Fan \in Nat \ {0, 1} /\ PageUnits \in Nat \ {0}
ASSUME NumBootFrames \in Nat /\ KernelEnds \subseteq Nat
ASSUME BootLayouts \subseteq {"shared", "separate"}

Idx == 0..(Fan - 1)

\* Mutant: every entry raises mmap_top, whatever its type.
MmapTopAnyType ==
    FoldLeft(LAMBDA top, e : IF e.addr + e.len > top THEN e.addr + e.len
                             ELSE top, 0, Mmap)

\* multiboot_mmap: mmap_top is the highest end of an AVAILABLE entry.
MmapTop ==
    FoldLeft(LAMBDA top, e : IF e.avail /\ e.addr + e.len > top
                             THEN e.addr + e.len ELSE top, 0, Mmap)

\* page_db_init's num_pages: memory_size >> PAGE_2M_SHIFT, memory_size
\* being vm_page_init's boot_info->mmap_top.
NumPages == MmapTop \div PageUnits

Pages == 0..(NumPages - 1)
Unit == 1   \* sizes below one unit (4 KiB maps, 16-byte alignment)

\* KERNEL_BASE: PML4 slot Fan - 1, PDP slot Fan - 2 (511 and 510).
KernelBase == ((Fan - 1) * Fan * Fan + (Fan - 2) * Fan) * PageUnits

\* KERNEL_VADDR(x) == x | KERNEL_BASE, an addition below 2 GiB.
KernelVaddr(x) == KernelBase + x

PmlIndex(v) == ((v \div PageUnits) \div (Fan * Fan)) % Fan
PdpIndex(v) == ((v \div PageUnits) \div Fan) % Fan
PdIndex(v)  == (v \div PageUnits) % Fan

PageNum(x)   == (x + PageUnits - 1) \div PageUnits      \* PAGE_2M_NUM
PageRound(x) == PageNum(x) * PageUnits                  \* PAGE_2M_ROUND
AlignUp(x, a) == ((x + a - 1) \div a) * a               \* ALIGN_UP

\* The 4 KiB frames of the boot tables: BOOT_PML4, BOOT_PD, BOOT_PDP_HI,
\* BOOT_PDP_LO, then those boot_page_alloc hands out from BOOT_PAGE_NEXT
\* up to BOOT_PAGES_TOP.
BootPml4 == 16
BootPd == 17
BootPdpHi == 18
BootPdpLo == 19
BootPageNext == 20
BootPagesTop == BootPageNext + NumBootFrames
Tables == BootPml4..(BootPagesTop - 1)
Empty == [i \in Idx |-> None]

-----------------------------------------------------------------------------
(* The page-table editor: operators over a state                         *)
(* [pt |-> tables, next |-> boot_page, ok |-> no check() has failed].    *)

\* Mutant: check(page + PAGE_4K_SIZE < BOOT_PAGES_TOP), one frame short.
BootPageAllocShort(s) ==
    IF ~(s.next + 1 < BootPagesTop) THEN [s EXCEPT !.ok = FALSE]
    ELSE [s EXCEPT !.next = @ + 1, !.pt[s.next] = Empty]

\* boot_page_alloc: the next boot frame, zeroed; check(page <
\* BOOT_PAGES_TOP) fails once they are all gone.
BootPageAlloc(s) ==
    IF ~(s.next < BootPagesTop) THEN [s EXCEPT !.ok = FALSE]
    ELSE [s EXCEPT !.next = @ + 1, !.pt[s.next] = Empty]

\* The table an entry of table t at index i points to, allocating and
\* installing one when the entry is not present.
EnsureTable(s, t, i) ==
    IF s.pt[t][i] # None THEN s
    ELSE LET a == BootPageAlloc(s)
         IN  IF ~a.ok THEN a ELSE [a EXCEPT !.pt[t][i] = s.next]

\* Mutant: a new page directory is allocated even when one is present.
MapPageAlwaysAlloc(s, v, p) ==
    LET s1 == EnsureTable(s, BootPml4, PmlIndex(v))
        pdp == s1.pt[BootPml4][PmlIndex(v)]
        a == BootPageAlloc(s1)
        s2 == IF s1.ok /\ a.ok THEN [a EXCEPT !.pt[pdp][PdpIndex(v)] = s1.next]
              ELSE [s1 EXCEPT !.ok = FALSE]
        pd == s2.pt[pdp][PdpIndex(v)]
    IN  IF ~s2.ok THEN s2
        ELSE [s2 EXCEPT !.pt[pd][PdIndex(v)] = p \div PageUnits]

\* vm_boot_map_page: missing PDP and PD tables are allocated; the PD entry
\* is written when it is not present or points elsewhere.
MapPage(s, v, p) ==
    LET s1 == EnsureTable(s, BootPml4, PmlIndex(v))
        pdp == s1.pt[BootPml4][PmlIndex(v)]
        s2 == IF s1.ok THEN EnsureTable(s1, pdp, PdpIndex(v)) ELSE s1
        pd == s2.pt[pdp][PdpIndex(v)]
    IN  IF ~s2.ok THEN s2
        ELSE IF s2.pt[pd][PdIndex(v)] # p \div PageUnits
        THEN [s2 EXCEPT !.pt[pd][PdIndex(v)] = p \div PageUnits]
        ELSE s2

\* vm_boot_unmap_page: the PD entry is cleared if its tables are present.
UnmapPage(s, v) ==
    LET pdp == s.pt[BootPml4][PmlIndex(v)]
        pd == IF pdp = None THEN None ELSE s.pt[pdp][PdpIndex(v)]
    IN  IF pd = None THEN s ELSE [s EXCEPT !.pt[pd][PdIndex(v)] = None]

RECURSIVE MapPages(_, _, _, _), UnmapPages(_, _, _)
MapPages(s, v, p, n) ==
    IF n = 0 \/ ~s.ok THEN s
    ELSE MapPages(MapPage(s, v, p), v + PageUnits, p + PageUnits, n - 1)
UnmapPages(s, v, n) ==
    IF n = 0 THEN s ELSE UnmapPages(UnmapPage(s, v), v + PageUnits, n - 1)

\* vm_boot_map_range / vm_boot_unmap_range: rounded outward to 2 MiB.
Offset(x) == x % PageUnits              \* x & (PAGE_2M_SIZE - 1)
MapRange(s, vaddr, paddr, size) ==
    MapPages(s, vaddr - Offset(vaddr), paddr - Offset(paddr),
             PageNum(size + Offset(vaddr)))
UnmapRange(s, vaddr, size) ==
    UnmapPages(s, vaddr - Offset(vaddr), PageNum(size + Offset(vaddr)))

\* The physical page a virtual address translates to, or None.
Translate(s, v) ==
    LET pdp == s.pt[BootPml4][PmlIndex(v)]
        pd == IF pdp = None THEN None ELSE s.pt[pdp][PdpIndex(v)]
    IN  IF pd = None THEN None ELSE s.pt[pd][PdIndex(v)]

\* Mutant: the PML4 loop stops one slot short ("< 511").
SyncWalkShort(s) ==
    LET Present(t) == SelectSeq([i \in 1..Fan |-> t[i - 1]], LAMBDA e : e # None)
        PdFrames(pd) == Present(s.pt[pd])
        PdpFrames(pdp) == FlattenSeq([k \in 1..Len(Present(s.pt[pdp])) |->
                              PdFrames(Present(s.pt[pdp])[k])])
        pmls == Present([i \in Idx |-> IF i < Fan - 1 THEN s.pt[BootPml4][i]
                                       ELSE None])
    IN  FlattenSeq([k \in 1..Len(pmls) |-> PdpFrames(pmls[k])])

\* The frames vm_boot_sync finds, in the order of its three nested loops.
SyncWalk(s) ==
    LET Present(t) == SelectSeq([i \in 1..Fan |-> t[i - 1]], LAMBDA e : e # None)
        PdFrames(pd) == Present(s.pt[pd])
        PdpFrames(pdp) == FlattenSeq([k \in 1..Len(Present(s.pt[pdp])) |->
                              PdFrames(Present(s.pt[pdp])[k])])
        pmls == Present(s.pt[BootPml4])
    IN  FlattenSeq([k \in 1..Len(pmls) |-> PdpFrames(pmls[k])])

-----------------------------------------------------------------------------
(* The boot sequence.                                                     *)

VARIABLES
    mem,        \* boot page tables, boot_page, and boot_info's kernel_top,
                \* kernel_slack; ok is FALSE once a check() has halted
    bootInfo,   \* the boot_info fields multiboot_init fills
    acpi,       \* the RSDT/XSDT the RSDP names, or NoAcpi
    layout,     \* the layout the boot stubs left
    pc,         \* the next call of kernel_main
    walk,       \* frames vm_boot_sync has still to reserve
    flags, next_free, free_list, num_free, num_reserved, pdbPhase

pdbVars == <<flags, next_free, free_list, num_free, num_reserved, pdbPhase>>
vars == <<mem, bootInfo, acpi, layout, pc, walk, pdbVars>>

\* The page database, whose page_db_reserve_page the sync step calls.
PDB == INSTANCE PageDB WITH NumReserved <- 1, Mapped <- {}, PageShift <- 0,
                            SmallShift <- 0, IndexBits <- 1, PageIndex <- 0,
                            phase <- pdbPhase,
                            synced <- {}, owned <- {}

\* Mutant: kernel_top grows by PAGE_2M_NUM (a count) for PAGE_2M_ROUND.
SlackAllocNum(m, size, align) ==
    LET slack == AlignUp(m.kernel_slack, align)
        top == slack + size
        paddr == m.kernel_top
        grow == PageNum(top - m.kernel_top)
        m1 == IF top > m.kernel_top
              THEN [MapRange(m, KernelVaddr(paddr), paddr, grow)
                      EXCEPT !.kernel_top = paddr + grow]
              ELSE m
    IN  [m1 EXCEPT !.kernel_slack = top]

\* Mutant: the mapping starts at kernel_top after it has been advanced.
SlackAllocLateTop(m, size, align) ==
    LET slack == AlignUp(m.kernel_slack, align)
        top == slack + size
        grow == PageRound(top - m.kernel_top)
        m1 == IF top > m.kernel_top
              THEN MapRange([m EXCEPT !.kernel_top = @ + grow],
                            KernelVaddr(m.kernel_top + grow),
                            m.kernel_top + grow, grow)
              ELSE m
    IN  [m1 EXCEPT !.kernel_slack = top]

\* kernel_slack_alloc(size, align) on the state m: the cursor is aligned
\* and advanced; when it passes kernel_top, kernel_top grows by whole
\* 2 MiB pages and the new pages are mapped at KERNEL_VADDR.
SlackAlloc(m, size, align) ==
    LET slack == AlignUp(m.kernel_slack, align)
        top == slack + size
        paddr == m.kernel_top
        grow == PageRound(top - m.kernel_top)
        m1 == IF top > m.kernel_top
              THEN [MapRange(m, KernelVaddr(paddr), paddr, grow)
                      EXCEPT !.kernel_top = paddr + grow]
              ELSE m
    IN  [m1 EXCEPT !.kernel_slack = top]

\* The tables the boot stubs leave: the kernel image mapped at
\* KERNEL_BASE through BOOT_PML4 -> BOOT_PDP_HI -> BOOT_PD, and BOOT_PDP_LO
\* in slot 0, sharing BOOT_PD for the identity map or left empty.
BootTables(l, kpages) ==
    [t \in Tables |->
        CASE t = BootPml4  -> [i \in Idx |-> CASE i = 0 -> BootPdpLo
                                            [] i = Fan - 1 -> BootPdpHi
                                            [] OTHER -> None]
          [] t = BootPdpHi -> [i \in Idx |-> IF i = Fan - 2 THEN BootPd ELSE None]
          [] t = BootPdpLo -> [i \in Idx |-> IF i = 0 /\ l = "shared" THEN BootPd
                                            ELSE None]
          [] t = BootPd    -> [i \in Idx |-> IF i < kpages THEN i ELSE None]
          [] OTHER        -> Empty]

\* The magic the loader passes and the tag types multiboot_init handles.
Multiboot2Magic == 920085129    \* MULTIBOOT2_BOOTLOADER_MAGIC, 0x36d76289
TagEnd == 0
TagCmdline == 1
TagMeminfo == 4
TagMmap == 6
TagFramebuffer == 8

\* boot_info before multiboot_init has filled it.
NoBootInfo == [cmd_line |-> <<>>, memory_size |-> 0, mmap_top |-> 0,
               fb_addr |-> 0, fb_pitch |-> 0, fb_height |-> 0]

\* multiboot_cmdline: the tag's string, up to its NUL, into cmd_line.
MultibootCmdline(bi, tag) == [bi EXCEPT !.cmd_line = tag.string]

\* multiboot_meminfo: mem_lower and mem_upper are KiB counts.
MultibootMeminfo(bi, tag) ==
    [bi EXCEPT !.memory_size = tag.mem_lower * 1024 + tag.mem_upper * 1024]

\* multiboot_framebuffer: the address and geometry of the framebuffer
\* (the width, bpp and type it also copies are only printed).
MultibootFramebuffer(bi, tag) ==
    [bi EXCEPT !.fb_addr = tag.fb_addr, !.fb_pitch = tag.fb_pitch,
               !.fb_height = tag.fb_height]

\* multiboot_mmap: the tag's entries are Mmap, and what the boot reads
\* of them is mmap_top.
MultibootMmap(bi, tag) == [bi EXCEPT !.mmap_top = MmapTop]

\* multiboot_init's tag loop from the tag at byte offset off of the
\* multiboot information: each tag is handed to its handler, unknown types
\* are skipped, and the next tag is at off + ((size + 7) & ~7).
RECURSIVE TagWalk(_, _, _)
TagWalk(tags, off, bi) ==
    LET tag == tags[off]
        h == CASE tag.type = TagCmdline     -> MultibootCmdline(bi, tag)
               [] tag.type = TagMeminfo     -> MultibootMeminfo(bi, tag)
               [] tag.type = TagFramebuffer -> MultibootFramebuffer(bi, tag)
               [] tag.type = TagMmap        -> MultibootMmap(bi, tag)
               [] OTHER                     -> bi
    IN  IF tag.type = TagEnd THEN bi
        ELSE TagWalk(tags, off + AlignUp(tag.size, 8), h)

\* kernel_init and vm_boot_init.
Init ==
    /\ \E e \in KernelEnds, l \in BootLayouts :
         /\ layout = l
         /\ mem = [pt |-> BootTables(l, PageNum(e)), next |-> BootPageNext, ok |-> TRUE,
                   kernel_top |-> PageRound(e), kernel_slack |-> e]
    /\ bootInfo = NoBootInfo
    /\ acpi \in AcpiTables
    /\ pc = "multiboot"
    /\ walk = <<>>
    /\ flags = [p \in Pages |-> PDB!RESERVED]
    /\ next_free = [p \in Pages |-> 0]
    /\ free_list = 0 /\ num_free = 0 /\ num_reserved = 0
    /\ pdbPhase = "none"

Step(from, to) == pc = from /\ pc' = to /\ mem.ok

\* multiboot_init: the magic matches, and the tag loop from mb_addr + 8
\* fills boot_info.
MultibootInit ==
    /\ Step("multiboot", "console")
    /\ \E info \in MultibootInfos :
         /\ info.magic = Multiboot2Magic
         /\ bootInfo' = TagWalk(info.tags, 8, bootInfo)
    /\ UNCHANGED <<mem, acpi, layout, walk, pdbVars>>

\* multiboot_init returns false on a wrong magic, and kernel_main returns.
MultibootBadMagic ==
    /\ Step("multiboot", "halted")
    /\ \E info \in MultibootInfos : info.magic # Multiboot2Magic
    /\ UNCHANGED <<mem, bootInfo, acpi, layout, walk, pdbVars>>

\* fb_cons_init's fb_size: fb_pitch * fb_height.
FbSize(bi) == bi.fb_pitch * bi.fb_height

\* console_init -> fb_cons_init: the framebuffer is identity-mapped.
ConsoleInit ==
    /\ Step("console", "vm_page")
    /\ mem' = MapRange(mem, bootInfo.fb_addr, bootInfo.fb_addr, FbSize(bootInfo))
    /\ UNCHANGED <<bootInfo, acpi, layout, walk, pdbVars>>

\* page_db_init(pdb, memory_size, reserved_size) with page_db_init_pages:
\* PAGE_2M_NUM(reserved_size) pages RESERVED, the rest FREE and linked.
PageDbInit(nr) ==
    /\ flags' = [p \in Pages |-> IF p < nr THEN PDB!RESERVED ELSE PDB!FREE]
    /\ next_free' = [p \in Pages |-> IF p >= nr /\ p < NumPages - 1 THEN p + 1
                                     ELSE 0]
    /\ free_list' = nr
    /\ num_free' = NumPages - nr
    /\ num_reserved' = nr
    /\ pdbPhase' = "sync"

\* vm_page_init: the database is placed on the slack, then initialised
\* with the kernel_top that allocation left.
VmPageInit ==
    /\ Step("vm_page", "vm_hash")
    /\ \E m \in {SlackAlloc(mem, DbUnits, Unit)} :
         /\ mem' = m
         /\ PageDbInit(PageNum(m.kernel_top))
    /\ UNCHANGED <<bootInfo, acpi, layout, walk>>

\* vm_hash_init: the page hash buckets on the slack.
VmHashInit ==
    /\ Step("vm_hash", "acpi")
    /\ mem' = SlackAlloc(mem, HashUnits, Unit)
    /\ UNCHANGED <<bootInfo, acpi, layout, walk, pdbVars>>

\* acpi_init: the RSDT (or XSDT) is mapped for its header, then for its
\* length, parsed, and unmapped.
AcpiInit ==
    /\ Step("acpi", "kmalloc")
    /\ IF acpi = NoAcpi THEN UNCHANGED mem
       ELSE \E m1 \in {MapRange(mem, acpi[1], acpi[1], Unit)} :
            \E m2 \in {MapRange(m1, acpi[1], acpi[1], acpi[2])} :
              mem' = IF m2.ok THEN UnmapRange(m2, acpi[1], acpi[2]) ELSE m2
    /\ UNCHANGED <<bootInfo, acpi, layout, walk, pdbVars>>

\* kmalloc_init -> slab_list_reserve_on_slack(&sl_root):
\* kernel_slack_alloc(PAGE_2M_SIZE, PAGE_2M_SIZE).
KmallocInit ==
    /\ Step("kmalloc", "sync")
    /\ \E m \in {SlackAlloc(mem, PageUnits, PageUnits)} :
         mem' = m /\ walk' = SyncWalk(m)
    /\ UNCHANGED <<bootInfo, acpi, layout, pdbVars>>

\* One iteration of vm_boot_sync's innermost loop: the frame a present PD
\* entry names is reserved in the page database.
SyncReserve ==
    /\ pc = "sync" /\ mem.ok /\ pdbPhase # "halted"
    /\ walk # <<>>
    /\ PDB!ReservePage(Head(walk))
    /\ walk' = Tail(walk)
    /\ UNCHANGED <<mem, bootInfo, acpi, layout, pc>>

\* The walk is over (page_db_dump_ranges only prints); sched_init, then
\* cpu_init maps the I/O APIC and the local APIC.
CpuInit ==
    /\ Step("sync", "ap") /\ walk = <<>> /\ pdbPhase # "halted"
    /\ \E m1 \in {MapRange(mem, IoApicAddr, IoApicAddr, Unit)} :
         mem' = IF m1.ok THEN MapRange(m1, LapicAddr, LapicAddr, Unit) ELSE m1
    /\ UNCHANGED <<bootInfo, acpi, layout, walk, pdbVars>>

\* local_apic_init's identity map of the local APIC window.
MapLapic ==
    /\ mem' = MapRange(mem, LapicAddr, LapicAddr, Unit)
    /\ UNCHANGED <<bootInfo, acpi, layout, walk, pdbVars>>

\* cpu_init_ap -> local_apic_init on an AP maps the local APIC again.
ApInit == Step("ap", "done") /\ MapLapic

Next ==
    \/ MultibootInit \/ MultibootBadMagic \/ ConsoleInit \/ VmPageInit \/ VmHashInit \/ AcpiInit \/ KmallocInit
    \/ SyncReserve \/ CpuInit \/ ApInit

Spec == Init /\ [][Next]_vars

-----------------------------------------------------------------------------
(* Properties.                                                            *)

TypeOK ==
    /\ DOMAIN mem.pt = Tables
    /\ \A t \in Tables : mem.pt[t] \in [Idx -> Nat \cup {None}]
    /\ \A i \in Idx : mem.pt[BootPd][i] \in 0..(Fan * Fan * Fan) \cup {None}
    /\ mem.next \in BootPageNext..BootPagesTop
    /\ mem.kernel_slack <= mem.kernel_top
    /\ pc \in {"multiboot", "halted", "console", "vm_page", "vm_hash", "acpi", "kmalloc", "sync",
               "ap", "done"}
    /\ walk \in Seq(Nat)

\* The kernel image and every page the slack allocator has grown into stay
\* mapped at KERNEL_VADDR to themselves through the whole boot: no identity
\* map or unmap of firmware tables, framebuffer or APIC disturbs them.
KernelImageMapped ==
    mem.ok =>
        \A q \in 0..(PageNum(mem.kernel_top) - 1) :
            Translate(mem, KernelVaddr(q * PageUnits)) = q

\* After vm_boot_sync the frames the page database holds RESERVED are
\* exactly the frames of RAM the boot page tables map, and its free list
\* is sound (spec section 4.3: sync excludes the frames early boot
\* consumed, whatever order the walk meets them in).
BootFramesReserved ==
    (pc \in {"ap", "done"} /\ mem.ok) =>
        /\ {p \in Pages : flags[p] = PDB!RESERVED} = ToSet(SyncWalk(mem)) \cap Pages
        /\ PDB!FreeListSound

\* Every page the database holds FREE, from page_db_init on, lies wholly
\* in RAM the memory map marks available: the truncation of mmap_top to
\* whole 2 MiB pages leaves out a partial top page, and the holes below
\* it fall in the kernel's reserved prefix (spec section 4.2: RESERVED
\* pages are never handed out).
InRam(a) == \E i \in 1..Len(Mmap) :
                Mmap[i].avail /\ Mmap[i].addr <= a /\ a < Mmap[i].addr + Mmap[i].len

FreePagesInRam ==
    \A p \in Pages :
        flags[p] = PDB!FREE =>
            \A a \in (p * PageUnits)..((p + 1) * PageUnits - 1) : InRam(a)

\* The boot never runs out of boot frames: every table vm_boot_map_page
\* has to add for the framebuffer, the ACPI tables, the slack and the two
\* APIC windows comes from the BOOT_PAGE_NEXT..BOOT_PAGES_TOP pool
\* without boot_page_alloc's check failing, for every input and either
\* layout the boot stubs leave.
BootFramesSuffice == mem.ok

\* map_range twice is map_range once, and unmap_range then map_range
\* restores every translation (spec section 8 property 8), from every
\* table state the boot reaches, for the ranges the kernel maps.
Probes ==
    {LET b == TagWalk(i.tags, 8, NoBootInfo) IN <<b.fb_addr, FbSize(b)>> :
        i \in MultibootInfos} \cup
    {<<a[1], a[2]>> : a \in AcpiTables \ {NoAcpi}} \cup
    {<<IoApicAddr, Unit>>, <<LapicAddr, Unit>>}

MapIdempotent ==
    mem.ok =>
        \A r \in Probes :
            LET m == MapRange(mem, r[1], r[1], r[2])
                u == MapRange(UnmapRange(m, r[1], r[2]), r[1], r[1], r[2])
            IN  m.ok =>
                  /\ MapRange(m, r[1], r[1], r[2]) = m
                  /\ \A q \in 0..(PageNum(r[2] + Offset(r[1])) - 1) :
                        Translate(u, r[1] + q * PageUnits)
                          = Translate(m, r[1] + q * PageUnits)

==============================================================================
