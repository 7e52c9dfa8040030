------------------------------- MODULE PageDB -------------------------------
(***************************************************************************)
(* The big-page database of src/src/vm_page.c: page descriptors with      *)
(* flags FREE / USED / RESERVED and a singly-linked free list threaded    *)
(* through next_free, index 0 being the end of the list.                  *)
(*                                                                         *)
(* The database is used in two phases.  vm_boot_sync (vm_boot.c) calls    *)
(* page_db_reserve_page on every frame the boot page tables map, in the   *)
(* order it walks them; afterwards clients allocate and free pages.       *)
(* Nothing takes pdb->lock and every caller runs on the boot CPU before   *)
(* the APs start, so the operations are sequential and each one is an     *)
(* action.  A failed check() halts the kernel: phase becomes "halted".    *)
(***************************************************************************)
EXTENDS Naturals, Sequences, FiniteSets, SequencesExt

CONSTANTS
    NumPages,       \* pdb->num_pages
    NumReserved,    \* PAGE_2M_NUM(kernel_top): pages of the kernel image
    Mapped,         \* frame indices referenced by the boot page tables
    PageShift,      \* PAGE_2M_SHIFT
    SmallShift,     \* PAGE_4K_SHIFT
    IndexBits,      \* width of the uint32_t index in page_db_free_addr
    PageIndex       \* pdb->page_index: 0 for the big-page database, the
                    \* backing big page of a small-page database

ASSUME /\ NumReserved \in 1..(NumPages - 1)
       /\ Mapped \subseteq Nat
       /\ PageShift \in Nat /\ IndexBits \in Nat
       /\ SmallShift \in 0..PageShift

Pages == 0..(NumPages - 1)

\* PGF_FREE, PGF_USED, PGF_RESERVED of vm_page.h
FREE == "FREE"
USED == "USED"
RESERVED == "RESERVED"

VARIABLES
    flags,          \* pages[i].flags
    next_free,      \* pages[i].next_free
    free_list,      \* pdb->free_list
    num_free,       \* pdb->num_free
    num_reserved,   \* pdb->num_reserved
    phase,          \* "sync" (inside vm_boot_sync), "run", or "halted"
    synced,         \* frames vm_boot_sync has already visited
    owned           \* pages the clients hold (allocated, not yet freed)

pdbVars == <<flags, next_free, free_list, num_free, num_reserved>>
vars == <<flags, next_free, free_list, num_free, num_reserved, phase,
          synced, owned>>

TypeOK ==
    /\ flags \in [Pages -> {FREE, USED, RESERVED}]
    /\ next_free \in [Pages -> 0..NumPages]
    /\ free_list \in 0..NumPages
    /\ num_free \in Nat
    /\ num_reserved \in 0..NumPages
    /\ phase \in {"sync", "run", "halted"}
    /\ synced \subseteq Mapped
    /\ owned \subseteq Pages

\* check(x) failed: the kernel prints and halts.
Panic == phase' = "halted" /\ UNCHANGED pdbVars

-----------------------------------------------------------------------------
(* Translations between indices and addresses.                            *)

\* Mutant: the small-page branch forgets the backing page's base.
Index2AddrNoBase(i) ==
    IF PageIndex # 0 THEN i * 2^SmallShift ELSE i * 2^PageShift

\* page_db_index2addr: a small-page database's slot i is at the backing
\* page's base plus i << PAGE_4K_SHIFT, a big page at i << PAGE_2M_SHIFT.
Index2Addr(i) ==
    IF PageIndex # 0 THEN PageIndex * 2^PageShift + i * 2^SmallShift
                     ELSE i * 2^PageShift

\* page_db_addr2index: PAGE_4K_INDEX(addr), the 4K slot within its 2M
\* page, or addr >> PAGE_2M_SHIFT.
Addr2Index(addr) ==
    IF PageIndex # 0 THEN (addr \div 2^SmallShift) % 2^(PageShift - SmallShift)
                     ELSE addr \div 2^PageShift

\* The two check()s page_db_addr2index makes for a small-page database.
Addr2IndexChecks(addr) ==
    PageIndex # 0 =>
        /\ addr > Index2Addr(0) /\ addr < Index2Addr(0) + 2^PageShift
        /\ Addr2Index(addr) >= num_reserved /\ Addr2Index(addr) < NumPages

\* The uint32_t index of page_db_free_addr, which is computed with
\* page_db_index2addr (not addr2index): addr << PAGE_2M_SHIFT, truncated.
FreeAddrIndex(addr) == Index2Addr(addr) % 2^IndexBits

-----------------------------------------------------------------------------
(* The operations, as operators over their arguments.                     *)

\* page_db_free(index)
PageDbFree(index) ==
    IF ~(index >= num_reserved /\ index < NumPages) \/ flags[index] = FREE
    THEN Panic
    ELSE /\ flags' = [flags EXCEPT ![index] = FREE]
         /\ next_free' = [next_free EXCEPT ![index] = free_list]
         /\ free_list' = index
         /\ num_free' = num_free + 1
         /\ UNCHANGED <<num_reserved, phase>>

\* Mutant: the middle of the free list is never unlinked.
ReserveNoUnlink(p) ==
    IF p >= NumPages \/ flags[p] = RESERVED
    THEN UNCHANGED <<pdbVars, phase>>
    ELSE IF flags[p] # FREE
    THEN Panic
    ELSE IF p = num_reserved
    THEN /\ flags' = [flags EXCEPT ![p] = RESERVED]
         /\ next_free' = [next_free EXCEPT ![p] = 0]
         /\ num_reserved' = num_reserved + 1
         /\ free_list' = num_reserved + 1
         /\ UNCHANGED <<num_free, phase>>
    ELSE /\ flags' = [flags EXCEPT ![p] = RESERVED]
         /\ UNCHANGED <<next_free, free_list, num_free, num_reserved, phase>>

\* page_db_reserve_page(p): out of range or already RESERVED is a no-op,
\* anything but FREE fails the check.  The page at num_reserved grows the
\* reserved prefix and the free list restarts after it; any other page is
\* unlinked from the first descriptor i >= num_reserved whose next_free
\* names it, if there is one.
ReservePage(p) ==
    IF p >= NumPages \/ flags[p] = RESERVED
    THEN UNCHANGED <<pdbVars, phase>>
    ELSE IF flags[p] # FREE
    THEN Panic
    ELSE IF p = num_reserved
    THEN /\ flags' = [flags EXCEPT ![p] = RESERVED]
         /\ next_free' = [next_free EXCEPT ![p] = 0]
         /\ num_reserved' = num_reserved + 1
         /\ free_list' = num_reserved + 1
         /\ UNCHANGED <<num_free, phase>>
    ELSE LET preds == {i \in num_reserved..(NumPages - 1) : next_free[i] = p}
         IN  IF preds = {}
             THEN UNCHANGED <<pdbVars, phase>>
             ELSE LET i == Min(preds)
                  IN  /\ next_free' = [next_free EXCEPT ![i] = next_free[p]]
                      /\ flags' = [flags EXCEPT ![p] = RESERVED]
                      /\ UNCHANGED <<free_list, num_free, num_reserved, phase>>

-----------------------------------------------------------------------------
(* Actions.                                                               *)

\* page_db_init_pages: the first num_reserved pages RESERVED, the others
\* FREE and linked in index order, the last one ending the list.
InitFlags == [i \in Pages |-> IF i < NumReserved THEN RESERVED ELSE FREE]
InitNextFree ==
    [i \in Pages |-> IF i >= NumReserved /\ i < NumPages - 1 THEN i + 1 ELSE 0]

InitPages ==
    /\ flags = InitFlags
    /\ next_free = InitNextFree
    /\ free_list = NumReserved
    /\ num_free = NumPages - NumReserved
    /\ num_reserved = NumReserved

\* vm_page_init -> page_db_init (page_index = 0) -> page_db_init_pages.
Init ==
    /\ InitPages
    /\ phase = "sync"
    /\ synced = {}
    /\ owned = {}

\* One iteration of vm_boot_sync's walk: a mapped frame is reserved.
SyncReserve(p) ==
    /\ phase = "sync"
    /\ p \in Mapped \ synced
    /\ ReservePage(p)
    /\ synced' = synced \cup {p}
    /\ UNCHANGED owned

\* vm_boot_sync has visited every mapped frame (page_db_dump_ranges only
\* prints).
SyncDone ==
    /\ phase = "sync"
    /\ synced = Mapped
    /\ phase' = "run"
    /\ UNCHANGED <<pdbVars, synced, owned>>

\* Mutant: the popped page is flagged PGF_RESERVED instead of PGF_USED.
PopHeadReserved(index) ==
    /\ free_list' = next_free[index]
    /\ flags' = [flags EXCEPT ![index] = RESERVED]
    /\ num_free' = num_free - 1
    /\ UNCHANGED <<next_free, num_reserved>>

\* The body of "if (index > 0)" in page_db_alloc.
PopHead(index) ==
    /\ free_list' = next_free[index]
    /\ flags' = [flags EXCEPT ![index] = USED]
    /\ num_free' = num_free - 1
    /\ UNCHANGED <<next_free, num_reserved>>

\* Mutant: --num_free is made whether or not a page was found.
AllocStepAlwaysDec(index) ==
    IF index = 0
    THEN /\ num_free' = num_free - 1
         /\ UNCHANGED <<flags, next_free, free_list, num_reserved, phase>>
    ELSE IF index >= NumPages \/ flags[index] # FREE
    THEN Panic
    ELSE PopHead(index) /\ UNCHANGED phase

\* page_db_alloc with index = pdb->free_list: 0 means the list is empty
\* and is returned as is.  A head past the descriptor array (free_list =
\* num_pages) would read beyond pages[]: the model stops there as on a
\* failed check.
AllocStep(index) ==
    IF index = 0
    THEN UNCHANGED <<pdbVars, phase>>
    ELSE IF index >= NumPages \/ flags[index] # FREE
    THEN Panic
    ELSE PopHead(index) /\ UNCHANGED phase

\* A client calls page_db_alloc and keeps the page it returns.
Alloc ==
    /\ phase = "run"
    /\ AllocStep(free_list)
    /\ owned' = IF free_list \in 1..(NumPages - 1) /\ flags[free_list] = FREE
                 THEN owned \cup {free_list} ELSE owned
    /\ UNCHANGED synced

\* page_db_free on a page the client allocated.
Free(p) ==
    /\ phase = "run"
    /\ p \in owned
    /\ PageDbFree(p)
    /\ owned' = owned \ {p}
    /\ UNCHANGED synced

\* page_db_free_addr(page_db_index2addr(p)) on a page the client allocated:
\* the client no longer holds it; the page is freed only if the computed
\* index is non-zero.
FreeAddr(p) ==
    LET index == FreeAddrIndex(Index2Addr(p))
    IN
    /\ phase = "run"
    /\ p \in owned
    /\ IF index # 0 THEN PageDbFree(index) ELSE UNCHANGED <<pdbVars, phase>>
    /\ owned' = owned \ {p}
    /\ UNCHANGED synced

Next ==
    \/ \E p \in Mapped : SyncReserve(p)
    \/ SyncDone
    \/ Alloc
    \/ \E p \in Pages : Free(p) \/ FreeAddr(p)

Spec == Init /\ [][Next]_vars

-----------------------------------------------------------------------------
(* Properties.                                                            *)

\* The free list read from free_list along next_free, at most NumPages
\* links, and the index at which that walk stops.
RECURSIVE ChainFrom(_, _), ChainEnd(_, _)
ChainFrom(i, n) ==
    IF i = 0 \/ i >= NumPages \/ n = 0 THEN <<>>
    ELSE <<i>> \o ChainFrom(next_free[i], n - 1)
ChainEnd(i, n) ==
    IF i = 0 \/ i >= NumPages \/ n = 0 THEN i
    ELSE ChainEnd(next_free[i], n - 1)

FreeChain == ChainFrom(free_list, NumPages)
OnFreeList == ToSet(FreeChain)
FlaggedFree == {p \in Pages : flags[p] = FREE}

\* The free list ends at the sentinel 0, holds no page twice, and holds
\* exactly the pages flagged FREE (spec section 8 property 1): alloc pops
\* only FREE pages and never loses one, whatever page_db_reserve_page and
\* page_db_free did to the links before.
FreeListSound ==
    phase # "halted" =>
        /\ ChainEnd(free_list, NumPages) = 0
        /\ IsInjective(FreeChain)
        /\ OnFreeList = FlaggedFree

\* pdb->num_free counts the FREE pages.
NumFreeAccurate == phase # "halted" => num_free = Cardinality(FlaggedFree)

\* Every USED page is held by the client that allocated it: a page freed
\* through page_db_free_addr is back in the pool.
NoLeak == {p \in Pages : flags[p] = USED} = owned

\* The database implements PageAlloc: the pages on the free list are its
\* free set, and the flags give its used and reserved sets.
PA == INSTANCE PageAlloc WITH
        free <- OnFreeList,
        used <- {p \in Pages : flags[p] = USED},
        reserved <- {p \in Pages : flags[p] = RESERVED}

Refinement == PA!Spec

=============================================================================
