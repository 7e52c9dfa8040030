------------------------------ MODULE TwoTier ------------------------------
(***************************************************************************)
(* The two tiers of the physical-page allocator of src/src/vm_page.c       *)
(* (spec section 4.2): the big-page database of PageDB, and a small-page   *)
(* database that page_db_init_4k builds inside one big page a client has  *)
(* allocated from it.  The small database is the same struct page_db_t    *)
(* and the same code (page_db_alloc, page_db_free, page_db_free_addr) with *)
(* page_index set to its backing page, which switches page_db_index2addr  *)
(* and page_db_addr2index to 4K slots within that page.  Its first slots  *)
(* hold its own header and descriptor array and stay RESERVED.            *)
(*                                                                         *)
(* Both databases are used from the boot CPU only, so each call is one    *)
(* step.  One small database is built, from a page the client holds; the  *)
(* client does not free that page while it uses the small database.       *)
(***************************************************************************)
EXTENDS PageDB

CONSTANTS
    SmallPages,     \* PAGE_2M_SIZE >> PAGE_4K_SHIFT
    SmallReserved   \* db_size >> PAGE_4K_SHIFT in page_db_init_4k

ASSUME /\ SmallPages = 2^(PageShift - SmallShift)
       /\ SmallReserved \in 1..(SmallPages - 1)

VARIABLES
    backing,        \* the small database's page_index; 0 before it exists
    sflags, snext_free, sfree_list, snum_free, snum_reserved,
    sphase,         \* as phase; a failed check() stops the small database
    sowned          \* slots the client holds from the small database

smallVars == <<backing, sflags, snext_free, sfree_list, snum_free,
               snum_reserved, sphase, sowned>>
allVars == <<vars, smallVars>>

\* The small-page database: PageDB's definitions over its own fields.
SmallDb(b) == INSTANCE PageDB WITH
            NumPages <- SmallPages, NumReserved <- SmallReserved,
            Mapped <- {}, PageIndex <- b,
            flags <- sflags, next_free <- snext_free, free_list <- sfree_list,
            num_free <- snum_free, num_reserved <- snum_reserved,
            phase <- sphase, synced <- {}, owned <- sowned

SmallSlots == 0..(SmallPages - 1)

-----------------------------------------------------------------------------

\* The small database's memory is not in use yet: its fields hold what
\* page_db_init_pages would write, and no action reads them while
\* backing = 0 (page_index does not enter page_db_init_pages).
TwoTierInit ==
    /\ Init
    /\ backing = 0
    /\ SmallDb(0)!InitPages
    /\ sphase = "sync"
    /\ sowned = {}

\* A big-page step; the client keeps the small database's page.
BigStep ==
    /\ \/ \E p \in Mapped : SyncReserve(p)
       \/ SyncDone
       \/ Alloc
       \/ \E p \in Pages \ {backing} : Free(p) \/ FreeAddr(p)
    /\ UNCHANGED smallVars

\* page_db_init_4k(pdb, p) on a big page p the client holds: page_index =
\* p, num_pages = 512, num_reserved = db_size >> PAGE_4K_SHIFT, and
\* page_db_init_pages.
Init4k(p) ==
    /\ phase = "run" /\ backing = 0 /\ p \in owned
    /\ backing' = p
    /\ sflags' = SmallDb(p)!InitFlags
    /\ snext_free' = SmallDb(p)!InitNextFree
    /\ sfree_list' = SmallReserved
    /\ snum_free' = SmallPages - SmallReserved
    /\ snum_reserved' = SmallReserved
    /\ sphase' = "run"
    /\ sowned' = {}
    /\ UNCHANGED vars

\* page_db_alloc, page_db_free and page_db_free_addr on the small
\* database, with the address page_db_index2addr gives for the slot.
SmallStep ==
    \E b \in Pages \ {0} :
        /\ b = backing
        /\ \/ SmallDb(b)!Alloc
           \/ \E i \in SmallSlots : SmallDb(b)!Free(i) \/ SmallDb(b)!FreeAddr(i)
        /\ UNCHANGED <<vars, backing>>

TwoTierNext ==
    \/ BigStep
    \/ \E p \in Pages : Init4k(p)
    \/ SmallStep

TwoTierSpec == TwoTierInit /\ [][TwoTierNext]_allVars

-----------------------------------------------------------------------------
(* Properties.                                                            *)

TwoTierTypeOK ==
    /\ TypeOK /\ SmallDb(0)!TypeOK
    /\ backing \in Pages

\* The small-page database lies inside its backing page and keeps to it:
\* its free list is sound, the big database has that page USED, and every
\* slot a client holds has an address inside the page, past the header,
\* that page_db_addr2index passes its checks on and maps back to the slot
\* (spec section 4.2: translation base + (i << 12)).
SmallPagesInBacking ==
    \A b \in Pages \ {0} : b = backing /\ sphase # "halted" =>
        /\ SmallDb(b)!FreeListSound
        /\ flags[b] = USED
        /\ \A i \in sowned :
               LET a == SmallDb(b)!Index2Addr(i)
               IN  /\ a >= Index2Addr(b) + SmallReserved * 2^SmallShift
                   /\ a < Index2Addr(b + 1)
                   /\ SmallDb(b)!Addr2IndexChecks(a)
                   /\ SmallDb(b)!Addr2Index(a) = i

\* Both tiers implement the abstract allocator of PageAlloc, the small one
\* under the same mapping as the big one (which reads the flags and the
\* links, not page_index): each slot is FREE, USED or RESERVED, alloc and
\* free move one slot between the first two, and the header slots are
\* never handed out.
SPA == INSTANCE PageAlloc WITH
         NumPages <- SmallPages, NumReserved <- SmallReserved,
         free <- SmallDb(0)!OnFreeList,
         used <- {i \in SmallSlots : sflags[i] = USED},
         reserved <- {i \in SmallSlots : sflags[i] = RESERVED}

TiersRefine == Refinement /\ SPA!Spec

====
