-------------------------------- MODULE Slab --------------------------------
(***************************************************************************)
(* The slab allocator of src/src/slab.c as kmalloc.c sets it up: the root *)
(* slab list sl_root (slabs of PAGE_2M_SIZE cut into KMALLOC_CHUNK_SIZE   *)
(* chunks, its first slab reserved on the kernel slack) and one size      *)
(* class of sl_table, whose slabs are chunks of the root list (the one    *)
(* thread_init takes for thread records).                                 *)
(*                                                                         *)
(* A chunk address is <<slab, index>>: the slab's base plus               *)
(* index << chunk_shift.  A slab of the child list is itself a root chunk,*)
(* so its id is a root chunk address, and the mask of slab_list_free      *)
(* (addr & ~(size - 1)) is the first component.  Each list is guarded by  *)
(* its own lock for the whole of slab_list_alloc / slab_list_free, and    *)
(* the child takes the root's lock inside its own, so every call is one   *)
(* action; the nested calls are RECURSIVE operators over the allocator    *)
(* state.                                                                 *)
(***************************************************************************)
EXTENDS Integers, Sequences, FiniteSets, SequencesExt

CONSTANTS
    HeaderSize,     \* sizeof(struct slab_t): the header before chunk_list[]
    RootSize,       \* PAGE_2M_SIZE: size of a root slab
    RootChunk,      \* KMALLOC_CHUNK_SIZE: root chunk size and child slab size
    ElemSize,       \* sizeof(struct thread_t), passed to kmalloc_get_slab
    MaxHeld,        \* chunks the clients hold at once
    NULL            \* the NULL pointer

ASSUME HeaderSize \in Nat /\ MaxHeld \in Nat
ASSUME \A x \in {RootSize, RootChunk, ElemSize} : x \in Nat \ {0, 1}


-----------------------------------------------------------------------------
(* Geometry.                                                              *)

\* Bit length of v: 32 - __builtin_clz(v) for v > 0.
RECURSIVE BitLen(_)
BitLen(v) == IF v = 0 THEN 0 ELSE 1 + BitLen(v \div 2)

\* ceil_pow2(x) == 32 - __builtin_clz(x - 1), for x > 1.
CeilPow2(x) == BitLen(x - 1)

\* The geometry slab_init computes from the slab and chunk size.
Geometry(size, chunk) ==
    LET shift == CeilPow2(chunk)
        csize == 2^shift
        n == size \div csize
        cache == HeaderSize + n * 2
    IN  [shift |-> shift, n |-> n, nres |-> (cache + csize - 1) \div csize]

\* kmalloc_get_slab accepts element shifts MIN_SL_SHIFT..MAX_SL_SHIFT.
ASSUME CeilPow2(ElemSize) \in 4..9

Lists == {"root", "child"}
Geo == [l \in Lists |-> IF l = "root" THEN Geometry(RootSize, RootChunk)
                        ELSE Geometry(RootChunk, 2^CeilPow2(ElemSize))]

\* The sizes asked of each list, and the sizes of their slabs.
Requested(l) == IF l = "root" THEN RootChunk ELSE ElemSize
SlabSize(l) == IF l = "root" THEN RootSize ELSE RootChunk
LeastPow2(x) == CHOOSE k \in 0..BitLen(x) : 2^k >= x /\ (k = 0 \/ 2^(k - 1) < x)

\* On the sizes the kernel passes, slab_init cuts a slab as it means to:
\* ceil_pow2 agrees with its definition, the chunks are the least power
\* of two that holds the size asked, and num_reserved is the least number
\* of chunks that hold the header and chunk_list[], within the slab.  A
\* fact about the constants, checked once.
ASSUME \A l \in Lists :
           LET g == Geo[l]
               table == HeaderSize + 2 * g.n
           IN  /\ CeilPow2(SlabSize(l)) = LeastPow2(SlabSize(l))
               /\ g.shift = LeastPow2(Requested(l))
               /\ g.n * 2^g.shift = SlabSize(l)
               /\ g.nres * 2^g.shift >= table
               /\ (g.nres - 1) * 2^g.shift < table
               /\ g.nres < g.n

\* sl_owner: the child list takes its slabs from the root list.
Owner(l) == IF l = "child" THEN "root" ELSE NULL

RootSlab == <<"slack">>
SlabIds == {RootSlab} \cup ({RootSlab} \X (0..(Geo["root"].n - 1)))
\* chunk_list[] indices; slab_init writes one past the last chunk when
\* num_reserved >= num_chunks.
Idx == 0..Max({Geo[l].n : l \in Lists})

U16 == 2^16

\* The list whose slabs a slab id denotes.
ListOf(s) == IF s = RootSlab THEN "root" ELSE "child"

VARIABLES
    heap,       \* slab headers and the free_slabs / used_slabs lists
    childInit,  \* kmalloc_get_slab has initialised the class's slab list
    held,       \* <<list, address>> of the chunks clients hold
    failed      \* history: the last allocation returned NULL

vars == <<heap, childInit, held, failed>>

-----------------------------------------------------------------------------
(* The slab primitives, as operators over the allocator state h.         *)

\* slab_init: chunks below num_reserved hold the header; the others are
\* linked in index order; the loop leaves i = max(num_reserved,
\* num_chunks - 1) and chunk_list[i] ends the list.
SlabInit(h, s, g) ==
    LET last == IF g.nres > g.n - 1 THEN g.nres ELSE g.n - 1
    IN  [h EXCEPT
           !.link[s] = [i \in Idx |-> IF i >= g.nres /\ i < last THEN i + 1
                                      ELSE 0],
           !.fl[s] = g.nres,
           !.nfree[s] = (g.n - g.nres) % U16,
           !.rsv[s] = FALSE]

\* slab_alloc: <<state, index or 0>>.
SlabAlloc(h, s) ==
    LET index == h.fl[s]
    IN  IF index = 0 THEN <<h, 0>>
        ELSE <<[h EXCEPT !.fl[s] = h.link[s][index],
                         !.nfree[s] = (@ + U16 - 1) % U16], index>>

\* Mutant: the freed chunk is not linked to the old head.
SlabFreeNoLink(h, s, index) ==
    [h EXCEPT !.fl[s] = index, !.nfree[s] = (@ + 1) % U16]

\* Mutant: the index is taken from the address without subtracting the
\* slab base (a slab one slab-size up).
SlabFreeNoBase(h, s, index) ==
    LET i == index + Geo[ListOf(s)].n
    IN  [h EXCEPT !.link[s][i] = h.fl[s], !.fl[s] = i, !.nfree[s] = (@ + 1) % U16]

\* slab_free
SlabFree(h, s, index) ==
    [h EXCEPT !.link[s][index] = h.fl[s],
              !.fl[s] = index,
              !.nfree[s] = (@ + 1) % U16]

IsEmpty(h, s) == h.nfree[s] = Geo[ListOf(s)].n - Geo[ListOf(s)].nres
IsFull(h, s) == h.nfree[s] = 0

\* slab_list_remove: the slab is unlinked from whichever list it is on.
ListRemove(h, l, s) ==
    [h EXCEPT !.free[l] = Remove(@, s), !.used[l] = Remove(@, s)]

\* slab_list_insert at the head of free_slabs or used_slabs.
InsertFree(h, l, s) == [h EXCEPT !.free[l] = Cons(s, @)]
InsertUsed(h, l, s) == [h EXCEPT !.used[l] = Cons(s, @)]

Addr(s, index) == IF index = 0 THEN NULL ELSE <<s, index>>

\* sys_alloc_page is a stub that returns 0: a list without an owner gets
\* no slab beyond the one reserved on the slack.
SysAllocPage == NULL

\* Mutant: a slab left full is not moved to used_slabs.
RECURSIVE SlabListAllocNoMove(_, _)
SlabListAllocNoMove(h, l) ==
    IF h.free[l] # <<>>
    THEN LET s == Head(h.free[l])
             r == SlabAlloc(h, s)
         IN  <<r[1], Addr(s, r[2])>>
    ELSE LET p == IF Owner(l) # NULL THEN SlabListAllocNoMove(h, Owner(l))
                  ELSE <<h, SysAllocPage>>
         IN  IF p[2] = NULL THEN <<p[1], NULL>>
             ELSE LET s == p[2]
                      r == SlabAlloc(InsertFree(SlabInit(p[1], s, Geo[l]), l, s), s)
                  IN  <<r[1], Addr(s, r[2])>>

\* Mutant: an empty list fails without asking its owner for a slab.
SlabListAllocNoOwner(h, l) ==
    IF h.free[l] # <<>>
    THEN LET s == Head(h.free[l])
             r == SlabAlloc(h, s)
         IN  <<IF IsFull(r[1], s) THEN InsertUsed(ListRemove(r[1], l, s), l, s)
               ELSE r[1],
               Addr(s, r[2])>>
    ELSE <<h, SysAllocPage>>

\* slab_list_alloc(sl): <<state, address or NULL>>.
RECURSIVE SlabListAlloc(_, _)
SlabListAlloc(h, l) ==
    IF h.free[l] # <<>>
    THEN LET s == Head(h.free[l])
             r == SlabAlloc(h, s)
         IN  <<IF IsFull(r[1], s) THEN InsertUsed(ListRemove(r[1], l, s), l, s)
               ELSE r[1],
               Addr(s, r[2])>>
    ELSE LET p == IF Owner(l) # NULL THEN SlabListAlloc(h, Owner(l))
                  ELSE <<h, SysAllocPage>>
         IN  IF p[2] = NULL THEN <<p[1], NULL>>
             ELSE LET s == p[2]
                      r == SlabAlloc(InsertFree(SlabInit(p[1], s, Geo[l]), l, s), s)
                  IN  <<r[1], Addr(s, r[2])>>

\* Mutant: an empty slab is released even when it is marked RESERVED.
RECURSIVE SlabListFreeAnyEmpty(_, _, _)
SlabListFreeAnyEmpty(h, l, addr) ==
    LET s == addr[1]
        h1 == SlabFree(h, s, addr[2])
    IN  IF IsFull(h, s) THEN InsertFree(ListRemove(h1, l, s), l, s)
        ELSE IF IsEmpty(h1, s)
        THEN LET h2 == ListRemove(h1, l, s)
             IN  IF Owner(l) # NULL THEN SlabListFreeAnyEmpty(h2, Owner(l), s)
                 ELSE h2
        ELSE h1

\* Mutant: an emptied slab is handed back to the owner without
\* slab_list_remove, so it stays on the list's free_slabs.
RECURSIVE SlabListFreeNoRemove(_, _, _)
SlabListFreeNoRemove(h, l, addr) ==
    LET s == addr[1]
        h1 == SlabFree(h, s, addr[2])
    IN  IF IsFull(h, s) THEN InsertFree(ListRemove(h1, l, s), l, s)
        ELSE IF IsEmpty(h1, s) /\ ~h1.rsv[s]
        THEN IF Owner(l) # NULL THEN SlabListFreeNoRemove(h1, Owner(l), s) ELSE h1
        ELSE h1

\* slab_list_free(sl, addr): a slab that was full goes back to free_slabs;
\* one that became empty and is not RESERVED is unlinked and its memory
\* returned to the owner list (or to sys_free_page, a no-op).
RECURSIVE SlabListFree(_, _, _)
SlabListFree(h, l, addr) ==
    LET s == addr[1]
        wasFull == IsFull(h, s)
        h1 == SlabFree(h, s, addr[2])
    IN  IF wasFull THEN InsertFree(ListRemove(h1, l, s), l, s)
        ELSE IF IsEmpty(h1, s) /\ ~h1.rsv[s]
        THEN LET h2 == ListRemove(h1, l, s)
             IN  IF Owner(l) # NULL THEN SlabListFree(h2, Owner(l), s) ELSE h2
        ELSE h1

-----------------------------------------------------------------------------
(* Actions.                                                               *)

\* kmalloc_init: slab_list_init(&sl_root, NULL, PAGE_2M_SIZE,
\* KMALLOC_CHUNK_SIZE) and slab_list_reserve_on_slack, whose slab is
\* marked SLAB_RESERVED.
Init ==
    /\ heap = LET h0 == [link |-> [s \in SlabIds |-> [i \in Idx |-> 0]],
                         fl |-> [s \in SlabIds |-> 0],
                         nfree |-> [s \in SlabIds |-> 0],
                         rsv |-> [s \in SlabIds |-> FALSE],
                         free |-> [l \in Lists |-> <<>>],
                         used |-> [l \in Lists |-> <<>>]]
                  h1 == SlabInit(h0, RootSlab, Geo["root"])
              IN  InsertFree([h1 EXCEPT !.rsv[RootSlab] = TRUE], "root", RootSlab)
    /\ childInit = FALSE
    /\ held = {}
    /\ failed = FALSE

\* thread_init -> kmalloc_get_slab(sizeof(struct thread_t)): the class's
\* list is initialised on first use, sl_owner = &sl_root (the chunk sizes
\* agree, so slab_list_init succeeds).
GetSlab ==
    /\ ~childInit
    /\ childInit' = TRUE
    /\ UNCHANGED <<heap, held, failed>>

\* slab_list_alloc on list l: kmalloc_alloc for the root list,
\* thread_alloc for the class list.
Alloc(l) ==
    LET r == SlabListAlloc(heap, l)
    IN
    /\ l = "root" \/ childInit
    /\ Cardinality(held) < MaxHeld
    /\ heap' = r[1]
    /\ held' = IF r[2] = NULL THEN held ELSE held \cup {<<l, r[2]>>}
    /\ failed' = (r[2] = NULL)
    /\ UNCHANGED childInit

\* slab_list_free of a chunk a client holds: kmalloc_free, or the class
\* list's free of a thread record.
Free(c) ==
    /\ c \in held
    /\ heap' = SlabListFree(heap, c[1], c[2])
    /\ held' = held \ {c}
    /\ failed' = FALSE
    /\ UNCHANGED childInit

Next ==
    \/ GetSlab
    \/ \E l \in Lists : Alloc(l)
    \/ \E c \in held : Free(c)

Spec == Init /\ [][Next]_vars

-----------------------------------------------------------------------------
(* Properties.                                                            *)

Live(l) == ToSet(heap.free[l]) \cup ToSet(heap.used[l])

\* The chunk indices on a slab's free list, walking at most its size.
RECURSIVE Chain(_, _, _)
Chain(s, i, k) ==
    IF i = 0 \/ k = 0 THEN <<>> ELSE <<i>> \o Chain(s, heap.link[s][i], k - 1)

FreeChunks(s) == Chain(s, heap.fl[s], Geo[ListOf(s)].n)

\* Chunks of slab s handed out: to a client, or to the child list as one
\* of its slabs.
HandedOut(s) ==
    {i \in Idx : <<ListOf(s), <<s, i>>>> \in held \/ <<s, i>> \in Live("child")}

TypeOK ==
    /\ heap.link \in [SlabIds -> [Idx -> Idx]]
    /\ heap.fl \in [SlabIds -> Idx]
    /\ heap.nfree \in [SlabIds -> 0..(U16 - 1)]
    /\ heap.rsv \in [SlabIds -> BOOLEAN]
    /\ \A l \in Lists : heap.free[l] \in Seq(SlabIds) /\ heap.used[l] \in Seq(SlabIds)
    /\ childInit \in BOOLEAN
    /\ failed \in BOOLEAN

\* Every chunk of every live slab, at both levels, is exactly one of: a
\* header chunk below num_reserved, on the slab's free list (once, ending
\* at 0, counted by num_free), or handed out once to a client or as a
\* child slab (spec section 8 properties 2 and 3).
ChunkConservation ==
    \A l \in Lists : \A s \in Live(l) :
        LET g == Geo[l]
            fc == FreeChunks(s)
        IN  /\ IsInjective(fc)
            /\ Len(fc) = heap.nfree[s]
            /\ ToSet(fc) \subseteq g.nres..(g.n - 1)
            /\ ToSet(fc) \cap HandedOut(s) = {}
            /\ HandedOut(s) \subseteq g.nres..(g.n - 1)
            /\ g.nres + Len(fc) + Cardinality(HandedOut(s)) = g.n

\* A slab is on one list of its own slab list only; used_slabs holds only
\* full slabs, free_slabs only slabs with a chunk to give; the slab
\* reserved on the slack is never released.
ListsPartition ==
    /\ \A l \in Lists :
         /\ IsInjective(heap.free[l] \o heap.used[l])
         /\ \A s \in ToSet(heap.used[l]) : IsFull(heap, s)
         /\ \A s \in ToSet(heap.free[l]) : ~IsFull(heap, s)
    /\ RootSlab \in Live("root")

\* An allocation returns NULL only when the list had no free chunk and no
\* way to get a new slab: the root list has no owner and sys_alloc_page
\* gives nothing, the class list's owner is itself out of chunks.
HasRoom(l) == heap.free[l] # <<>>
AllocFailsOnlyWhenExhausted ==
    [][\A l \in Lists :
         (Alloc(l) /\ failed') =>
            ~HasRoom(l) /\ (Owner(l) = NULL \/ ~HasRoom(Owner(l)))]_vars

\* The memory handed out never overlaps: a class chunk a client holds lies
\* in a slab still live on the class list (slab_list_free gives an
\* emptied class slab back to sl_root only when none of its chunks is
\* held), and no root chunk a client holds from kmalloc_alloc is at the
\* same time a class slab.  Across the two levels of slab_list_free and
\* slab_list_alloc's owner call this is what keeps two callers from
\* writing the same bytes.
HeldMemoryDisjoint ==
    \A c \in held :
        /\ c[1] = "child" => c[2][1] \in Live("child")
        /\ c[1] = "root" => c[2] \notin Live("child")

=============================================================================
