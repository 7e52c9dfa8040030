\* Scaled kmalloc: a root slab of 4 chunks (one holds the header) and a
\* class list whose slabs are root chunks cut into 4 chunks (two hold the
\* header), with the real 28-byte struct slab_t header.
CONSTANTS
    HeaderSize = 28
    RootSize = 512
    RootChunk = 128
    ElemSize = 24
    MaxHeld = 5
    NULL = NULL
SPECIFICATION Spec
INVARIANTS
    TypeOK
    ChunkConservation
    ListsPartition
    HeldMemoryDisjoint
PROPERTIES
    AllocFailsOnlyWhenExhausted
