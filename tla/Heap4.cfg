\* Any sequence of allocations and frees in a heap for up to seven blocks.
SPECIFICATION Spec
CONSTANTS
    ucHeap = 1
    configTOTAL_HEAP_SIZE = 33
    portBYTE_ALIGNMENT = 2
    BlockLinkSize = 2
    SizeMod = 128
    WantedSizes <- SmallAndHuge
INVARIANTS
    HeapIsWhole
    MemoryIsNotShared
    FailsOnlyForWantOfRoom
