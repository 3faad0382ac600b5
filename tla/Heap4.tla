-------------------------------- MODULE Heap4 ------------------------------
(***************************************************************************)
(* The heap (Source/portable/MemMang/heap_4.c): blocks with a header each  *)
(* that lie one behind the other, and the list of the free ones in the     *)
(* order of their addresses.                                               *)
(*                                                                         *)
(* pvPortMalloc does its work under vTaskSuspendAll and is one action;     *)
(* vPortFree marks the block before it suspends the scheduler and is two.  *)
(***************************************************************************)
EXTENDS Integers, SequencesExt

CONSTANTS
    ucHeap,                \* the address of the array
    configTOTAL_HEAP_SIZE,
    portBYTE_ALIGNMENT,
    BlockLinkSize,         \* sizeof( BlockLink_t )
    SizeMod,               \* a size_t counts modulo SizeMod
    WantedSizes            \* sizes asked for

ASSUME HeapAssumption ==
    /\ ucHeap \in Nat \ {0}
    /\ configTOTAL_HEAP_SIZE \in Nat
    /\ portBYTE_ALIGNMENT \in Nat \ {0}
    /\ BlockLinkSize \in Nat \ {0}
    /\ SizeMod \in Nat
    /\ WantedSizes \subseteq 0 .. SizeMod - 1

AlignDown(n) == (n \div portBYTE_ALIGNMENT) * portBYTE_ALIGNMENT
AlignUp(n) == AlignDown(n + portBYTE_ALIGNMENT - 1)

xHeapStructSize == AlignUp(BlockLinkSize)
heapMINIMUM_BLOCK_SIZE == 2 * xHeapStructSize
xBlockAllocatedBit == SizeMod \div 2

VARIABLES
    pxEnd,                           \* the end of the heap, or NULL
    freeList,                        \* the addresses from xStart.pxNextFreeBlock on, without pxEnd
    xBlockSize,                      \* [block -> its size without the bit], for the blocks there are
    allocated,                       \* the blocks with xBlockAllocatedBit
    xFreeBytesRemaining,
    xMinimumEverFreeBytesRemaining,
    releasing,                       \* those that vPortFree has marked and not yet put in the list
    given                            \* history: [pointer given out -> size asked for]

heapVars == <<pxEnd, freeList, xBlockSize, xFreeBytesRemaining, xMinimumEverFreeBytesRemaining>>
vars == <<heapVars, allocated, releasing, given>>

NULL == 0
Pointer(b) == b + xHeapStructSize

Without(f, S) == [x \in DOMAIN f \ S |-> f[x]]
With(f, x, y) == [z \in DOMAIN f \union {x} |-> IF z = x THEN y ELSE f[z]]
---------------------------------------------------------------------------
(* prvHeapInit: one free block from the first aligned address to the end marker *)

FirstBlock == AlignUp(ucHeap)
EndMarker == AlignDown(ucHeap + configTOTAL_HEAP_SIZE - xHeapStructSize)

\* prvHeapInit relies on both: there is room for a block, and its size does not reach the bit.
ASSUME HeapFits == FirstBlock < EndMarker /\ configTOTAL_HEAP_SIZE < xBlockAllocatedBit

Heap ==
    IF pxEnd # NULL
    THEN [list |-> freeList, size |-> xBlockSize, bytes |-> xFreeBytesRemaining,
          minimum |-> xMinimumEverFreeBytesRemaining]
    ELSE [list |-> <<FirstBlock>>, size |-> [b \in {FirstBlock} |-> EndMarker - FirstBlock],
          bytes |-> EndMarker - FirstBlock, minimum |-> EndMarker - FirstBlock]

SetHeap(h) ==
    /\ pxEnd' = EndMarker
    /\ freeList' = h.list
    /\ xBlockSize' = h.size
    /\ xFreeBytesRemaining' = h.bytes
    /\ xMinimumEverFreeBytesRemaining' = h.minimum
---------------------------------------------------------------------------
(* The free list *)

\* The free blocks before the first that is not below b.
Below(list, b) ==
    Cardinality({i \in DOMAIN list : \A j \in 1 .. i : list[j] < b})

\* Variant: does not join the block with the one behind it.
InsertWithoutJoiningNext(h, b) ==
    LET n == Below(h.list, b)
        left == n > 0 /\ h.list[n] + h.size[h.list[n]] = b
        start == IF left THEN h.list[n] ELSE b
        joined == IF left THEN h.size[start] + h.size[b] ELSE h.size[b]
    IN  [h EXCEPT
           !.list = SubSeq(@, 1, n) \o (IF left THEN <<>> ELSE <<b>>)
                    \o SubSeq(@, n + 1, Len(@)),
           !.size = With(Without(@, {b}), start, joined)]

\* In the order of the addresses, joined with the free blocks that it touches.
prvInsertBlockIntoFreeList(h, b) ==
    LET n == Below(h.list, b)
        left == n > 0 /\ h.list[n] + h.size[h.list[n]] = b
        start == IF left THEN h.list[n] ELSE b
        joined == IF left THEN h.size[start] + h.size[b] ELSE h.size[b]
        right == n < Len(h.list) /\ start + joined = h.list[n + 1]
        size == IF right THEN joined + h.size[h.list[n + 1]] ELSE joined
        gone == (IF left THEN {b} ELSE {}) \union (IF right THEN {h.list[n + 1]} ELSE {})
    IN  [h EXCEPT
           !.list = SubSeq(@, 1, n) \o (IF left THEN <<>> ELSE <<b>>)
                    \o SubSeq(@, IF right THEN n + 2 ELSE n + 1, Len(@)),
           !.size = With(Without(@, gone), start, size)]
---------------------------------------------------------------------------
(* pvPortMalloc *)

\* Variant: the size of a block has no bit to spare that marks it.
WantedWithoutBit(n) ==
    IF n = 0 THEN 0 ELSE AlignUp(n + xHeapStructSize) % SizeMod

\* The size of the block: room for the header, and aligned; 0 if nothing can be given.
Wanted(n) ==
    IF n = 0 \/ n >= xBlockAllocatedBit THEN 0 ELSE AlignUp(n + xHeapStructSize) % SizeMod

\* Variant: looks only at the first free block.
FitsFirst(h, wanted) ==
    {i \in DOMAIN h.list : i = 1 /\ h.size[h.list[i]] >= wanted}

\* The free blocks that are large enough, by their place in the list.
Fits(h, wanted) ==
    IF wanted <= h.bytes THEN {i \in DOMAIN h.list : h.size[h.list[i]] >= wanted} ELSE {}

\* What is left of the block becomes a free block if it is large enough.
Split(h, b, wanted) ==
    LET rest == h.size[b] - wanted IN
    IF rest <= heapMINIMUM_BLOCK_SIZE THEN h
    ELSE prvInsertBlockIntoFreeList(
             [h EXCEPT !.size = With(With(@, b, wanted), b + wanted, rest)], b + wanted)

Count(h, b, wanted) ==
    LET bytes == h.bytes - h.size[b] IN
    [h EXCEPT !.bytes = bytes, !.minimum = IF bytes < @ THEN bytes ELSE @]

\* The first free block that is large enough.
Allocate(n) ==
    LET wanted == Wanted(n)
        fits == Fits(Heap, wanted)
        i == CHOOSE k \in fits : \A j \in fits : k <= j
        b == Heap.list[i]
        split == Split([Heap EXCEPT !.list = RemoveAt(@, i)], b, wanted)
    IN  /\ wanted > 0
        /\ fits # {}
        /\ SetHeap(Count(split, b, wanted))
        /\ allocated' = allocated \union {b}
        /\ given' = With(given, Pointer(b), n)
        /\ UNCHANGED releasing

\* NULL is returned and vApplicationMallocFailedHook called.
FailToAllocate(n) ==
    /\ Wanted(n) = 0 \/ Fits(Heap, Wanted(n)) = {}
    /\ SetHeap(Heap)
    /\ UNCHANGED <<allocated, releasing, given>>

pvPortMalloc(n) == Allocate(n) \/ FailToAllocate(n)
---------------------------------------------------------------------------
(* vPortFree, of a pointer that was given out *)

Mark(p) ==
    LET b == p - xHeapStructSize IN
    /\ b \in allocated
    /\ allocated' = allocated \ {b}
    /\ releasing' = releasing \union {b}
    /\ given' = Without(given, {p})
    /\ UNCHANGED heapVars

Release(b) ==
    /\ releasing' = releasing \ {b}
    /\ SetHeap(prvInsertBlockIntoFreeList(
                   [Heap EXCEPT !.bytes = xFreeBytesRemaining + xBlockSize[b]], b))
    /\ UNCHANGED <<allocated, given>>
---------------------------------------------------------------------------
Init ==
    /\ pxEnd = NULL
    /\ freeList = <<>>
    /\ xBlockSize = [b \in {} |-> 0]
    /\ allocated = {}
    /\ xFreeBytesRemaining = 0
    /\ xMinimumEverFreeBytesRemaining = 0
    /\ releasing = {}
    /\ given = [p \in {} |-> 0]

Next ==
    \/ \E n \in WantedSizes : pvPortMalloc(n)
    \/ \E p \in DOMAIN given : Mark(p)
    \/ \E b \in releasing : Release(b)

Spec == Init /\ [][Next]_vars
---------------------------------------------------------------------------
(* Properties *)

Free == Range(freeList)
Blocks == DOMAIN xBlockSize
Bytes(first, size) == first .. first + size - 1

\* The types, and that every block is free, allocated or between the two.
HeapTypeOK ==
    /\ pxEnd \in {NULL, EndMarker}
    /\ Blocks \subseteq FirstBlock .. EndMarker - 1
    /\ Blocks = Free \union allocated \union releasing
    /\ Free \intersect allocated = {} /\ (Free \union allocated) \intersect releasing = {}
    /\ \A i, j \in DOMAIN freeList : i < j => freeList[i] < freeList[j]
    /\ \A b \in Blocks : xBlockSize[b] % portBYTE_ALIGNMENT = 0 /\ xBlockSize[b] < xBlockAllocatedBit
    /\ DOMAIN given = {Pointer(b) : b \in allocated}

(***************************************************************************)
(* Nothing of the heap is lost or in two blocks: every byte from the first *)
(* block to the end marker is in one block, after any splitting and        *)
(* joining in any order.                                                   *)
(***************************************************************************)
BlocksTileTheHeap ==
    pxEnd # NULL =>
        \A x \in Bytes(FirstBlock, EndMarker - FirstBlock) :
            Cardinality({b \in Blocks : x \in Bytes(b, xBlockSize[b])}) = 1

\* No two free blocks touch: a freed block is joined with those on both sides.
FreeBlocksAreJoined == \A b \in Free : b + xBlockSize[b] \notin Free

\* xPortGetFreeHeapSize returns the bytes in the free list, and the minimum is no greater.
FreeBytesAreCounted ==
    /\ xFreeBytesRemaining = Cardinality(UNION {Bytes(b, xBlockSize[b]) : b \in Free})
    /\ xMinimumEverFreeBytesRemaining <= xFreeBytesRemaining

(***************************************************************************)
(* After any sequence of calls the heap is whole: the headers are sane,    *)
(* the blocks tile it, free ones are joined and counted.                   *)
(***************************************************************************)
HeapIsWhole ==
    HeapTypeOK /\ BlocksTileTheHeap /\ FreeBlocksAreJoined /\ FreeBytesAreCounted

(***************************************************************************)
(* The memory that was given out belongs to one owner: it is aligned, as   *)
(* large as was asked for, and overlaps neither other memory given out nor *)
(* the header of any block.                                                *)
(***************************************************************************)
MemoryIsNotShared ==
    \A p \in DOMAIN given :
        /\ p % portBYTE_ALIGNMENT = 0
        /\ Bytes(p, given[p]) \subseteq Bytes(ucHeap, configTOTAL_HEAP_SIZE)
        /\ \A q \in DOMAIN given \ {p} : Bytes(p, given[p]) \intersect Bytes(q, given[q]) = {}
        /\ \A b \in Blocks \union {pxEnd} :
               Bytes(p, given[p]) \intersect Bytes(b, xHeapStructSize) = {}

(***************************************************************************)
(* pvPortMalloc returns NULL only for a size that no free block can hold,  *)
(* counted without wrapping.                                               *)
(***************************************************************************)
FailsOnlyForWantOfRoom ==
    \A n \in WantedSizes :
        (n > 0 /\ \E b \in Free : xBlockSize[b] >= n + xHeapStructSize) =>
            Wanted(n) > 0 /\ Fits(Heap, Wanted(n)) # {}
===========================================================================
