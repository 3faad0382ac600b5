------------------------------ MODULE MCHeap4 -----------------------------
(* Values of the constants of Heap4 for TLC *)
EXTENDS Heap4, TLC

\* nothing, small sizes on both sides of the alignment, and sizes that would wrap a size_t
SmallAndHuge == {0, 1, 3, 4, 7} \union {SizeMod \div 2 - 1, SizeMod \div 2} \union
                {SizeMod - 3, SizeMod - 2, SizeMod - 1}
===========================================================================
