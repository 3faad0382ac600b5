---------------------------- MODULE MCTaskLists ---------------------------
(* Three tasks, which nothing tells apart *)
EXTENDS TaskLists, TLC

CONSTANTS a, b, c

ThreeItems == {a, b, c}
Symmetry == Permutations(ThreeItems)
===========================================================================
