----------------------------- MODULE MCQueue ------------------------------
(* Values of the constants of Queue for TLC *)
EXTENDS Queue, TLC

CONSTANTS idle, a, b, queue, qSend, qReceive

\* idle below two application tasks, with or without a level between them
StepPriority == (idle :> 0) @@ (a :> 1) @@ (b :> 2)
WidePriority == (idle :> 0) @@ (a :> 1) @@ (b :> 3)

\* a queue of two items, one of one item or a mutex
TwoItems == (queue :> 2)
OneItem == (queue :> 1)

SendList == (queue :> qSend)
ReceiveList == (queue :> qReceive)

\* In Mailbox both tasks look at the item and one of them takes it, else both take.
BothReceive == (idle :> {}) @@ (a :> {"receive"}) @@ (b :> {"receive"})
OneReceivesBothPeek == (idle :> {}) @@ (a :> {"receive", "peek"}) @@ (b :> {"peek"})

\* Items are only copied.
ItemSymmetry == Permutations(Item)
===========================================================================
