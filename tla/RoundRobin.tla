---------------------------- MODULE RoundRobin ----------------------------
(***************************************************************************)
(* What a ready list promises the tasks of one priority: they are served   *)
(* in turn.  A newcomer queues behind everybody but, at most, the task     *)
(* that was served last; leaving changes nobody else's turn.               *)
(***************************************************************************)
EXTENDS Sequences, SequencesExt

CONSTANT Item

VARIABLE order   \* the tasks, in the order they will be served

Init == order = <<>>

Join(i) ==
    /\ i \notin ToSet(order)
    /\ \/ order' = Append(order, i)
       \/ order # <<>> /\ order' = InsertAt(order, Len(order), i)

Leave(i) ==
    \E k \in DOMAIN order : order[k] = i /\ order' = RemoveAt(order, k)

Serve ==
    /\ order # <<>>
    /\ order' = Append(Tail(order), Head(order))

Next == Serve \/ \E i \in Item : Join(i) \/ Leave(i)

Spec == Init /\ [][Next]_order
===========================================================================
