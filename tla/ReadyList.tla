----------------------------- MODULE ReadyList ----------------------------
(***************************************************************************)
(* The ready list of one priority, as tasks.c uses it: a task joins when   *)
(* prvAddTaskToReadyList adds it, leaves when it blocks, is suspended or   *)
(* deleted or changes its priority, and vTaskSwitchContext takes the next  *)
(* entry whenever this is the highest list that is not empty.              *)
(***************************************************************************)
EXTENDS List, SequencesExt

vars == listVars

Init == ListInit

prvAddTaskToReadyList(i) == vListInsertEnd(i)

Leave(i) == uxListRemove(i)

Select == listGET_OWNER_OF_NEXT_ENTRY

Next == Select \/ \E i \in Item : prvAddTaskToReadyList(i) \/ Leave(i)

Spec == Init /\ [][Next]_vars
---------------------------------------------------------------------------
(* Properties *)

\* The task that is selected after node n.
After(n) == IF pxNext[n] = xListEnd THEN pxNext[xListEnd] ELSE pxNext[n]

\* The tasks in the order that the next selections return them.
Order ==
    CHOOSE s \in [1 .. uxNumberOfItems -> pvContainer] :
        \A k \in 1 .. uxNumberOfItems : s[k] = After(IF k = 1 THEN pxIndex ELSE s[k - 1])

\* The ring with its index is a round robin of the tasks in it.
RR == INSTANCE RoundRobin WITH order <- Order
ImplementsRoundRobin == RR!Spec
===========================================================================
