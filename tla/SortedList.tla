---------------------------- MODULE SortedList ----------------------------
(***************************************************************************)
(* A sorted kernel list, such as a delayed list: items enter by           *)
(* vListInsert, with the value that they are sorted by, and leave from the *)
(* head or, by a timeout, vTaskSuspend or vTaskDelete, from any place.     *)
(***************************************************************************)
EXTENDS List, Sequences, SequencesExt

CONSTANT Values  \* values that items are inserted with, none above portMAX_DELAY

VARIABLE arrival   \* history: the items of the list in the order they came

vars == <<listVars, arrival>>

Init ==
    /\ ListInit
    /\ arrival = <<>>

Insert(i, v) ==
    /\ vListInsert(i, v)
    /\ arrival' = Append(arrival, i)

Leave(i) ==
    /\ uxListRemove(i)
    /\ \E k \in DOMAIN arrival : arrival[k] = i /\ arrival' = RemoveAt(arrival, k)

Next == \E i \in Item : Leave(i) \/ \E v \in Values : Insert(i, v)

Spec == Init /\ [][Next]_vars
---------------------------------------------------------------------------
(* Properties *)

(***************************************************************************)
(* The list stays sorted, and items of the same value stand in the order   *)
(* they came: waiters of one priority are woken first come, first served.  *)
(***************************************************************************)
SortedAndFair ==
    \A i, j \in pvContainer :
        pxNext[i] = j => \/ Value(i) < Value(j)
                         \/ /\ Value(i) = Value(j)
                            /\ \E m, n \in DOMAIN arrival :
                                   m < n /\ arrival[m] = i /\ arrival[n] = j
===========================================================================
