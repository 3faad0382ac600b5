------------------------------- MODULE List -------------------------------
(***************************************************************************)
(* A kernel list (Source/list.c): a doubly linked ring of items closed by  *)
(* the end marker xListEnd, with an index that walks it.  The modules      *)
(* ReadyList and SortedList say how the kernel uses it.                    *)
(***************************************************************************)
EXTENDS Naturals, FiniteSets

CONSTANTS
    Item,           \* every list item that may be put into the list
    xListEnd,       \* the end marker
    portMAX_DELAY   \* the value of the end marker, no item has a greater one

ASSUME ListAssumption ==
    /\ IsFiniteSet(Item)
    /\ xListEnd \notin Item
    /\ portMAX_DELAY \in Nat

VARIABLES
    pxNext,
    pxPrevious,
    pxIndex,          \* the node that listGET_OWNER_OF_NEXT_ENTRY went to last
    pvContainer,      \* the items whose pvContainer is this list
    uxNumberOfItems,
    xItemValue

listVars == <<pxNext, pxPrevious, pxIndex, pvContainer, uxNumberOfItems, xItemValue>>

Node == Item \union {xListEnd}
Nodes == pvContainer \union {xListEnd}   \* those of the ring
Value(n) == IF n = xListEnd THEN portMAX_DELAY ELSE xItemValue[n]

\* The pointers of an item that is in no list are never read.
vListInitialise ==
    /\ pxNext = [n \in Node |-> n]
    /\ pxPrevious = [n \in Node |-> n]
    /\ pxIndex = xListEnd
    /\ pvContainer = {}
    /\ uxNumberOfItems = 0

\* Links i between the nodes p and n.
LinkBetween(p, i, n) ==
    /\ pxNext' = [pxNext EXCEPT ![i] = n, ![p] = i]
    /\ pxPrevious' = [pxPrevious EXCEPT ![i] = p, ![n] = i]
    /\ pvContainer' = pvContainer \union {i}
    /\ uxNumberOfItems' = uxNumberOfItems + 1

\* Variant: after the node the index is at.
InsertAfterIndex(i) ==
    /\ i \notin pvContainer
    /\ LinkBetween(pxIndex, i, pxNext[pxIndex])
    /\ UNCHANGED <<pxIndex, xItemValue>>

\* Before the node the index is at.
vListInsertEnd(i) ==
    /\ i \notin pvContainer
    /\ LinkBetween(pxPrevious[pxIndex], i, pxIndex)
    /\ UNCHANGED <<pxIndex, xItemValue>>

(***************************************************************************)
(* The nodes that the loop of vListInsert passes: it starts at the end     *)
(* marker and goes on while the next node has no greater value.            *)
(***************************************************************************)
Passed(v) ==
    {m \in Nodes : \A S \in SUBSET Nodes :
        /\ xListEnd \in S
        /\ \A n \in S : Value(pxNext[n]) <= v => pxNext[n] \in S
        => m \in S}

\* Variant: stops at the first item of the same value.
pxIteratorStrict(v) ==
    CHOOSE n \in Nodes : /\ n = xListEnd \/ Value(n) < v
                        /\ Value(pxNext[n]) >= v

\* It stops at the first node whose successor has a greater value.
pxIterator(v) ==
    IF v = portMAX_DELAY THEN pxPrevious[xListEnd]
    ELSE CHOOSE n \in Passed(v) : Value(pxNext[n]) > v

\* The caller gave the item the value v.
vListInsert(i, v) ==
    /\ i \notin pvContainer
    /\ LinkBetween(pxIterator(v), i, pxNext[pxIterator(v)])
    /\ xItemValue' = [xItemValue EXCEPT ![i] = v]
    /\ UNCHANGED pxIndex

\* Variant: leaves the index at the item that is taken out.
RemoveLeavingIndex(i) ==
    /\ i \in pvContainer
    /\ pxPrevious' = [pxPrevious EXCEPT ![pxNext[i]] = pxPrevious[i]]
    /\ pxNext' = [pxNext EXCEPT ![pxPrevious[i]] = pxNext[i]]
    /\ pvContainer' = pvContainer \ {i}
    /\ uxNumberOfItems' = uxNumberOfItems - 1
    /\ UNCHANGED <<pxIndex, xItemValue>>

uxListRemove(i) ==
    /\ i \in pvContainer
    /\ pxPrevious' = [pxPrevious EXCEPT ![pxNext[i]] = pxPrevious[i]]
    /\ pxNext' = [pxNext EXCEPT ![pxPrevious[i]] = pxNext[i]]
    /\ pxIndex' = IF pxIndex = i THEN pxPrevious[i] ELSE pxIndex
    /\ pvContainer' = pvContainer \ {i}
    /\ uxNumberOfItems' = uxNumberOfItems - 1
    /\ UNCHANGED xItemValue

\* The next entry of the ring, without the end marker.
NextEntry == IF pxNext[pxIndex] = xListEnd THEN pxNext[xListEnd] ELSE pxNext[pxIndex]

listGET_OWNER_OF_NEXT_ENTRY ==
    /\ pvContainer # {}
    /\ pxIndex' = NextEntry
    /\ UNCHANGED <<pxNext, pxPrevious, pvContainer, uxNumberOfItems, xItemValue>>

\* Written without regard to the list the item is in.
listSET_LIST_ITEM_VALUE(i, v) ==
    /\ xItemValue' = [xItemValue EXCEPT ![i] = v]
    /\ UNCHANGED <<pxNext, pxPrevious, pxIndex, pvContainer, uxNumberOfItems>>
---------------------------------------------------------------------------
(* Any calls in any order *)

ListInit ==
    /\ vListInitialise
    /\ xItemValue = [i \in Item |-> 0]

ListNext ==
    \/ listGET_OWNER_OF_NEXT_ENTRY
    \/ \E i \in Item : \/ vListInsertEnd(i)
                      \/ uxListRemove(i)
                      \/ \E v \in 0 .. portMAX_DELAY : \/ vListInsert(i, v)
                                                     \/ listSET_LIST_ITEM_VALUE(i, v)

ListSpec == ListInit /\ [][ListNext]_listVars
---------------------------------------------------------------------------
(* Properties *)

ListTypeOK ==
    /\ pxNext \in [Node -> Node]
    /\ pxPrevious \in [Node -> Node]
    /\ pxIndex \in Node
    /\ pvContainer \in SUBSET Item
    /\ uxNumberOfItems \in Nat
    /\ xItemValue \in [Item -> 0 .. portMAX_DELAY]

(***************************************************************************)
(* The pointers of the items in the list and of the end marker link these  *)
(* nodes both ways, the index is at one of them, the count is theirs, and  *)
(* a walk from the end marker meets every one: no item is lost to a list   *)
(* and no item outside it is reached, whatever was inserted and removed.   *)
(***************************************************************************)
LinksOK ==
    \A n \in Nodes : /\ pxNext[n] \in Nodes /\ pxPrevious[n] \in Nodes
                     /\ pxPrevious[pxNext[n]] = n /\ pxNext[pxPrevious[n]] = n

OneRing ==
    \A S \in SUBSET Nodes : xListEnd \in S /\ (\A n \in S : pxNext[n] \in S) => S = Nodes

RingOK ==
    /\ LinksOK
    /\ OneRing
    /\ pxIndex \in Nodes
    /\ uxNumberOfItems = Cardinality(pvContainer)
===========================================================================
