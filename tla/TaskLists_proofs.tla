------------------------- MODULE TaskLists_proofs -------------------------
(***************************************************************************)
(* Proofs about List and TaskLists, for every finite set of items: a list  *)
(* stays one ring under any calls in any order, the ready list serves its  *)
(* tasks in turn, and the delayed list stays sorted, first come, first     *)
(* served.  The lemmas are about the pointers of any list; both lists and  *)
(* List itself use them.  That a list is one ring is stated by closed sets *)
(* of nodes, and so is the loop of vListInsert: no induction over the      *)
(* length of a walk is needed.                                             *)
(***************************************************************************)
EXTENDS TaskLists, SequenceTheorems, FiniteSetTheorems, WellFoundedInduction, TLAPS

USE ListAssumption

---------------------------------------------------------------------------
(* Rings *)

Links == [Node -> Node]

Ring(N, nxt, prv) ==
    /\ \A n \in N : /\ nxt[n] \in N /\ prv[n] \in N
                    /\ prv[nxt[n]] = n /\ nxt[prv[n]] = n
    /\ \A S \in SUBSET N : xListEnd \in S /\ (\A n \in S : nxt[n] \in S) => S = N

\* The links of an item that is in the list do not lead to itself, although
\* those of an end marker that is alone do.
LEMMA NoLoop ==
    ASSUME NEW N, xListEnd \in N, NEW nxt, NEW prv, Ring(N, nxt, prv),
           NEW i \in N, i # xListEnd
    PROVE  nxt[i] # i /\ prv[i] # i
<1>. DEFINE S == N \ {i}
<1>1. SUFFICES ASSUME nxt[i] = i \/ prv[i] = i PROVE FALSE
  OBVIOUS
<1>2. prv[i] = i
  BY <1>1 DEF Ring
<1>3. ASSUME NEW n \in S PROVE nxt[n] \in S
  BY <1>2 DEF Ring
<1>4. S \in SUBSET N /\ xListEnd \in S
  OBVIOUS
<1>5. S = N
  BY <1>3, <1>4 DEF Ring
<1>. QED BY <1>5

\* An item that is linked in between two neighbours extends the ring.
LEMMA RingLinked ==
    ASSUME NEW N, xListEnd \in N, NEW nxt, NEW prv, Ring(N, nxt, prv), NEW i, i \notin N,
           NEW p \in N, NEW n \in N, nxt[p] = n, prv[n] = p,
           NEW nxt2, nxt2[i] = n, nxt2[p] = i, \A m \in N \ {p} : nxt2[m] = nxt[m],
           NEW prv2, prv2[i] = p, prv2[n] = i, \A m \in N \ {n} : prv2[m] = prv[m]
    PROVE  Ring(N \union {i}, nxt2, prv2)
<1>. DEFINE M == N \union {i}
<1>1. /\ nxt2[i] = n /\ nxt2[p] = i
      /\ \A m \in N \ {p} : nxt2[m] = nxt[m]
  OBVIOUS
<1>2. /\ prv2[i] = p /\ prv2[n] = i
      /\ \A m \in N \ {n} : prv2[m] = prv[m]
  OBVIOUS
<1>3. ASSUME NEW m \in M
      PROVE  /\ nxt2[m] \in M /\ prv2[m] \in M
             /\ prv2[nxt2[m]] = m /\ nxt2[prv2[m]] = m
  <2>1. CASE m = i
    BY <1>1, <1>2, <2>1
  <2>2. CASE m \in N
    <3>1. /\ nxt[m] \in N /\ prv[m] \in N
          /\ prv[nxt[m]] = m /\ nxt[prv[m]] = m
      BY <2>2 DEF Ring
    <3>2. nxt2[m] \in M /\ prv2[nxt2[m]] = m
      BY <1>1, <1>2, <2>2, <3>1
    <3>3. prv2[m] \in M /\ nxt2[prv2[m]] = m
      BY <1>1, <1>2, <2>2, <3>1
    <3>. QED BY <3>2, <3>3
  <2>. QED BY <1>3, <2>1, <2>2
<1>4. ASSUME NEW S \in SUBSET M, xListEnd \in S, \A m \in S : nxt2[m] \in S
      PROVE  S = M
  <2>. DEFINE R == S \ {i}
  <2>1. R \in SUBSET N /\ xListEnd \in R
    BY <1>4
  <2>2. ASSUME NEW m \in R PROVE nxt[m] \in R
    <3>1. nxt[m] \in N
      BY <2>1 DEF Ring
    <3>2. CASE m = p
      BY <1>1, <1>4, <3>2
    <3>3. CASE m # p
      BY <1>1, <1>4, <2>1, <3>1, <3>3
    <3>. QED BY <3>2, <3>3
  <2>3. R = N
    BY <2>1, <2>2 DEF Ring
  <2>4. i \in S
    BY <1>1, <1>4, <2>3
  <2>. QED BY <1>4, <2>3, <2>4
<1>. HIDE DEF M
<1>5. Ring(M, nxt2, prv2)
  BY <1>3, <1>4 DEF Ring
<1>. QED BY <1>5 DEF M

\* Nobody but the neighbours notices that an item leaves.
LEMMA RingUnlinked ==
    ASSUME NEW N \in SUBSET Node, xListEnd \in N, NEW nxt \in Links, NEW prv \in Links,
           Ring(N, nxt, prv), NEW i \in N, i # xListEnd,
           NEW nxt2, nxt2 = [nxt EXCEPT ![prv[i]] = nxt[i]],
           NEW prv2, prv2 = [prv EXCEPT ![nxt[i]] = prv[i]]
    PROVE  nxt2 \in Links /\ prv2 \in Links /\ Ring(N \ {i}, nxt2, prv2)
<1>. DEFINE M == N \ {i}
            p == prv[i]
            n == nxt[i]
<1>1. p \in M /\ n \in M /\ nxt[p] = i /\ prv[n] = i
  BY NoLoop DEF Ring
<1>. HIDE DEF p, n
<1>2. nxt2 \in Links /\ nxt2[p] = n /\ \A m \in N \ {p} : nxt2[m] = nxt[m]
  BY <1>1 DEF Links, p, n
<1>3. prv2 \in Links /\ prv2[n] = p /\ \A m \in N \ {n} : prv2[m] = prv[m]
  BY <1>1 DEF Links, p, n
<1>4. ASSUME NEW m \in M
      PROVE  /\ nxt2[m] \in M /\ prv2[m] \in M
             /\ prv2[nxt2[m]] = m /\ nxt2[prv2[m]] = m
  <2>1. /\ nxt[m] \in N /\ prv[m] \in N
        /\ prv[nxt[m]] = m /\ nxt[prv[m]] = m
    BY <1>4 DEF Ring
  <2>2. nxt[i] = n /\ prv[i] = p
    BY DEF p, n
  <2>3. nxt2[m] \in M /\ prv2[nxt2[m]] = m
    <3>1. CASE m = p
      BY <1>1, <1>2, <1>3, <3>1
    <3>2. CASE m # p
      BY <1>1, <1>2, <1>3, <2>1, <2>2, <3>2
    <3>. QED BY <3>1, <3>2
  <2>4. prv2[m] \in M /\ nxt2[prv2[m]] = m
    <3>1. CASE m = n
      BY <1>1, <1>2, <1>3, <3>1
    <3>2. CASE m # n
      BY <1>1, <1>2, <1>3, <2>1, <2>2, <3>2
    <3>. QED BY <3>1, <3>2
  <2>. QED BY <2>3, <2>4
<1>5. ASSUME NEW S \in SUBSET M, xListEnd \in S, \A m \in S : nxt2[m] \in S
      PROVE  S = M
  <2>1. CASE p \in S
    <3>. DEFINE R == S \union {i}
    <3>1. R \in SUBSET N /\ xListEnd \in R
      BY <1>5
    <3>2. ASSUME NEW m \in R PROVE nxt[m] \in R
      <4>1. CASE m = i
        BY <1>2, <1>5, <2>1, <4>1 DEF n
      <4>2. CASE m = p
        BY <1>1, <4>2
      <4>3. CASE m # i /\ m # p
        BY <1>2, <1>5, <3>1, <4>3
      <4>. QED BY <4>1, <4>2, <4>3
    <3>3. R = N
      BY <3>1, <3>2 DEF Ring
    <3>. QED BY <1>5, <3>3
  <2>2. CASE p \notin S
    <3>1. \A m \in S : nxt[m] \in S
      BY <1>2, <1>5, <2>2
    <3>2. S = N
      BY <1>5, <3>1 DEF Ring
    <3>. QED BY <1>5, <3>2
  <2>. QED BY <2>1, <2>2
<1>. HIDE DEF M
<1>6. Ring(M, nxt2, prv2)
  BY <1>4, <1>5 DEF Ring
<1>. QED BY <1>2, <1>3, <1>6 DEF M

---------------------------------------------------------------------------
(* A list *)

IsList(nxt, prv, index, container, count, value) ==
    /\ nxt \in Links /\ prv \in Links
    /\ container \in SUBSET Item
    /\ index \in container \union {xListEnd}
    /\ count = Cardinality(container)
    /\ value \in [Item -> 0 .. portMAX_DELAY]
    /\ Ring(container \union {xListEnd}, nxt, prv)

LEMMA CountType ==
    ASSUME NEW C \in SUBSET Item
    PROVE  IsFiniteSet(C) /\ Cardinality(C) \in Nat
<1>1. IsFiniteSet(C)
  BY FS_Subset
<1>. QED BY <1>1, FS_CardinalityType

\* The list with one more item, wherever it is put.
LEMMA ListLinked ==
    ASSUME NEW nxt, NEW prv, NEW x, NEW C, NEW c, NEW value, IsList(nxt, prv, x, C, c, value),
           NEW i \in Item, i \notin C,
           NEW p \in C \union {xListEnd}, NEW n \in C \union {xListEnd}, nxt[p] = n, prv[n] = p,
           NEW nxt2, nxt2 = [nxt EXCEPT ![i] = n, ![p] = i],
           NEW prv2, prv2 = [prv EXCEPT ![i] = p, ![n] = i],
           NEW value2 \in [Item -> 0 .. portMAX_DELAY]
    PROVE  IsList(nxt2, prv2, x, C \union {i}, c + 1, value2)
<1>0. PICK N : N = C \union {xListEnd}
  OBVIOUS
<1>1. /\ N \in SUBSET Node /\ xListEnd \in N /\ i \in Node /\ i \notin N
      /\ nxt \in Links /\ prv \in Links /\ Ring(N, nxt, prv)
      /\ C \in SUBSET Item /\ x \in N /\ c = Cardinality(C)
  BY <1>0 DEF IsList, Node
<1>2. p \in N /\ n \in N /\ nxt[p] = n /\ prv[n] = p
  BY <1>0
<1>3. /\ nxt2 \in Links /\ nxt2[i] = n /\ nxt2[p] = i
      /\ \A m \in N \ {p} : nxt2[m] = nxt[m]
  BY <1>1, <1>2 DEF Links
<1>4. /\ prv2 \in Links /\ prv2[i] = p /\ prv2[n] = i
      /\ \A m \in N \ {n} : prv2[m] = prv[m]
  BY <1>1, <1>2 DEF Links
<1>5. Ring(N \union {i}, nxt2, prv2)
  <2>1. PICK nx, pv : nx = nxt2 /\ pv = prv2
    OBVIOUS
  <2>2. /\ nx[i] = n /\ nx[p] = i /\ \A m \in N \ {p} : nx[m] = nxt[m]
        /\ pv[i] = p /\ pv[n] = i /\ \A m \in N \ {n} : pv[m] = prv[m]
    BY <1>3, <1>4, <2>1
  <2>3. Ring(N \union {i}, nx, pv)
    BY <1>1, <1>2, <2>2, RingLinked, SMTT(30)
  <2>. QED BY <2>1, <2>3
<1>6. Cardinality(C \union {i}) = c + 1
  BY <1>1, CountType, FS_AddElement
<1>7. N \union {i} = (C \union {i}) \union {xListEnd}
  BY <1>0
<1>8. x \in (C \union {i}) \union {xListEnd}
  BY <1>0, <1>1
<1>. QED BY <1>1, <1>5, <1>6, <1>7, <1>8, <1>3, <1>4 DEF IsList

\* The list without one of its items; the index steps back from it.
LEMMA ListUnlinked ==
    ASSUME NEW nxt, NEW prv, NEW x, NEW C, NEW c, NEW value, IsList(nxt, prv, x, C, c, value),
           NEW i \in C,
           NEW nxt2, nxt2 = [nxt EXCEPT ![prv[i]] = nxt[i]],
           NEW prv2, prv2 = [prv EXCEPT ![nxt[i]] = prv[i]],
           NEW x2, x2 = IF x = i THEN prv[i] ELSE x
    PROVE  IsList(nxt2, prv2, x2, C \ {i}, c - 1, value)
<1>. DEFINE N == C \union {xListEnd}
<1>1. /\ N \in SUBSET Node /\ xListEnd \in N /\ i \in N /\ i # xListEnd
      /\ nxt \in Links /\ prv \in Links /\ Ring(N, nxt, prv)
      /\ C \in SUBSET Item /\ x \in N /\ c = Cardinality(C)
  BY DEF IsList, Node
<1>. HIDE DEF N
<1>2. nxt2 \in Links /\ prv2 \in Links /\ Ring(N \ {i}, nxt2, prv2)
  BY <1>1, RingUnlinked
<1>3. Cardinality(C \ {i}) = c - 1
  BY <1>1, CountType, FS_RemoveElement
<1>4. N \ {i} = (C \ {i}) \union {xListEnd}
  BY <1>1 DEF N
<1>5. prv[i] \in N \ {i}
  BY <1>1, NoLoop DEF Ring
<1>6. x2 \in (C \ {i}) \union {xListEnd}
  BY <1>1, <1>4, <1>5
<1>7. C \ {i} \in SUBSET Item /\ value \in [Item -> 0 .. portMAX_DELAY]
  BY <1>1 DEF IsList
<1>. QED BY <1>1, <1>2, <1>3, <1>4, <1>6, <1>7 DEF IsList

\* The nodes that the loop of vListInsert passes (Passed), for any list and values.
PassedIn(N, nxt, value, v) ==
    {m \in N : \A S \in SUBSET N :
        /\ xListEnd \in S
        /\ \A n \in S : value[nxt[n]] <= v => nxt[n] \in S
        => m \in S}

\* The loop of vListInsert stops at a node of the ring, between those of no greater
\* value and one that has.
LEMMA LoopStops ==
    ASSUME NEW N, xListEnd \in N, NEW nxt, NEW prv, Ring(N, nxt, prv),
           NEW value, \A n \in N : value[n] \in 0 .. portMAX_DELAY,
           value[xListEnd] = portMAX_DELAY,
           NEW v \in 0 .. portMAX_DELAY, v # portMAX_DELAY,
           NEW n, n = CHOOSE m \in PassedIn(N, nxt, value, v) : value[nxt[m]] > v
    PROVE  /\ n \in N /\ value[nxt[n]] > v
           /\ n # xListEnd => value[n] <= v
<1>. DEFINE P == PassedIn(N, nxt, value, v)
<1>1. P \in SUBSET N /\ xListEnd \in P
  BY DEF PassedIn
<1>2. ASSUME NEW m \in P, value[nxt[m]] <= v PROVE nxt[m] \in P
  <2>1. m \in N /\ nxt[m] \in N
    BY <1>1 DEF Ring
  <2>. QED BY <1>2, <2>1 DEF PassedIn
<1>3. \E m \in P : value[nxt[m]] > v
  <2>. SUFFICES ASSUME \A m \in P : ~(value[nxt[m]] > v) PROVE FALSE
    OBVIOUS
  <2>1. \A m \in P : nxt[m] \in P
    <3>. SUFFICES ASSUME NEW m \in P PROVE nxt[m] \in P
      OBVIOUS
    <3>1. value[nxt[m]] \in Int /\ v \in Int /\ ~(value[nxt[m]] > v)
      BY <1>1 DEF Ring
    <3>. QED BY <1>2, <3>1
  <2>. HIDE DEF P
  <2>2. P = N
    BY <1>1, <2>1 DEF Ring
  <2>3. prv[xListEnd] \in P /\ nxt[prv[xListEnd]] = xListEnd
    BY <2>2 DEF Ring
  <2>4. portMAX_DELAY > v
    OBVIOUS
  <2>. QED BY <2>3, <2>4
<1>4. \A m \in P : m # xListEnd => value[m] <= v
  <2>. DEFINE S == {m \in N : m = xListEnd \/ value[m] <= v}
  <2>1. S \in SUBSET N /\ xListEnd \in S
    OBVIOUS
  <2>2. \A m \in S : value[nxt[m]] <= v => nxt[m] \in S
    BY DEF Ring
  <2>3. \A m \in P : m \in S
    <3>. HIDE DEF S
    <3>. QED BY <2>1, <2>2 DEF PassedIn
  <2>. QED BY <2>3
<1>. HIDE DEF P
<1>5. n \in P /\ value[nxt[n]] > v
  <2>1. n = CHOOSE m \in P : value[nxt[m]] > v
    BY DEF P
  <2>. QED BY <1>3, <2>1
<1>. QED BY <1>1, <1>4, <1>5

---------------------------------------------------------------------------
(* The list of module List, and the delayed list *)

ThisList == IsList(pxNext, pxPrevious, pxIndex, pvContainer, uxNumberOfItems, xItemValue)

DelayedList == IsList(dNext, dPrevious, dIndex, dContainer, dNumberOfItems, dItemValue)

LEMMA ThisListIs == ThisList <=> ListTypeOK /\ RingOK
<1>1. ThisList => ListTypeOK
  BY CountType DEF ThisList, IsList, ListTypeOK, Links, Node
<1>2. ListTypeOK => (RingOK <=> ThisList)
  <2>1. Nodes = pvContainer \union {xListEnd}
    BY DEF Nodes
  <2>. QED BY <2>1 DEF ThisList, IsList, ListTypeOK, RingOK, LinksOK, OneRing, Ring, Links
<1>. QED BY <1>1, <1>2

LEMMA DelayedListIs == DelayedList => Delayed!RingOK
<1>1. Delayed!Nodes = dContainer \union {xListEnd}
  BY DEF Delayed!Nodes
<1>. SUFFICES ASSUME DelayedList PROVE Delayed!RingOK
  OBVIOUS
<1>2. Ring(Delayed!Nodes, dNext, dPrevious)
  BY <1>1 DEF DelayedList, IsList
<1>3. Delayed!LinksOK
  BY <1>2 DEF Ring, Delayed!LinksOK
<1>4. Delayed!OneRing
  BY <1>2 DEF Ring, Delayed!OneRing
<1>5. dIndex \in Delayed!Nodes /\ dNumberOfItems = Cardinality(dContainer)
  BY <1>1 DEF DelayedList, IsList
<1>6. Delayed!Cardinality(dContainer) = Cardinality(dContainer)
  BY DEF Delayed!Cardinality, Cardinality
<1>. QED BY <1>3, <1>4, <1>5, <1>6 DEF Delayed!RingOK

\* The neighbours that an item is put between.
LEMMA Neighbours ==
    ASSUME NEW nxt, NEW prv, NEW x, NEW C, NEW c, NEW value, IsList(nxt, prv, x, C, c, value),
           NEW n \in C \union {xListEnd}
    PROVE  /\ nxt[n] \in C \union {xListEnd} /\ prv[nxt[n]] = n
           /\ prv[n] \in C \union {xListEnd} /\ nxt[prv[n]] = n
  BY DEF IsList, Ring

LEMMA EndInserted ==
    ASSUME ThisList, NEW i \in Item, vListInsertEnd(i)
    PROVE  ThisList'
<1>1. PICK p, n : p = pxPrevious[pxIndex] /\ n = pxIndex
  OBVIOUS
<1>2. /\ i \notin pvContainer
      /\ p \in pvContainer \union {xListEnd} /\ n \in pvContainer \union {xListEnd}
      /\ pxNext[p] = n /\ pxPrevious[n] = p
  <2>1. n \in pvContainer \union {xListEnd}
    BY <1>1 DEF ThisList, IsList
  <2>. QED BY <1>1, <2>1, Neighbours DEF ThisList, vListInsertEnd
<1>3. /\ pxNext' = [pxNext EXCEPT ![i] = n, ![p] = i]
      /\ pxPrevious' = [pxPrevious EXCEPT ![i] = p, ![n] = i]
      /\ pvContainer' = pvContainer \union {i}
      /\ uxNumberOfItems' = uxNumberOfItems + 1
      /\ pxIndex' = pxIndex /\ xItemValue' = xItemValue
  BY <1>1 DEF vListInsertEnd, LinkBetween
<1>4. xItemValue \in [Item -> 0 .. portMAX_DELAY]
  BY DEF ThisList, IsList
<1>. QED BY <1>2, <1>3, <1>4, ListLinked DEF ThisList

LEMMA Removed ==
    ASSUME ThisList, NEW i \in Item, uxListRemove(i)
    PROVE  ThisList'
<1>1. /\ i \in pvContainer
      /\ pxNext' = [pxNext EXCEPT ![pxPrevious[i]] = pxNext[i]]
      /\ pxPrevious' = [pxPrevious EXCEPT ![pxNext[i]] = pxPrevious[i]]
      /\ pxIndex' = IF pxIndex = i THEN pxPrevious[i] ELSE pxIndex
      /\ pvContainer' = pvContainer \ {i}
      /\ uxNumberOfItems' = uxNumberOfItems - 1
      /\ xItemValue' = xItemValue
  BY DEF uxListRemove
<1>. QED BY <1>1, ListUnlinked DEF ThisList

\* listGET_OWNER_OF_NEXT_ENTRY moves the index to an item.
LEMMA IndexMoved ==
    ASSUME ThisList, listGET_OWNER_OF_NEXT_ENTRY
    PROVE  ThisList'
<1>1. pxIndex' \in pvContainer \union {xListEnd}
  <2>1. pxNext[pxIndex] \in pvContainer \union {xListEnd}
    BY Neighbours DEF ThisList, IsList
  <2>2. pxNext[xListEnd] \in pvContainer \union {xListEnd}
    BY Neighbours DEF ThisList
  <2>. QED BY <2>1, <2>2 DEF listGET_OWNER_OF_NEXT_ENTRY, NextEntry
<1>. QED BY <1>1 DEF ThisList, IsList, listGET_OWNER_OF_NEXT_ENTRY

\* The place that vListInsert finds is a node, between values that are not greater and
\* greater ones; so it is in the delayed list.
LEMMA IteratorStops ==
    ASSUME ThisList, NEW v \in 0 .. portMAX_DELAY
    PROVE  pxIterator(v) \in pvContainer \union {xListEnd}
<1>. DEFINE N == pvContainer \union {xListEnd}
<1>1. /\ xListEnd \in N /\ Ring(N, pxNext, pxPrevious) /\ Nodes = N
      /\ \A n \in N : Value(n) \in 0 .. portMAX_DELAY
  BY DEF ThisList, IsList, Nodes, Value
<1>2. CASE v = portMAX_DELAY
  BY <1>1, <1>2 DEF pxIterator, Ring
<1>3. CASE v # portMAX_DELAY
  <2>. DEFINE value == [n \in N |-> Value(n)]
  <2>1. \A n \in N : pxNext[n] \in N
    BY <1>1 DEF Ring
  <2>2. Passed(v) = PassedIn(N, pxNext, value, v)
    BY <1>1, <2>1 DEF Passed, PassedIn
  <2>3. \A m \in PassedIn(N, pxNext, value, v) : value[pxNext[m]] = Value(pxNext[m])
    BY <2>1 DEF PassedIn
  <2>4. pxIterator(v) = CHOOSE m \in PassedIn(N, pxNext, value, v) : value[pxNext[m]] > v
    BY <1>3, <2>2, <2>3 DEF pxIterator
  <2>5. value[xListEnd] = portMAX_DELAY /\ \A n \in N : value[n] \in 0 .. portMAX_DELAY
    BY <1>1 DEF Value
  <2>. HIDE DEF value, N
  <2>6. pxIterator(v) \in N
    BY <1>1, <1>3, <2>4, <2>5, LoopStops
  <2>. QED BY <2>6 DEF N
<1>. QED BY <1>2, <1>3

LEMMA Inserted ==
    ASSUME ThisList, NEW i \in Item, NEW v \in 0 .. portMAX_DELAY, vListInsert(i, v)
    PROVE  ThisList'
<1>1. PICK p, n : p = pxIterator(v) /\ n = pxNext[p]
  OBVIOUS
<1>2. /\ i \notin pvContainer
      /\ p \in pvContainer \union {xListEnd} /\ n \in pvContainer \union {xListEnd}
      /\ pxNext[p] = n /\ pxPrevious[n] = p
  <2>1. p \in pvContainer \union {xListEnd}
    BY <1>1, IteratorStops
  <2>. QED BY <1>1, <2>1, Neighbours DEF ThisList, vListInsert
<1>3. /\ pxNext' = [pxNext EXCEPT ![i] = n, ![p] = i]
      /\ pxPrevious' = [pxPrevious EXCEPT ![i] = p, ![n] = i]
      /\ pvContainer' = pvContainer \union {i}
      /\ uxNumberOfItems' = uxNumberOfItems + 1
      /\ pxIndex' = pxIndex /\ xItemValue' = [xItemValue EXCEPT ![i] = v]
  BY <1>1 DEF vListInsert, LinkBetween
<1>4. xItemValue' \in [Item -> 0 .. portMAX_DELAY]
  BY <1>3 DEF ThisList, IsList
<1>. QED BY <1>2, <1>3, <1>4, ListLinked DEF ThisList

\* A new list is a ring of its end marker.
LEMMA NewRing ==
    ASSUME NEW nxt, nxt = [n \in Node |-> n], NEW value, value = [i \in Item |-> 0]
    PROVE  IsList(nxt, nxt, xListEnd, {}, 0, value)
<1>1. nxt \in Links /\ nxt[xListEnd] = xListEnd
  BY DEF Links, Node
<1>2. Ring({xListEnd}, nxt, nxt)
  BY <1>1 DEF Ring
<1>3. {} \union {xListEnd} = {xListEnd} /\ Cardinality({}) = 0
  BY FS_EmptySet
<1>4. value \in [Item -> 0 .. portMAX_DELAY]
  OBVIOUS
<1>. QED BY <1>1, <1>2, <1>3, <1>4 DEF IsList

LEMMA NextRing == ThisList /\ [ListNext]_listVars => ThisList'
<1>. SUFFICES ASSUME ThisList, [ListNext]_listVars PROVE ThisList'
  OBVIOUS
<1>1. CASE UNCHANGED listVars
  BY <1>1 DEF listVars, ThisList
<1>2. CASE listGET_OWNER_OF_NEXT_ENTRY
  BY <1>2, IndexMoved
<1>3. ASSUME NEW i \in Item, vListInsertEnd(i) \/ uxListRemove(i) PROVE ThisList'
  BY <1>3, EndInserted, Removed
<1>4. ASSUME NEW i \in Item, NEW v \in 0 .. portMAX_DELAY, vListInsert(i, v)
      PROVE  ThisList'
  BY <1>4, Inserted
<1>5. ASSUME NEW i \in Item, NEW v \in 0 .. portMAX_DELAY, listSET_LIST_ITEM_VALUE(i, v)
      PROVE  ThisList'
  BY <1>5 DEF listSET_LIST_ITEM_VALUE, ThisList, IsList
<1>. QED BY <1>1, <1>2, <1>3, <1>4, <1>5 DEF ListNext

(***************************************************************************)
(* Whatever the kernel inserts into a list, removes from it and takes the  *)
(* next entry of, in any order and for any number of items, the pointers   *)
(* of list.c make one ring of exactly the items that are in the list.      *)
(***************************************************************************)
THEOREM RingCorrect == ListSpec => []RingOK
<1>1. ListInit => ThisList
  BY NewRing DEF ListInit, vListInitialise, ThisList
<1>2. ThisList => RingOK
  BY ThisListIs
<1>. QED BY <1>1, <1>2, NextRing, PTL DEF ListSpec

---------------------------------------------------------------------------
(* Numbers *)

\* Every nonempty set of naturals has a least element: the prefixes of the set
\* are finite sets, so one of them is minimal for the strict subset order.
LEMMA LeastElement ==
    ASSUME NEW S \in SUBSET Nat, S # {}
    PROVE  \E m \in S : \A k \in S : m <= k
<1>1. PICK n \in S : TRUE
  OBVIOUS
<1>. DEFINE X == 0 .. n
            F(m) == S \cap (0 .. m)
            T == {F(m) : m \in S \cap X}
<1>2. IsFiniteSet(X)
  BY FS_Interval, n \in Int, 0 \in Int
<1>3. T \subseteq FiniteSubsetsOf(X)
  <2>. SUFFICES ASSUME NEW m \in S \cap X PROVE F(m) \in FiniteSubsetsOf(X)
    OBVIOUS
  <2>1. F(m) \in SUBSET X
    OBVIOUS
  <2>2. IsFiniteSet(F(m))
    BY <1>2, <2>1, FS_Subset
  <2>. QED
    BY <2>1, <2>2 DEF FiniteSubsetsOf
<1>4. T # {}
  <2>1. n \in S \cap X
    BY <1>1
  <2>2. F(n) \in T
    BY <2>1
  <2>. QED BY <2>2
<1>. HIDE DEF T
<1>5. PICK x \in T : \A y \in T : ~ (<<y, x>> \in StrictSubsetOrdering(X))
  BY <1>3, <1>4, WFMin, FS_StrictSubsetOrderingWellFounded, Zenon
<1>. USE DEF T
<1>6. PICK m \in S \cap X : x = F(m)
  BY <1>5
<1>7. SUFFICES ASSUME NEW k \in S, k < m PROVE FALSE
  BY <1>6
<1>8. k \in S \cap X /\ F(k) \in T
  BY <1>6, <1>7
<1>9. F(k) \subseteq F(m) /\ m \in F(m) /\ m \notin F(k)
  BY <1>6, <1>7
<1>10. <<F(k), F(m)>> \in StrictSubsetOrdering(X)
  BY <1>8, <1>9 DEF StrictSubsetOrdering
<1>. QED
  BY <1>5, <1>6, <1>8, <1>10

\* Induction on the naturals for membership in a set.
LEMMA SetInduction ==
    ASSUME NEW S \in SUBSET Nat, 0 \in S, \A n \in S : n + 1 \in S
    PROVE  S = Nat
<1>. DEFINE C == Nat \ S
<1>1. SUFFICES ASSUME C # {} PROVE FALSE
  OBVIOUS
<1>2. PICK m \in C : \A k \in C : m <= k
  BY <1>1, LeastElement
<1>3. m \in Nat /\ m # 0 /\ m - 1 \in Nat
  BY <1>2
<1>4. m - 1 \in S
  BY <1>2, <1>3
<1>5. (m - 1) + 1 \in S
  BY <1>4
<1>. QED BY <1>2, <1>3, <1>5

---------------------------------------------------------------------------
(* Sequences *)

\* A sequence with a new element at place n.
LEMMA InsertIs ==
    ASSUME NEW S, NEW s \in Seq(S), NEW n \in 1 .. Len(s) + 1, NEW t \in S
    PROVE  /\ InsertAt(s, n, t) \in Seq(S)
           /\ Len(InsertAt(s, n, t)) = Len(s) + 1
           /\ \A i \in 1 .. n - 1 : InsertAt(s, n, t)[i] = s[i]
           /\ InsertAt(s, n, t)[n] = t
           /\ \A i \in n + 1 .. Len(s) + 1 : InsertAt(s, n, t)[i] = s[i - 1]
<1>0. Len(s) \in Nat /\ n \in Nat
  OBVIOUS
<1>. DEFINE low == SubSeq(s, 1, n - 1)
            high == SubSeq(s, n, Len(s))
            left == low \o <<t>>
<1>1. low \in Seq(S) /\ Len(low) = n - 1 /\ \A i \in 1 .. n - 1 : low[i] = s[i]
  BY SubSeqProperties
<1>2. /\ high \in Seq(S) /\ Len(high) = Len(s) - n + 1
      /\ \A i \in 1 .. Len(s) - n + 1 : high[i] = s[n + i - 1]
  BY SubSeqProperties
<1>3. /\ left \in Seq(S) /\ Len(left) = n /\ left[n] = t
      /\ \A i \in 1 .. n - 1 : left[i] = s[i]
  <2>. HIDE DEF low
  <2>. QED BY <1>1
<1>4. InsertAt(s, n, t) = left \o high
  BY DEF InsertAt
<1>. HIDE DEF left, high
<1>5. left \o high \in Seq(S) /\ Len(left \o high) = Len(s) + 1
  <2>1. left \o high \in Seq(S) /\ Len(left \o high) = Len(left) + Len(high)
    BY <1>2, <1>3, ConcatProperties
  <2>. QED BY <1>0, <1>2, <1>3, <2>1
<1>6. \A i \in 1 .. n : (left \o high)[i] = left[i]
  BY <1>2, <1>3
<1>7. \A i \in n + 1 .. Len(s) + 1 : (left \o high)[i] = high[i - n]
  BY <1>2, <1>3
<1>8. \A i \in n + 1 .. Len(s) + 1 :
          i - n \in 1 .. Len(s) - n + 1 /\ n + (i - n) - 1 = i - 1
  OBVIOUS
<1>9. \A i \in n + 1 .. Len(s) + 1 : (left \o high)[i] = s[i - 1]
  BY <1>2, <1>7, <1>8
<1>10. (\A i \in 1 .. n - 1 : (left \o high)[i] = s[i]) /\ (left \o high)[n] = t
  BY <1>3, <1>6
<1>. QED BY <1>4, <1>5, <1>9, <1>10

\* A sequence without its element n.
LEMMA RemoveIs ==
    ASSUME NEW S, NEW s \in Seq(S), NEW n \in 1 .. Len(s)
    PROVE  /\ RemoveAt(s, n) \in Seq(S)
           /\ Len(RemoveAt(s, n)) = Len(s) - 1
           /\ \A i \in 1 .. n - 1 : RemoveAt(s, n)[i] = s[i]
           /\ \A i \in n .. Len(s) - 1 : RemoveAt(s, n)[i] = s[i + 1]
<1>. DEFINE low == SubSeq(s, 1, n - 1)
            high == SubSeq(s, n + 1, Len(s))
<1>1. low \in Seq(S) /\ Len(low) = n - 1 /\ \A i \in 1 .. n - 1 : low[i] = s[i]
  BY SubSeqProperties
<1>2. /\ high \in Seq(S) /\ Len(high) = Len(s) - n
      /\ \A i \in 1 .. Len(s) - n : high[i] = s[n + i]
  BY SubSeqProperties
<1>3. RemoveAt(s, n) = low \o high
  BY DEF RemoveAt
<1>. HIDE DEF low, high
<1>4. low \o high \in Seq(S) /\ Len(low \o high) = Len(s) - 1
  BY <1>1, <1>2
<1>5. \A i \in 1 .. n - 1 : (low \o high)[i] = s[i]
  BY <1>1, <1>2
<1>6. \A i \in n .. Len(s) - 1 : (low \o high)[i] = high[i - (n - 1)]
  BY <1>1, <1>2
<1>7. \A i \in n .. Len(s) - 1 : i - (n - 1) \in 1 .. Len(s) - n /\ n + (i - (n - 1)) = i + 1
  OBVIOUS
<1>8. \A i \in n .. Len(s) - 1 : (low \o high)[i] = s[i + 1]
  BY <1>2, <1>6, <1>7
<1>. QED BY <1>3, <1>4, <1>5, <1>8

---------------------------------------------------------------------------
(* The delayed list is sorted, and fair *)

\* The items of a list in the order they came.
Arrivals(arr, C) ==
    /\ arr \in Seq(C)
    /\ \A m, n \in DOMAIN arr : arr[m] = arr[n] => m = n
    /\ \A i \in C : \E m \in DOMAIN arr : arr[m] = i

CameBefore(arr, i, j) == \E m, n \in DOMAIN arr : m < n /\ arr[m] = i /\ arr[n] = j

\* SortedAndFair, for any list.
Fair(C, nxt, value, arr) ==
    \A i, j \in C :
        nxt[i] = j => value[i] < value[j] \/ (value[i] = value[j] /\ CameBefore(arr, i, j))

LEMMA BeforeIsTransitive ==
    ASSUME NEW arr, NEW C, Arrivals(arr, C), NEW i, NEW j, NEW k,
           CameBefore(arr, i, j), CameBefore(arr, j, k)
    PROVE  CameBefore(arr, i, k)
<1>1. DOMAIN arr \subseteq Int
  BY DEF Arrivals
<1>2. PICK m \in DOMAIN arr, n \in DOMAIN arr : m < n /\ arr[m] = i /\ arr[n] = j
  BY DEF CameBefore
<1>3. PICK o \in DOMAIN arr, p \in DOMAIN arr : o < p /\ arr[o] = j /\ arr[p] = k
  BY DEF CameBefore
<1>4. n = o
  BY <1>2, <1>3 DEF Arrivals
<1>5. m < p
  BY <1>1, <1>2, <1>3, <1>4
<1>. QED BY <1>2, <1>3, <1>5 DEF CameBefore

LEMMA ArrivalAppended ==
    ASSUME NEW arr, NEW C, Arrivals(arr, C), NEW i, i \notin C,
           NEW new, new = Append(arr, i)
    PROVE  /\ Arrivals(new, C \union {i})
           /\ \A j, k \in C : CameBefore(arr, j, k) => CameBefore(new, j, k)
           /\ \A j \in C : CameBefore(new, j, i)
<1>. DEFINE D == C \union {i}
<1>1. /\ arr \in Seq(C) /\ arr \in Seq(D) /\ i \in D /\ Len(arr) \in Nat
      /\ DOMAIN arr = 1 .. Len(arr) /\ \A m \in DOMAIN arr : arr[m] \in C
  BY DEF Arrivals
<1>2. /\ new \in Seq(D) /\ Len(new) = Len(arr) + 1 /\ new[Len(arr) + 1] = i
      /\ \A m \in 1 .. Len(arr) : new[m] = arr[m]
  <2>. HIDE DEF D
  <2>. QED BY <1>1, AppendProperties
<1>3. DOMAIN new = 1 .. Len(arr) + 1
  BY <1>2
<1>. HIDE DEF D
<1>4. ASSUME NEW m \in DOMAIN new, NEW n \in DOMAIN new, new[m] = new[n] PROVE m = n
  <2>1. \A o \in DOMAIN new : o = Len(arr) + 1 \/ (o \in DOMAIN arr /\ new[o] = arr[o])
    BY <1>1, <1>2, <1>3
  <2>2. CASE m \in DOMAIN arr /\ n \in DOMAIN arr
    BY <1>1, <1>2, <1>4, <2>2 DEF Arrivals
  <2>3. CASE m = Len(arr) + 1
    BY <1>1, <1>2, <1>4, <2>1, <2>3
  <2>4. CASE n = Len(arr) + 1
    BY <1>1, <1>2, <1>4, <2>1, <2>4
  <2>. QED BY <2>1, <2>2, <2>3, <2>4
<1>5. ASSUME NEW j \in D PROVE \E m \in DOMAIN new : new[m] = j
  <2>1. CASE j = i
    <3>1. Len(arr) + 1 \in DOMAIN new
      BY <1>1, <1>3
    <3>. QED BY <1>2, <2>1, <3>1
  <2>2. CASE j \in C
    <3>1. PICK m \in DOMAIN arr : arr[m] = j
      BY <2>2 DEF Arrivals
    <3>2. m \in 1 .. Len(arr) /\ m \in DOMAIN new
      BY <1>1, <1>3, <3>1
    <3>. QED BY <1>2, <3>1, <3>2
  <2>. QED BY <1>5, <2>1, <2>2 DEF D
<1>6. ASSUME NEW j \in C, NEW k \in C, CameBefore(arr, j, k) PROVE CameBefore(new, j, k)
  <2>1. PICK m \in DOMAIN arr, n \in DOMAIN arr : m < n /\ arr[m] = j /\ arr[n] = k
    BY <1>6 DEF CameBefore
  <2>2. m \in DOMAIN new /\ n \in DOMAIN new /\ new[m] = j /\ new[n] = k
    BY <1>1, <1>2, <1>3, <2>1
  <2>. QED BY <2>1, <2>2 DEF CameBefore
<1>7. ASSUME NEW j \in C PROVE CameBefore(new, j, i)
  <2>1. PICK m \in DOMAIN arr : arr[m] = j
    BY DEF Arrivals
  <2>2. m \in DOMAIN new /\ Len(arr) + 1 \in DOMAIN new /\ m < Len(arr) + 1 /\ new[m] = j
    BY <1>1, <1>2, <1>3, <2>1
  <2>. QED BY <1>2, <2>2 DEF CameBefore
<1>8. Arrivals(new, D)
  BY <1>2, <1>4, <1>5 DEF Arrivals
<1>. QED BY <1>6, <1>7, <1>8 DEF D

LEMMA ArrivalRemoved ==
    ASSUME NEW arr, NEW C, Arrivals(arr, C), NEW k \in DOMAIN arr,
           NEW new, new = RemoveAt(arr, k)
    PROVE  /\ Arrivals(new, C \ {arr[k]})
           /\ \A i, j \in C \ {arr[k]} : CameBefore(arr, i, j) => CameBefore(new, i, j)
<1>. DEFINE D == C \ {arr[k]}
            Past(m) == IF m < k THEN m ELSE m - 1
            From(m) == IF m < k THEN m ELSE m + 1
<1>1. /\ arr \in Seq(C) /\ Len(arr) \in Nat /\ DOMAIN arr = 1 .. Len(arr) /\ k \in 1 .. Len(arr)
      /\ \A m \in DOMAIN arr : arr[m] \in C
  BY DEF Arrivals
<1>2. /\ new \in Seq(C) /\ Len(new) = Len(arr) - 1
      /\ \A m \in 1 .. k - 1 : new[m] = arr[m]
      /\ \A m \in k .. Len(arr) - 1 : new[m] = arr[m + 1]
  BY <1>1, RemoveIs
<1>3. DOMAIN new = 1 .. Len(arr) - 1
  BY <1>2
<1>4. ASSUME NEW m \in DOMAIN new
      PROVE  From(m) \in DOMAIN arr \ {k} /\ new[m] = arr[From(m)]
  <2>1. CASE m < k
    BY <1>1, <1>2, <1>3, <2>1
  <2>2. CASE ~(m < k)
    BY <1>1, <1>2, <1>3, <2>2
  <2>. QED BY <2>1, <2>2
<1>5. \A m, n \in DOMAIN new : From(m) = From(n) => m = n
  BY <1>1, <1>3
<1>6. ASSUME NEW m \in DOMAIN arr, m # k
      PROVE  Past(m) \in DOMAIN new /\ new[Past(m)] = arr[m]
  <2>1. CASE m < k
    BY <1>1, <1>2, <1>3, <2>1
  <2>2. CASE ~(m < k)
    <3>1. m - 1 \in k .. Len(arr) - 1 /\ (m - 1) + 1 = m
      BY <1>1, <1>6, <2>2
    <3>. QED BY <1>1, <1>2, <1>3, <2>2, <3>1
  <2>. QED BY <2>1, <2>2
<1>7. \A m, n \in DOMAIN arr : m < n /\ m # k /\ n # k => Past(m) < Past(n)
  BY <1>1
<1>. HIDE DEF Past, From, D
<1>8. \A m \in DOMAIN new : new[m] \in D
  BY <1>1, <1>4 DEF Arrivals, D
<1>9. new \in Seq(D)
  BY <1>2, <1>8, SeqOfRange DEF Range
<1>10. \A m, n \in DOMAIN new : new[m] = new[n] => m = n
  BY <1>4, <1>5 DEF Arrivals
<1>11. \A i \in D : \E m \in DOMAIN new : new[m] = i
  BY <1>6 DEF Arrivals, D
<1>12. ASSUME NEW i \in D, NEW j \in D, CameBefore(arr, i, j) PROVE CameBefore(new, i, j)
  <2>1. PICK m \in DOMAIN arr, n \in DOMAIN arr : m < n /\ arr[m] = i /\ arr[n] = j
    BY <1>12 DEF CameBefore
  <2>2. m # k /\ n # k
    BY <2>1 DEF D
  <2>. QED BY <1>6, <1>7, <2>1, <2>2 DEF CameBefore
<1>. QED BY <1>9, <1>10, <1>11, <1>12 DEF Arrivals, D

\* An item that is put behind those that are no greater.
LEMMA FairInserted ==
    ASSUME NEW nxt, NEW prv, NEW x, NEW C, NEW c, NEW value, IsList(nxt, prv, x, C, c, value),
           NEW arr, Arrivals(arr, C), Fair(C, nxt, value, arr),
           NEW i \in Item, i \notin C, NEW v \in 0 .. portMAX_DELAY,
           NEW p \in C \union {xListEnd}, NEW n \in C \union {xListEnd}, nxt[p] = n,
           p # xListEnd => value[p] <= v,
           n # xListEnd => value[n] > v,
           NEW nxt2, nxt2 = [nxt EXCEPT ![i] = n, ![p] = i],
           NEW value2, value2 = [value EXCEPT ![i] = v],
           NEW arr2, arr2 = Append(arr, i)
    PROVE  Fair(C \union {i}, nxt2, value2, arr2)
<1>1. /\ i \in Node /\ p \in Node /\ i # p /\ i # xListEnd
      /\ nxt \in [Node -> Node] /\ value \in [Item -> 0 .. portMAX_DELAY] /\ C \subseteq Item
  BY DEF IsList, Links, Node
<1>2. nxt2[i] = n /\ nxt2[p] = i /\ \A m \in C \ {p} : nxt2[m] = nxt[m]
  BY <1>1 DEF Node
<1>3. value2[i] = v /\ \A m \in C : value2[m] = value[m]
  BY <1>1
<1>4. /\ \A j, k \in C : CameBefore(arr, j, k) => CameBefore(arr2, j, k)
      /\ \A j \in C : CameBefore(arr2, j, i)
  BY ArrivalAppended
<1>5. \A m \in C : nxt[m] # i /\ value[m] \in Int
  BY <1>1 DEF IsList, Ring
<1>6. SUFFICES ASSUME NEW j \in C \union {i}, NEW k \in C \union {i}, nxt2[j] = k
               PROVE  \/ value2[j] < value2[k]
                      \/ value2[j] = value2[k] /\ CameBefore(arr2, j, k)
  BY DEF Fair
<1>7. CASE j = i
  <2>1. k = n /\ n \in C
    BY <1>1, <1>2, <1>6, <1>7
  <2>2. value[n] > v
    BY <1>1, <2>1
  <2>. QED BY <1>3, <1>5, <1>7, <2>1, <2>2
<1>8. CASE j = p /\ j # i
  <2>1. k = i /\ p \in C /\ value[p] <= v
    BY <1>1, <1>2, <1>6, <1>8
  <2>. QED BY <1>3, <1>4, <1>5, <1>8, <2>1
<1>9. CASE j # p /\ j # i
  <2>1. j \in C /\ k \in C /\ nxt[j] = k
    BY <1>2, <1>5, <1>6, <1>9
  <2>. QED BY <1>3, <1>4, <2>1 DEF Fair
<1>. QED BY <1>7, <1>8, <1>9

LEMMA FairRemoved ==
    ASSUME NEW nxt, NEW prv, NEW x, NEW C, NEW c, NEW value, IsList(nxt, prv, x, C, c, value),
           NEW arr, Arrivals(arr, C), Fair(C, nxt, value, arr),
           NEW k \in DOMAIN arr, NEW i, i = arr[k],
           NEW nxt2, nxt2 = [nxt EXCEPT ![prv[i]] = nxt[i]],
           NEW arr2, arr2 = RemoveAt(arr, k)
    PROVE  Fair(C \ {i}, nxt2, value, arr2)
<1>1. /\ i \in C /\ i # xListEnd /\ C \subseteq Item
      /\ nxt \in [Node -> Node] /\ value \in [Item -> 0 .. portMAX_DELAY]
      /\ Ring(C \union {xListEnd}, nxt, prv)
  BY DEF IsList, Links, Arrivals
<1>2. PICK p, n : p = prv[i] /\ n = nxt[i]
  OBVIOUS
<1>3. p \in C \union {xListEnd} /\ nxt[p] = i
  BY <1>1, <1>2 DEF Ring
<1>4. nxt2[p] = n /\ \A m \in C \ {p} : nxt2[m] = nxt[m]
  BY <1>1, <1>2, <1>3 DEF Node
<1>5. \A a, b \in C \ {i} : CameBefore(arr, a, b) => CameBefore(arr2, a, b)
  BY ArrivalRemoved
<1>6. \A m \in C : value[m] \in Int
  BY <1>1
<1>7. SUFFICES ASSUME NEW a \in C \ {i}, NEW b \in C \ {i}, nxt2[a] = b
               PROVE  value[a] < value[b] \/ (value[a] = value[b] /\ CameBefore(arr2, a, b))
  BY DEF Fair
<1>8. CASE a # p
  <2>1. nxt[a] = b
    BY <1>4, <1>7, <1>8
  <2>. QED BY <1>5, <2>1 DEF Fair
<1>9. CASE a = p
  <2>1. b = n /\ nxt[a] = i /\ nxt[i] = b
    BY <1>2, <1>3, <1>4, <1>7, <1>9
  <2>2. /\ value[a] < value[i] \/ (value[a] = value[i] /\ CameBefore(arr, a, i))
        /\ value[i] < value[b] \/ (value[i] = value[b] /\ CameBefore(arr, i, b))
    BY <1>1, <2>1 DEF Fair
  <2>3. CASE value[a] < value[i] \/ value[i] < value[b]
    BY <1>1, <1>6, <2>2, <2>3
  <2>4. CASE value[a] = value[i] /\ value[i] = value[b]
    <3>1. CameBefore(arr, a, i) /\ CameBefore(arr, i, b)
      BY <1>1, <1>6, <2>2, <2>4
    <3>2. CameBefore(arr2, a, b)
      BY <1>5, <3>1, BeforeIsTransitive
    <3>. QED BY <2>4, <3>2
  <2>. QED BY <2>2, <2>3, <2>4
<1>. QED BY <1>8, <1>9

DelayedInv ==
    /\ DelayedList
    /\ Arrivals(arrival, dContainer)
    /\ Fair(dContainer, dNext, dItemValue, arrival)

LEMMA DelayedSorted == DelayedInv => Delayed!RingOK /\ SortedAndFair
<1>. SUFFICES ASSUME DelayedInv PROVE Delayed!RingOK /\ SortedAndFair
  OBVIOUS
<1>1. \A i \in dContainer : Delayed!Value(i) = dItemValue[i]
  BY DEF DelayedInv, DelayedList, IsList, Delayed!Value
<1>2. Delayed!SortedAndFair
  BY <1>1 DEF DelayedInv, Delayed!SortedAndFair, Fair, CameBefore
<1>. QED BY <1>2, DelayedListIs DEF DelayedInv, SortedAndFair

\* vListInsert puts an item behind those of no greater value and before the others.
LEMMA DelayedIterator ==
    ASSUME DelayedList, NEW v \in 0 .. portMAX_DELAY,
           NEW p, p = Delayed!pxIterator(v)
    PROVE  /\ p \in dContainer \union {xListEnd}
           /\ p # xListEnd => dItemValue[p] <= v
           /\ dNext[p] # xListEnd => dItemValue[dNext[p]] > v
<1>. DEFINE N == dContainer \union {xListEnd}
            value == [n \in N |-> Delayed!Value(n)]
<1>1. /\ xListEnd \in N /\ Ring(N, dNext, dPrevious) /\ Delayed!Nodes = N
      /\ \A n \in N : value[n] \in 0 .. portMAX_DELAY
      /\ value[xListEnd] = portMAX_DELAY
      /\ \A n \in dContainer : n # xListEnd /\ value[n] = dItemValue[n]
  BY DEF DelayedList, IsList, Delayed!Nodes, Delayed!Value
<1>2. CASE v = portMAX_DELAY
  <2>1. p = dPrevious[xListEnd]
    BY <1>2 DEF Delayed!pxIterator
  <2>2. p \in N /\ dNext[p] = xListEnd
    BY <1>1, <2>1 DEF Ring
  <2>3. p # xListEnd => dItemValue[p] <= v
    BY <1>2, <2>2 DEF DelayedList, IsList
  <2>. QED BY <2>2, <2>3
<1>3. CASE v # portMAX_DELAY
  <2>1. \A n \in N : dNext[n] \in N
    BY <1>1 DEF Ring
  <2>2. Delayed!Passed(v) = PassedIn(N, dNext, value, v)
    BY <1>1, <2>1 DEF Delayed!Passed, PassedIn
  <2>3. \A m \in PassedIn(N, dNext, value, v) : value[dNext[m]] = Delayed!Value(dNext[m])
    BY <2>1 DEF PassedIn
  <2>4. p = CHOOSE m \in PassedIn(N, dNext, value, v) : value[dNext[m]] > v
    BY <1>3, <2>2, <2>3 DEF Delayed!pxIterator
  <2>5. \A n \in N : n # xListEnd => value[n] = dItemValue[n]
    BY <1>1
  <2>. HIDE DEF value, N
  <2>6. p \in N /\ value[dNext[p]] > v /\ (p # xListEnd => value[p] <= v)
    BY <1>1, <1>3, <2>4, LoopStops
  <2>7. dNext[p] # xListEnd => dItemValue[dNext[p]] > v
    BY <2>1, <2>5, <2>6
  <2>8. p # xListEnd => dItemValue[p] <= v
    BY <2>5, <2>6
  <2>. QED BY <2>6, <2>7, <2>8 DEF N
<1>. QED BY <1>2, <1>3

LEMMA DelayedInserts ==
    ASSUME DelayedInv, NEW i \in Item, NEW v \in 0 .. portMAX_DELAY, Delayed!Insert(i, v)
    PROVE  DelayedInv'
<1>1. PICK p, n : p = Delayed!pxIterator(v) /\ n = dNext[p]
  OBVIOUS
<1>2. /\ i \notin dContainer
      /\ p \in dContainer \union {xListEnd} /\ n \in dContainer \union {xListEnd}
      /\ dNext[p] = n /\ dPrevious[n] = p
      /\ p # xListEnd => dItemValue[p] <= v
      /\ n # xListEnd => dItemValue[n] > v
  <2>1. /\ p \in dContainer \union {xListEnd}
        /\ p # xListEnd => dItemValue[p] <= v
        /\ n # xListEnd => dItemValue[n] > v
    BY <1>1, DelayedIterator DEF DelayedInv
  <2>2. n \in dContainer \union {xListEnd} /\ dPrevious[n] = p
    BY <1>1, <2>1, Neighbours DEF DelayedInv, DelayedList
  <2>. QED BY <1>1, <2>1, <2>2 DEF Delayed!Insert, Delayed!vListInsert
<1>3. /\ dNext' = [dNext EXCEPT ![i] = n, ![p] = i]
      /\ dPrevious' = [dPrevious EXCEPT ![i] = p, ![n] = i]
      /\ dContainer' = dContainer \union {i}
      /\ dNumberOfItems' = dNumberOfItems + 1
      /\ dIndex' = dIndex /\ dItemValue' = [dItemValue EXCEPT ![i] = v]
      /\ arrival' = Append(arrival, i)
  BY <1>1 DEF Delayed!Insert, Delayed!vListInsert, Delayed!LinkBetween
<1>4. dItemValue' \in [Item -> 0 .. portMAX_DELAY]
  BY <1>3 DEF DelayedInv, DelayedList, IsList
<1>5. DelayedList'
  BY <1>2, <1>3, <1>4, ListLinked DEF DelayedInv, DelayedList
<1>6. Arrivals(arrival', dContainer')
  BY <1>2, <1>3, ArrivalAppended DEF DelayedInv
<1>7. Fair(dContainer', dNext', dItemValue', arrival')
  BY <1>2, <1>3, FairInserted DEF DelayedInv, DelayedList
<1>. QED BY <1>5, <1>6, <1>7 DEF DelayedInv

LEMMA DelayedLeaves ==
    ASSUME DelayedInv, NEW i \in Item, Delayed!Leave(i)
    PROVE  DelayedInv'
<1>1. /\ i \in dContainer
      /\ dNext' = [dNext EXCEPT ![dPrevious[i]] = dNext[i]]
      /\ dPrevious' = [dPrevious EXCEPT ![dNext[i]] = dPrevious[i]]
      /\ dIndex' = IF dIndex = i THEN dPrevious[i] ELSE dIndex
      /\ dContainer' = dContainer \ {i}
      /\ dNumberOfItems' = dNumberOfItems - 1
      /\ dItemValue' = dItemValue
  BY DEF Delayed!Leave, Delayed!uxListRemove
<1>2. PICK k \in DOMAIN arrival : arrival[k] = i /\ arrival' = RemoveAt(arrival, k)
  BY DEF Delayed!Leave, Delayed!RemoveAt, RemoveAt
<1>3. DelayedList'
  BY <1>1, ListUnlinked, ZenonT(30) DEF DelayedInv, DelayedList
<1>4. Arrivals(arrival', dContainer')
  BY <1>1, <1>2, ArrivalRemoved DEF DelayedInv
<1>5. Fair(dContainer', dNext', dItemValue', arrival')
  BY <1>1, <1>2, FairRemoved DEF DelayedInv, DelayedList
<1>. QED BY <1>3, <1>4, <1>5 DEF DelayedInv

---------------------------------------------------------------------------
(* Both lists *)

ListsInv ==
    /\ ThisList
    /\ DelayedInv
    /\ pvContainer \intersect dContainer = {}

LEMMA InitLists == TaskListsInit => ListsInv
<1>. SUFFICES ASSUME TaskListsInit PROVE ListsInv
  OBVIOUS
<1>1. ThisList
  BY NewRing DEF TaskListsInit, Init, ListInit, vListInitialise, ThisList
<1>2. /\ dNext = [n \in Node |-> n] /\ dPrevious = [n \in Node |-> n] /\ dIndex = xListEnd
      /\ dContainer = {} /\ dNumberOfItems = 0 /\ dItemValue = [i \in Item |-> 0]
      /\ arrival = <<>>
  BY DEF TaskListsInit, Delayed!Init, Delayed!ListInit, Delayed!vListInitialise,
         Delayed!Node, Node
<1>3. DelayedList
  BY <1>2, NewRing DEF DelayedList
<1>4. Arrivals(arrival, dContainer) /\ Fair(dContainer, dNext, dItemValue, arrival)
  <2>1. <<>> \in Seq({}) /\ DOMAIN <<>> = {}
    BY EmptySeq
  <2>. QED BY <1>2, <2>1 DEF Arrivals, Fair
<1>. QED BY <1>1, <1>2, <1>3, <1>4 DEF DelayedInv, ListsInv

\* The steps of the ready list, with those of the delayed list that go with them.
LEMMA NextLists == ListsInv /\ [TaskListsNext]_allVars => ListsInv'
<1>. SUFFICES ASSUME ListsInv, [TaskListsNext]_allVars PROVE ListsInv'
  OBVIOUS
<1>1. /\ ThisList /\ DelayedInv /\ pvContainer \intersect dContainer = {}
      /\ dContainer \subseteq Item /\ pvContainer \subseteq Item
  BY DEF ListsInv, ThisList, DelayedInv, DelayedList, IsList
<1>2. UNCHANGED delayedVars => DelayedInv' /\ dContainer' = dContainer
  BY <1>1 DEF delayedVars, DelayedInv, DelayedList
<1>3. UNCHANGED vars => ThisList' /\ pvContainer' = pvContainer
  BY <1>1 DEF vars, listVars, ThisList
<1>4. CASE UNCHANGED allVars
  BY <1>1, <1>2, <1>3, <1>4 DEF allVars, ListsInv
<1>5. CASE SelectNext
  <2>1. ThisList' /\ pvContainer' = pvContainer
    BY <1>1, <1>5, IndexMoved DEF SelectNext, Select, listGET_OWNER_OF_NEXT_ENTRY
  <2>. QED BY <1>1, <1>2, <1>5, <2>1 DEF SelectNext, ListsInv
<1>6. ASSUME NEW v \in WakeTimes, DelayCurrent(v) PROVE ListsInv'
  <2>1. PICK i \in Item : i = pxIndex
    BY <1>1, <1>6 DEF DelayCurrent
  <2>2. v \in 0 .. portMAX_DELAY
    BY TaskListsAssumption
  <2>3. uxListRemove(i) /\ Delayed!Insert(i, v)
    BY <1>6, <2>1 DEF DelayCurrent, Leave
  <2>4. ThisList' /\ pvContainer' = pvContainer \ {i}
    BY <1>1, <2>3, Removed DEF uxListRemove
  <2>5. DelayedInv'
    BY <1>1, <2>2, <2>3, DelayedInserts
  <2>6. dContainer' = dContainer \union {i}
    BY <2>3 DEF Delayed!Insert, Delayed!vListInsert, Delayed!LinkBetween
  <2>. QED BY <1>1, <2>4, <2>5, <2>6 DEF ListsInv
<1>7. ASSUME NEW i \in Item, MakeReady(i) PROVE ListsInv'
  <2>1. vListInsertEnd(i) /\ i \notin dContainer /\ UNCHANGED delayedVars
    BY <1>7 DEF MakeReady, prvAddTaskToReadyList
  <2>2. ThisList' /\ pvContainer' = pvContainer \union {i}
    BY <1>1, <2>1, EndInserted DEF vListInsertEnd, LinkBetween
  <2>. QED BY <1>1, <1>2, <2>1, <2>2 DEF ListsInv
<1>8. ASSUME NEW i \in Item, Wake(i) PROVE ListsInv'
  <2>1. vListInsertEnd(i) /\ Delayed!Leave(i)
    BY <1>8 DEF Wake, prvAddTaskToReadyList
  <2>2. ThisList' /\ pvContainer' = pvContainer \union {i}
    BY <1>1, <2>1, EndInserted DEF vListInsertEnd, LinkBetween
  <2>3. DelayedInv' /\ dContainer' = dContainer \ {i}
    BY <1>1, <2>1, DelayedLeaves DEF Delayed!Leave, Delayed!uxListRemove
  <2>. QED BY <1>1, <2>2, <2>3 DEF ListsInv
<1>9. ASSUME NEW i \in Item, Suspend(i) PROVE ListsInv'
  <2>1. CASE Leave(i) /\ UNCHANGED delayedVars
    <3>1. ThisList' /\ pvContainer' = pvContainer \ {i}
      BY <1>1, <2>1, Removed DEF Leave, uxListRemove
    <3>. QED BY <1>1, <1>2, <2>1, <3>1 DEF ListsInv
  <2>2. CASE Delayed!Leave(i) /\ UNCHANGED vars
    <3>1. DelayedInv' /\ dContainer' = dContainer \ {i}
      BY <1>1, <2>2, DelayedLeaves DEF Delayed!Leave, Delayed!uxListRemove
    <3>. QED BY <1>1, <1>3, <2>2, <3>1 DEF ListsInv
  <2>. QED BY <1>9, <2>1, <2>2 DEF Suspend
<1>. QED BY <1>4, <1>5, <1>6, <1>7, <1>8, <1>9 DEF TaskListsNext

(***************************************************************************)
(* While tasks move between the ready list and the delayed list both stay  *)
(* rings of exactly the tasks in them, and no task is in both.             *)
(***************************************************************************)
THEOREM ListsStayWhole == TaskListsSpec => []ListsOK
<1>1. ListsInv => ListsOK
  BY ThisListIs, DelayedSorted DEF ListsInv, ListsOK
<1>. QED BY <1>1, InitLists, NextLists, PTL DEF TaskListsSpec

(***************************************************************************)
(* The delayed list stays sorted by the time to wake, and tasks with the   *)
(* same time stand in the order that they came, whoever is taken out       *)
(* from between.                                                           *)
(***************************************************************************)
THEOREM DelayedListIsFair == TaskListsSpec => []SortedAndFair
<1>1. ListsInv => SortedAndFair
  BY DelayedSorted DEF ListsInv
<1>. QED BY <1>1, InitLists, NextLists, PTL DEF TaskListsSpec

---------------------------------------------------------------------------
(* The ready list serves its tasks in turn *)

\* After, for any list.
Skip(nxt, n) == IF nxt[n] = xListEnd THEN nxt[xListEnd] ELSE nxt[n]

\* s has the n items of a list in the order that the next selections return them.
Follows(s, nxt, x, n) ==
    \A k \in 1 .. n : s[k] = Skip(nxt, IF k = 1 THEN x ELSE s[k - 1])

Turn(s, nxt, prv, x, C, n) ==
    /\ s \in [1 .. n -> C]
    /\ \A j, k \in 1 .. n : s[j] = s[k] => j = k
    /\ \A i \in C : \E k \in 1 .. n : s[k] = i
    /\ Follows(s, nxt, x, n)
    /\ n # 0 => s[n] = IF x = xListEnd THEN prv[xListEnd] ELSE x

\* The order when the first of n was served, when i took its place, and when the one
\* at place left.
Served(s, n) == [k \in 1 .. n |-> IF k = n THEN s[1] ELSE s[k + 1]]
Joined(s, n, i, place) ==
    [k \in 1 .. n + 1 |-> IF k = place THEN i ELSE IF k = n + 1 THEN s[n] ELSE s[k]]
Left(s, n, place) == [k \in 1 .. n - 1 |-> IF k < place THEN s[k] ELSE s[k + 1]]

\* The pointers of the nodes in S are left alone.
Untouched(nxt, nxt2, S) == \A m \in S : nxt2[m] = nxt[m]

\* Order, for any list.
OrderOf(nxt, x, C, n) == CHOOSE s \in [1 .. n -> C] : Follows(s, nxt, x, n)

LEMMA OrderIs ==
    ASSUME NEW n \in Nat, NEW C, NEW nxt, NEW prv, NEW x, NEW s, Turn(s, nxt, prv, x, C, n)
    PROVE  OrderOf(nxt, x, C, n) = s
<1>. DEFINE o == OrderOf(nxt, x, C, n)
<1>1. s \in [1 .. n -> C] /\ Follows(s, nxt, x, n)
  BY DEF Turn
<1>2. o \in [1 .. n -> C] /\ Follows(o, nxt, x, n)
  BY <1>1 DEF OrderOf
<1>. HIDE DEF o
<1>. DEFINE Same == {k \in Nat : k \in 1 .. n => o[k] = s[k]}
<1>3. 0 \in Same
  OBVIOUS
<1>4. ASSUME NEW k \in Same PROVE k + 1 \in Same
  <2>1. k \in Nat
    OBVIOUS
  <2>. SUFFICES ASSUME k + 1 \in 1 .. n PROVE o[k + 1] = s[k + 1]
    BY <2>1
  <2>2. /\ o[k + 1] = Skip(nxt, IF k + 1 = 1 THEN x ELSE o[(k + 1) - 1])
        /\ s[k + 1] = Skip(nxt, IF k + 1 = 1 THEN x ELSE s[(k + 1) - 1])
    BY <1>1, <1>2 DEF Follows
  <2>3. (k + 1) - 1 = k /\ (k + 1 = 1 <=> k = 0)
    BY <2>1
  <2>4. k # 0 => o[k] = s[k]
    BY <2>1
  <2>. QED BY <2>2, <2>3, <2>4
<1>5. Same \in SUBSET Nat
  OBVIOUS
<1>. HIDE DEF Same
<1>6. Same = Nat
  BY <1>3, <1>4, <1>5, SetInduction
<1>7. \A k \in 1 .. n : o[k] = s[k]
  BY <1>6 DEF Same
<1>8. o = s
  BY <1>1, <1>2, <1>7
<1>. QED BY <1>8 DEF o

\* What a selection returns is the first of the order.
LEMMA TurnServed ==
    ASSUME NEW n \in Nat \ {0}, NEW C, NEW nxt, NEW prv, NEW x, NEW value,
           IsList(nxt, prv, x, C, n, value), NEW s, Turn(s, nxt, prv, x, C, n)
    PROVE  /\ Skip(nxt, x) = s[1]
           /\ Turn(Served(s, n), nxt, prv, s[1], C, n)
<1>. DEFINE r == [k \in 1 .. n |-> IF k = n THEN s[1] ELSE s[k + 1]]
<1>1. /\ s \in [1 .. n -> C] /\ \A j, k \in 1 .. n : s[j] = s[k] => j = k
      /\ \A i \in C : \E k \in 1 .. n : s[k] = i
      /\ 1 \in 1 .. n /\ n \in 1 .. n /\ xListEnd \notin C
  BY DEF Turn, IsList
<1>2. Skip(nxt, x) = s[1]
  BY <1>1 DEF Turn, Follows
<1>3. Skip(nxt, s[n]) = s[1]
  <2>1. CASE x # xListEnd
    BY <1>2, <2>1 DEF Turn
  <2>2. CASE x = xListEnd
    <3>1. s[n] = prv[xListEnd] /\ nxt[s[n]] = xListEnd
      BY <2>2 DEF Turn, IsList, Ring
    <3>. QED BY <1>1, <1>2, <2>2, <3>1 DEF Skip
  <2>. QED BY <2>1, <2>2
<1>4. \A k \in 1 .. n - 1 : k + 1 \in 1 .. n /\ s[k + 1] = Skip(nxt, s[k])
  <2>. SUFFICES ASSUME NEW k \in 1 .. n - 1
                PROVE  k + 1 \in 1 .. n /\ s[k + 1] = Skip(nxt, s[k])
    OBVIOUS
  <2>1. k + 1 \in 1 .. n /\ k + 1 # 1 /\ (k + 1) - 1 = k
    OBVIOUS
  <2>2. s[k + 1] = Skip(nxt, IF k + 1 = 1 THEN x ELSE s[(k + 1) - 1])
    BY <2>1 DEF Turn, Follows
  <2>. QED BY <2>1, <2>2
<1>5. \A k \in 1 .. n : r[k] = Skip(nxt, s[k])
  <2>. SUFFICES ASSUME NEW k \in 1 .. n PROVE r[k] = Skip(nxt, s[k])
    OBVIOUS
  <2>1. CASE k = n
    BY <1>3, <2>1
  <2>2. CASE k # n
    <3>1. k \in 1 .. n - 1
      BY <2>2
    <3>. QED BY <1>4, <2>2, <3>1
  <2>. QED BY <2>1, <2>2
<1>6. r \in [1 .. n -> C]
  <2>1. \A k \in 1 .. n : (IF k = n THEN s[1] ELSE s[k + 1]) \in C
    <3>. SUFFICES ASSUME NEW k \in 1 .. n, k # n PROVE s[k + 1] \in C
      BY <1>1
    <3>1. k + 1 \in 1 .. n
      OBVIOUS
    <3>. QED BY <1>1, <3>1
  <2>. QED BY <2>1
<1>7. ASSUME NEW j \in 1 .. n, NEW k \in 1 .. n, r[j] = r[k] PROVE j = k
  <2>1. CASE j = n
    <3>. SUFFICES ASSUME k # n PROVE FALSE
      BY <2>1
    <3>1. k + 1 \in 1 .. n /\ k + 1 # 1 /\ s[k + 1] = s[1]
      BY <1>7, <2>1
    <3>. QED BY <1>1, <3>1
  <2>2. CASE j # n /\ k = n
    <3>1. j + 1 \in 1 .. n /\ j + 1 # 1 /\ s[j + 1] = s[1]
      BY <1>7, <2>2
    <3>. QED BY <1>1, <3>1
  <2>3. CASE j # n /\ k # n
    <3>1. j + 1 \in 1 .. n /\ k + 1 \in 1 .. n /\ s[j + 1] = s[k + 1]
      BY <1>7, <2>3
    <3>2. j + 1 = k + 1
      BY <1>1, <3>1
    <3>. QED BY <3>2
  <2>. QED BY <2>1, <2>2, <2>3
<1>8. ASSUME NEW i \in C PROVE \E k \in 1 .. n : r[k] = i
  <2>1. PICK k \in 1 .. n : s[k] = i
    BY <1>1
  <2>2. CASE k = 1
    BY <1>1, <2>1, <2>2
  <2>3. CASE k # 1
    <3>1. k - 1 \in 1 .. n /\ k - 1 # n /\ (k - 1) + 1 = k
      BY <2>3
    <3>2. r[k - 1] = s[k]
      BY <3>1
    <3>. QED BY <2>1, <3>1, <3>2
  <2>. QED BY <2>2, <2>3
<1>9. Follows(r, nxt, s[1], n)
  <2>. SUFFICES ASSUME NEW k \in 1 .. n
                PROVE  r[k] = Skip(nxt, IF k = 1 THEN s[1] ELSE r[k - 1])
    BY DEF Follows
  <2>1. CASE k = 1
    BY <1>5, <2>1
  <2>2. CASE k # 1
    <3>1. k - 1 \in 1 .. n /\ k - 1 # n /\ (k - 1) + 1 = k
      BY <2>2
    <3>2. r[k - 1] = s[k]
      BY <3>1
    <3>. QED BY <1>5, <2>2, <3>2
  <2>. QED BY <2>1, <2>2
<1>10. r[n] = s[1] /\ s[1] # xListEnd
  BY <1>1
<1>. HIDE DEF r
<1>11. Turn(r, nxt, prv, s[1], C, n)
  BY <1>6, <1>7, <1>8, <1>9, <1>10 DEF Turn
<1>. QED BY <1>2, <1>11 DEF r, Served

\* A newcomer, put before the index, queues behind everybody but the task that the index is at.
LEMMA TurnJoined ==
    ASSUME NEW n \in Nat, NEW C, NEW nxt, NEW prv, NEW x, NEW value,
           IsList(nxt, prv, x, C, n, value), NEW s, Turn(s, nxt, prv, x, C, n),
           NEW i \in Item, i \notin C,
           NEW nxt2, nxt2[i] = x, nxt2[prv[x]] = i,
           Untouched(nxt, nxt2, (C \union {xListEnd}) \ {prv[x]}),
           NEW prv2, prv2[x] = i,
           NEW place, place = IF x = xListEnd THEN n + 1 ELSE n
    PROVE  Turn(Joined(s, n, i, place), nxt2, prv2, x, C \union {i}, n + 1)
<1>. SUFFICES ASSUME NEW r, r = Joined(s, n, i, place)
              PROVE  Turn(r, nxt2, prv2, x, C \union {i}, n + 1)
  OBVIOUS
<1>. USE DEF Joined
<1>. DEFINE N == C \union {xListEnd}
<1>1. /\ s \in [1 .. n -> C] /\ \A j, k \in 1 .. n : s[j] = s[k] => j = k
      /\ \A j \in C : \E k \in 1 .. n : s[k] = j
      /\ C \subseteq Item /\ x \in N /\ i # xListEnd /\ i \notin N /\ xListEnd \notin C
  BY DEF Turn, IsList
<1>2. PICK p : p = prv[x]
  OBVIOUS
<1>3. p \in N /\ nxt[p] = x /\ \A m \in N : nxt[m] \in N /\ prv[nxt[m]] = m
  BY <1>1, <1>2 DEF IsList, Ring
<1>4. nxt2[i] = x /\ nxt2[p] = i /\ \A m \in N \ {p} : nxt2[m] = nxt[m]
  BY <1>2 DEF Untouched
<1>5. prv2[x] = i
  OBVIOUS
<1>6. x # xListEnd => n # 0 /\ n \in 1 .. n /\ s[n] = x
  BY <1>1 DEF Turn
<1>7. place \in 1 .. n + 1 /\ (place = n \/ place = n + 1) /\ (place = n => n # 0)
  BY <1>6
<1>8. /\ r \in [1 .. n + 1 -> C \union {i}] /\ r[place] = i
      /\ \A k \in 1 .. n : k # place => r[k] = s[k]
      /\ place = n => r[n + 1] = s[n]
  <2>1. \A k \in 1 .. n + 1 : k # place /\ k # n + 1 => k \in 1 .. n
    OBVIOUS
  <2>2. place # n + 1 => n \in 1 .. n
    BY <1>7
  <2>3. \A k \in 1 .. n + 1 : (IF k = place THEN i ELSE IF k = n + 1 THEN s[n] ELSE s[k])
                                  \in C \union {i}
    BY <1>1, <2>1, <2>2
  <2>. QED BY <1>7, <2>3
<1>9. \A k \in 1 .. n + 1 :
          k # place => \E m \in 1 .. n : /\ r[k] = s[m]
                                         /\ m = IF k = n + 1 THEN n ELSE k
  <2>. SUFFICES ASSUME NEW k \in 1 .. n + 1, k # place
                PROVE  \E m \in 1 .. n : r[k] = s[m] /\ m = IF k = n + 1 THEN n ELSE k
    OBVIOUS
  <2>1. CASE k = n + 1
    <3>1. place = n /\ n \in 1 .. n
      BY <1>7, <2>1
    <3>. QED BY <1>8, <2>1, <3>1
  <2>2. CASE k # n + 1
    <3>1. k \in 1 .. n
      BY <2>2
    <3>. QED BY <1>8, <2>2, <3>1
  <2>. QED BY <2>1, <2>2
<1>10. ASSUME NEW j \in 1 .. n + 1, NEW k \in 1 .. n + 1, r[j] = r[k] PROVE j = k
  <2>1. CASE j = place \/ k = place
    BY <1>1, <1>8, <1>9, <1>10, <2>1
  <2>2. CASE j # place /\ k # place
    <3>1. PICK a \in 1 .. n : r[j] = s[a] /\ a = IF j = n + 1 THEN n ELSE j
      BY <1>9, <2>2
    <3>2. PICK b \in 1 .. n : r[k] = s[b] /\ b = IF k = n + 1 THEN n ELSE k
      BY <1>9, <2>2
    <3>3. a = b
      BY <1>1, <1>10, <3>1, <3>2
    <3>. QED BY <1>7, <2>2, <3>1, <3>2, <3>3
  <2>. QED BY <2>1, <2>2
<1>11. ASSUME NEW j \in C \union {i} PROVE \E k \in 1 .. n + 1 : r[k] = j
  <2>1. CASE j = i
    BY <1>7, <1>8, <2>1
  <2>2. CASE j # i
    <3>1. PICK k \in 1 .. n : s[k] = j
      BY <1>1, <2>2
    <3>2. k \in 1 .. n + 1 /\ n + 1 \in 1 .. n + 1
      OBVIOUS
    <3>3. CASE k # place
      BY <1>8, <3>1, <3>2, <3>3
    <3>4. CASE k = place
      <4>1. place = n /\ k = n
        BY <1>7, <3>4
      <4>. QED BY <1>8, <3>1, <3>2, <4>1
    <3>. QED BY <3>3, <3>4
  <2>. QED BY <2>1, <2>2
<1>12. \A k \in 1 .. n : s[k] = Skip(nxt, IF k = 1 THEN x ELSE s[k - 1])
  BY DEF Turn, Follows
<1>13. Follows(r, nxt2, x, n + 1) /\ r[n + 1] = (IF x = xListEnd THEN i ELSE x)
  <2>1. CASE x = xListEnd
    <3>1. place = n + 1 /\ r[n + 1] = i /\ \A k \in 1 .. n : r[k] = s[k]
      BY <1>8, <2>1
    <3>2. n # 0 => n \in 1 .. n /\ p = s[n] /\ p # xListEnd
      BY <1>1, <1>2, <2>1 DEF Turn
    <3>3. n = 0 => p = xListEnd
      <4>1. n = 0 => C = {}
        BY <1>1
      <4>. QED BY <1>3, <4>1
    <3>4. \A m \in N \ {p} : n # 0 => Skip(nxt2, m) = Skip(nxt, m)
      BY <1>1, <1>4, <3>2 DEF Skip
    <3>5. Skip(nxt2, p) = i
      BY <1>1, <1>4 DEF Skip
    <3>6. ASSUME NEW k \in 1 .. n + 1
          PROVE  r[k] = Skip(nxt2, IF k = 1 THEN x ELSE r[k - 1])
      <4>1. CASE k = n + 1 /\ n = 0
        BY <2>1, <3>1, <3>3, <3>5, <4>1
      <4>2. CASE k = n + 1 /\ n # 0
        <5>1. k # 1 /\ r[k - 1] = p
          BY <3>1, <3>2, <4>2
        <5>. QED BY <3>1, <3>5, <4>2, <5>1
      <4>3. CASE k \in 1 .. n /\ k = 1
        <5>1. x \in N \ {p} /\ n # 0
          BY <1>1, <2>1, <3>2, <4>3
        <5>2. s[k] = Skip(nxt, x)
          BY <1>12, <4>3
        <5>. QED BY <3>1, <3>4, <4>3, <5>1, <5>2
      <4>4. CASE k \in 1 .. n /\ k # 1
        <5>1. k - 1 \in 1 .. n /\ k - 1 # n /\ n # 0
          BY <4>4
        <5>2. s[k - 1] \in N \ {p}
          BY <1>1, <3>2, <5>1
        <5>3. s[k] = Skip(nxt, s[k - 1])
          BY <1>12, <4>4
        <5>. QED BY <3>1, <3>4, <4>4, <5>1, <5>2, <5>3
      <4>. QED BY <4>1, <4>2, <4>3, <4>4
    <3>. QED BY <2>1, <3>1, <3>6 DEF Follows
  <2>2. CASE x # xListEnd
    <3>1. n # 0 /\ n \in 1 .. n /\ s[n] = x /\ place = n
      BY <1>6, <2>2
    <3>2. r[n] = i /\ r[n + 1] = x /\ \A k \in 1 .. n : k # n => r[k] = s[k]
      BY <1>8, <3>1
    <3>3. PICK y : y = IF n = 1 THEN x ELSE s[n - 1]
      OBVIOUS
    <3>4. y \in C /\ Skip(nxt, y) = x
      <4>1. y \in C
        <5>1. n # 1 => n - 1 \in 1 .. n
          BY <3>1
        <5>. QED BY <1>1, <2>2, <3>3, <5>1
      <4>2. x = Skip(nxt, y)
        BY <1>12, <3>1, <3>3
      <4>. QED BY <4>1, <4>2
    <3>5. y = p \/ (p = xListEnd /\ nxt[y] = xListEnd /\ y = prv[xListEnd])
      BY <1>3, <3>4 DEF Skip
    <3>6. Skip(nxt2, y) = i /\ Skip(nxt2, i) = x
      <4>1. CASE y = p
        BY <1>1, <1>4, <2>2, <4>1 DEF Skip
      <4>2. CASE p = xListEnd /\ nxt[y] = xListEnd /\ y = prv[xListEnd]
        <5>1. nxt2[y] = xListEnd /\ nxt2[xListEnd] = i
          BY <1>1, <1>4, <3>4, <4>2
        <5>. QED BY <1>1, <1>4, <2>2, <5>1 DEF Skip
      <4>. QED BY <3>5, <4>1, <4>2
    <3>7. ASSUME NEW m \in C, m # y PROVE Skip(nxt2, m) = Skip(nxt, m)
      <4>1. CASE y = p
        BY <1>1, <1>4, <3>4, <3>7, <4>1 DEF Skip
      <4>2. CASE p = xListEnd /\ nxt[y] = xListEnd /\ y = prv[xListEnd]
        <5>1. nxt[m] # xListEnd
          BY <1>3, <3>7, <4>2
        <5>2. nxt2[m] = nxt[m]
          BY <1>1, <1>4, <4>2
        <5>. QED BY <5>1, <5>2 DEF Skip
      <4>. QED BY <3>5, <4>1, <4>2
    <3>8. ASSUME NEW k \in 1 .. n + 1
          PROVE  r[k] = Skip(nxt2, IF k = 1 THEN x ELSE r[k - 1])
      <4>1. CASE k = n + 1
        <5>1. k # 1 /\ r[k - 1] = i
          BY <3>1, <3>2, <4>1
        <5>. QED BY <3>2, <3>6, <4>1, <5>1
      <4>2. CASE k = n
        <5>1. k # 1 => r[k - 1] = s[k - 1]
          BY <3>1, <3>2, <4>2
        <5>2. (IF k = 1 THEN x ELSE r[k - 1]) = y
          BY <3>3, <4>2, <5>1
        <5>. QED BY <3>2, <3>6, <4>2, <5>2
      <4>3. CASE k \in 1 .. n /\ k # n /\ k = 1
        <5>1. n - 1 \in 1 .. n /\ n - 1 # n /\ n # 1
          BY <4>3
        <5>2. x # y /\ x \in C
          BY <1>1, <2>2, <3>1, <3>3, <5>1
        <5>3. s[k] = Skip(nxt, x)
          BY <1>12, <4>3
        <5>. QED BY <3>2, <3>7, <4>3, <5>2, <5>3
      <4>4. CASE k \in 1 .. n /\ k # n /\ k # 1
        <5>1. k - 1 \in 1 .. n /\ k - 1 # n /\ k - 1 # n - 1 /\ n - 1 \in 1 .. n /\ n # 1
          BY <4>4
        <5>2. s[k - 1] # y /\ s[k - 1] \in C /\ r[k - 1] = s[k - 1]
          BY <1>1, <3>2, <3>3, <5>1
        <5>3. s[k] = Skip(nxt, s[k - 1])
          BY <1>12, <4>4
        <5>. QED BY <3>2, <3>7, <4>4, <5>2, <5>3
      <4>. QED BY <4>1, <4>2, <4>3, <4>4
    <3>. QED BY <2>2, <3>2, <3>8 DEF Follows
  <2>. QED BY <2>1, <2>2
<1>14. n + 1 # 0 => r[n + 1] = IF x = xListEnd THEN prv2[xListEnd] ELSE x
  BY <1>5, <1>13
<1>. HIDE DEF N
<1>. QED BY <1>7, <1>8, <1>10, <1>11, <1>13, <1>14 DEF Turn

\* The next selection from any node skips an item that has left.
LEMMA SkipLeft ==
    ASSUME NEW N, xListEnd \in N, NEW nxt, NEW prv, Ring(N, nxt, prv),
           NEW i \in N, i # xListEnd, N # {xListEnd, i},
           NEW nxt2, nxt2[prv[i]] = nxt[i], \A m \in N \ {prv[i]} : nxt2[m] = nxt[m]
    PROVE  /\ ~ (nxt[xListEnd] = i /\ nxt[i] = xListEnd)
           /\ \A m \in N \ {i} :
                Skip(nxt2, m) = IF Skip(nxt, m) = i THEN Skip(nxt, i) ELSE Skip(nxt, m)
<1>1. PICK p, q : p = prv[i] /\ q = nxt[i]
  OBVIOUS
<1>2. /\ i \in N /\ xListEnd \in N /\ i # xListEnd
      /\ p \in N /\ q \in N /\ nxt[p] = i /\ prv[q] = i
      /\ \A m \in N : nxt[m] \in N /\ prv[nxt[m]] = m
  BY <1>1 DEF Ring
<1>3. nxt2[p] = q /\ \A m \in N \ {p} : nxt2[m] = nxt[m]
  BY <1>1
<1>4. ~ (nxt[xListEnd] = i /\ q = xListEnd)
  <2>. SUFFICES ASSUME nxt[xListEnd] = i, q = xListEnd PROVE FALSE
    OBVIOUS
  <2>1. \A n \in {xListEnd, i} : nxt[n] \in {xListEnd, i}
    BY <1>1
  <2>2. {xListEnd, i} \in SUBSET N /\ xListEnd \in {xListEnd, i}
    BY <1>2
  <2>3. {xListEnd, i} = N
    BY <2>1, <2>2 DEF Ring
  <2>. QED BY <1>2, <2>3
<1>5. ASSUME NEW m \in N \ {i}
      PROVE  Skip(nxt2, m) = IF Skip(nxt, m) = i THEN Skip(nxt, i) ELSE Skip(nxt, m)
  <2>1. CASE nxt[m] # xListEnd /\ nxt[m] # i
    <3>1. m # p
      BY <1>2, <2>1
    <3>. QED BY <1>3, <2>1, <3>1 DEF Skip
  <2>2. CASE nxt[m] = i
    <3>1. m = p /\ Skip(nxt, m) = i
      BY <1>1, <1>2, <2>2 DEF Skip
    <3>2. CASE q # xListEnd
      BY <1>1, <1>3, <3>1, <3>2 DEF Skip
    <3>3. CASE q = xListEnd
      <4>1. p # xListEnd
        BY <1>2, <1>4, <3>3
      <4>. QED BY <1>1, <1>2, <1>3, <3>1, <3>3, <4>1 DEF Skip
    <3>. QED BY <3>2, <3>3
  <2>3. CASE nxt[m] = xListEnd
    <3>1. m # p /\ nxt2[m] = xListEnd
      BY <1>2, <1>3, <2>3
    <3>2. Skip(nxt2, m) = nxt2[xListEnd] /\ Skip(nxt, m) = nxt[xListEnd]
      BY <2>3, <3>1 DEF Skip
    <3>3. CASE nxt[xListEnd] = i
      <4>1. p = xListEnd /\ q # xListEnd
        BY <1>1, <1>2, <1>4, <3>3
      <4>2. Skip(nxt, i) = q
        BY <1>1, <4>1 DEF Skip
      <4>. QED BY <1>3, <3>2, <3>3, <4>1, <4>2
    <3>4. CASE nxt[xListEnd] # i
      <4>1. p # xListEnd
        BY <1>2, <3>4
      <4>. QED BY <1>2, <1>3, <3>2, <3>4, <4>1
    <3>. QED BY <3>3, <3>4
  <2>. QED BY <2>1, <2>2, <2>3
<1>. QED BY <1>1, <1>4, <1>5

\* An item that leaves changes nobody else's turn.
LEMMA TurnLeft ==
    ASSUME NEW n \in Nat, NEW C, NEW nxt, NEW prv, NEW x, NEW value,
           IsList(nxt, prv, x, C, n, value), NEW s, Turn(s, nxt, prv, x, C, n),
           NEW k0 \in 1 .. n, NEW i, i = s[k0],
           NEW nxt2, nxt2[prv[i]] = nxt[i],
           Untouched(nxt, nxt2, (C \union {xListEnd}) \ {prv[i]}),
           NEW prv2, prv2[nxt[i]] = prv[i],
           Untouched(prv, prv2, (C \union {xListEnd}) \ {nxt[i]}),
           NEW x2, x2 = IF x = i THEN prv[i] ELSE x
    PROVE  Turn(Left(s, n, k0), nxt2, prv2, x2, C \ {i}, n - 1)
<1>. SUFFICES ASSUME NEW r, r = Left(s, n, k0)
              PROVE  Turn(r, nxt2, prv2, x2, C \ {i}, n - 1)
  OBVIOUS
<1>. USE DEF Left
<1>. DEFINE N == C \union {xListEnd}
<1>1. /\ s \in [1 .. n -> C] /\ \A j, k \in 1 .. n : s[j] = s[k] => j = k
      /\ \A j \in C : \E k \in 1 .. n : s[k] = j
      /\ C \subseteq Item /\ x \in N /\ xListEnd \notin C /\ i \in C /\ i # xListEnd
      /\ Ring(N, nxt, prv) /\ n # 0 /\ i \in N /\ xListEnd \in N /\ C \subseteq N
  BY DEF Turn, IsList
<1>2. PICK p, q : p = prv[i] /\ q = nxt[i]
  OBVIOUS
<1>3. /\ p \in N /\ q \in N /\ p # i /\ q # i /\ nxt[p] = i /\ prv[q] = i
      /\ \A m \in N : nxt[m] \in N /\ prv[nxt[m]] = m
  <2>1. p # i /\ q # i
    <3>1. PICK M : M = N
      OBVIOUS
    <3>2. xListEnd \in M /\ Ring(M, nxt, prv) /\ i \in M /\ i # xListEnd
      BY <1>1, <3>1
    <3>. HIDE DEF N
    <3>3. nxt[i] # i /\ prv[i] # i
      BY <3>2, NoLoop
    <3>. QED BY <1>2, <3>3
  <2>. QED BY <1>1, <1>2, <2>1 DEF Ring
<1>4. /\ nxt2[p] = q /\ \A m \in N \ {p} : nxt2[m] = nxt[m]
      /\ prv2[q] = p /\ \A m \in N \ {q} : prv2[m] = prv[m]
  BY <1>2 DEF Untouched
<1>5. /\ \A k \in 1 .. n : s[k] = Skip(nxt, IF k = 1 THEN x ELSE s[k - 1])
      /\ s[n] = IF x = xListEnd THEN prv[xListEnd] ELSE x
  BY <1>1 DEF Turn, Follows
<1>6. \A k \in 1 .. n - 1 : /\ k \in 1 .. n /\ k + 1 \in 1 .. n /\ k + 1 # 1
                            /\ (k + 1) - 1 = k /\ k \in Int
  OBVIOUS
<1>7. \A k \in 1 .. n - 1 : /\ k < k0 => r[k] = s[k] /\ k # k0
                            /\ ~ (k < k0) => r[k] = s[k + 1] /\ k + 1 # k0
  OBVIOUS
<1>8. \A k \in 1 .. n - 1 : \E m \in 1 .. n : /\ m # k0 /\ r[k] = s[m]
                                              /\ m = IF k < k0 THEN k ELSE k + 1
  BY <1>6, <1>7
<1>9. \A k \in 1 .. n : k # k0 => s[k] # i
  BY <1>1
<1>10. r \in [1 .. n - 1 -> C \ {i}]
  <2>1. \A k \in 1 .. n - 1 : r[k] \in C \ {i}
    BY <1>1, <1>8, <1>9
  <2>. QED BY <2>1
<1>11. ASSUME NEW j \in 1 .. n - 1, NEW k \in 1 .. n - 1, r[j] = r[k] PROVE j = k
  <2>1. PICK a \in 1 .. n : r[j] = s[a] /\ a = IF j < k0 THEN j ELSE j + 1
    BY <1>8
  <2>2. PICK b \in 1 .. n : r[k] = s[b] /\ b = IF k < k0 THEN k ELSE k + 1
    BY <1>8
  <2>3. a = b
    BY <1>1, <1>11, <2>1, <2>2
  <2>. QED BY <2>1, <2>2, <2>3
<1>12. ASSUME NEW j \in C \ {i} PROVE \E k \in 1 .. n - 1 : r[k] = j
  <2>1. PICK k \in 1 .. n : s[k] = j
    BY <1>1
  <2>2. k # k0
    BY <2>1
  <2>3. CASE k < k0
    <3>1. k \in 1 .. n - 1
      BY <2>3
    <3>. QED BY <1>7, <2>1, <2>3, <3>1
  <2>4. CASE k > k0
    <3>1. k - 1 \in 1 .. n - 1 /\ ~ (k - 1 < k0) /\ (k - 1) + 1 = k
      BY <2>4
    <3>. QED BY <1>7, <2>1, <3>1
  <2>. QED BY <2>2, <2>3, <2>4
<1>13. CASE n = 1
  <2>1. n - 1 = 0 /\ 1 .. n - 1 = {}
    BY <1>13
  <2>2. Follows(r, nxt2, x2, n - 1)
    BY <2>1 DEF Follows
  <2>. HIDE DEF N
  <2>. QED BY <1>10, <1>11, <1>12, <2>1, <2>2 DEF Turn
<1>14. CASE n # 1
  <2>1. C # {i}
    <3>1. 1 \in 1 .. n /\ 2 \in 1 .. n
      BY <1>1, <1>14
    <3>2. s[1] # s[2] /\ s[1] \in C /\ s[2] \in C
      BY <1>1, <3>1
    <3>. QED BY <3>2
  <2>2. /\ ~ (nxt[xListEnd] = i /\ q = xListEnd)
        /\ \A m \in N \ {i} :
              Skip(nxt2, m) = IF Skip(nxt, m) = i THEN Skip(nxt, i) ELSE Skip(nxt, m)
    <3>1. PICK M, nx : M = N /\ nx = nxt2
      OBVIOUS
    <3>2. nx[prv[i]] = nxt[i] /\ \A m \in M \ {prv[i]} : nx[m] = nxt[m]
      BY <1>2, <1>4, <3>1
    <3>3. /\ xListEnd \in M /\ Ring(M, nxt, prv) /\ i \in M /\ i # xListEnd
          /\ M # {xListEnd, i}
      BY <1>1, <2>1, <3>1
    <3>. HIDE DEF N
    <3>4. /\ ~ (nxt[xListEnd] = i /\ nxt[i] = xListEnd)
          /\ \A m \in M \ {i} :
              Skip(nx, m) = IF Skip(nxt, m) = i THEN Skip(nxt, i) ELSE Skip(nxt, m)
      BY <3>2, <3>3, SkipLeft
    <3>. QED BY <1>2, <3>1, <3>4
  <2>3. x = i => k0 = n /\ s[1] # i /\ 1 \in 1 .. n
    <3>1. 1 \in 1 .. n /\ n \in 1 .. n
      BY <1>1
    <3>. QED BY <1>1, <1>5, <1>14, <3>1
  <2>4. x2 \in N \ {i}
    BY <1>1, <1>2, <1>3
  \* The selection from the index.
  <2>5. Skip(nxt2, x2) = IF k0 = 1 THEN Skip(nxt, i) ELSE s[1]
    <3>1. 1 \in 1 .. n /\ s[1] = Skip(nxt, x)
      <4>1. 1 \in 1 .. n
        BY <1>1
      <4>. QED BY <1>5, <4>1
    <3>2. CASE x = i
      <4>1. x2 = p /\ Skip(nxt, p) = i /\ Skip(nxt, i) = s[1]
        BY <1>1, <1>2, <1>3, <3>1, <3>2 DEF Skip
      <4>. QED BY <1>14, <2>2, <2>3, <2>4, <3>2, <4>1
    <3>3. CASE x # i
      <4>1. x2 = x /\ (s[1] = i <=> k0 = 1)
        BY <1>1, <3>1, <3>3
      <4>. QED BY <2>2, <2>4, <3>1, <4>1
    <3>. QED BY <3>2, <3>3
  \* The selections from the other items.
  <2>6. \A k \in 1 .. n - 1 :
            k # k0 => Skip(nxt2, s[k]) = IF k + 1 = k0 THEN Skip(nxt, i) ELSE s[k + 1]
    <3>. SUFFICES ASSUME NEW k \in 1 .. n - 1, k # k0
                  PROVE  Skip(nxt2, s[k]) = IF k + 1 = k0 THEN Skip(nxt, i) ELSE s[k + 1]
      OBVIOUS
    <3>1. s[k] \in N \ {i}
      BY <1>1, <1>6, <1>9
    <3>2. s[k + 1] = Skip(nxt, s[k])
      BY <1>5, <1>6
    <3>3. s[k + 1] = i <=> k + 1 = k0
      BY <1>1, <1>6
    <3>. QED BY <2>2, <3>1, <3>2, <3>3
  <2>7. k0 # n => s[k0 + 1] = Skip(nxt, i)
    <3>. SUFFICES ASSUME k0 # n PROVE s[k0 + 1] = Skip(nxt, i)
      OBVIOUS
    <3>1. k0 \in 1 .. n - 1
      OBVIOUS
    <3>. QED BY <1>5, <1>6, <3>1
  <2>8. Follows(r, nxt2, x2, n - 1)
    <3>. SUFFICES ASSUME NEW k \in 1 .. n - 1
                  PROVE  r[k] = Skip(nxt2, IF k = 1 THEN x2 ELSE r[k - 1])
      BY DEF Follows
    <3>1. CASE k = 1
      <4>1. CASE k0 = 1
        <5>1. r[k] = s[k0 + 1] /\ k0 # n
          BY <1>7, <1>14, <3>1, <4>1
        <5>. QED BY <2>5, <2>7, <3>1, <4>1, <5>1
      <4>2. CASE k0 # 1
        <5>1. r[k] = s[1]
          BY <1>7, <3>1, <4>2
        <5>. QED BY <2>5, <3>1, <4>2, <5>1
      <4>. QED BY <4>1, <4>2
    <3>2. CASE k # 1 /\ k < k0
      <4>1. k - 1 \in 1 .. n - 1 /\ k - 1 < k0 /\ k - 1 # k0 /\ (k - 1) + 1 = k /\ k # k0
        BY <3>2
      <4>2. r[k] = s[k] /\ r[k - 1] = s[k - 1]
        BY <1>7, <3>2, <4>1
      <4>3. Skip(nxt2, s[k - 1]) = s[k]
        BY <2>6, <4>1
      <4>. QED BY <3>2, <4>2, <4>3
    <3>3. CASE k # 1 /\ k = k0
      <4>1. k - 1 \in 1 .. n - 1 /\ k - 1 < k0 /\ k - 1 # k0 /\ (k - 1) + 1 = k0 /\ k0 # n
        BY <3>3
      <4>2. r[k] = s[k0 + 1] /\ r[k - 1] = s[k - 1]
        BY <1>7, <3>3, <4>1
      <4>3. Skip(nxt2, s[k - 1]) = Skip(nxt, i)
        BY <2>6, <4>1
      <4>. QED BY <2>7, <3>3, <4>1, <4>2, <4>3
    <3>4. CASE k # 1 /\ k > k0
      <4>1. /\ k - 1 \in 1 .. n - 1 /\ ~ (k - 1 < k0) /\ (k - 1) + 1 = k
            /\ k # k0 /\ k + 1 # k0 /\ ~ (k < k0)
        BY <3>4
      <4>2. r[k] = s[k + 1] /\ r[k - 1] = s[k]
        BY <1>7, <4>1
      <4>3. Skip(nxt2, s[k]) = s[k + 1]
        BY <2>6, <4>1
      <4>. QED BY <3>4, <4>2, <4>3
    <3>. QED BY <3>1, <3>2, <3>3, <3>4
  <2>9. r[n - 1] = IF x2 = xListEnd THEN prv2[xListEnd] ELSE x2
    <3>1. n - 1 \in 1 .. n - 1 /\ n \in 1 .. n /\ (n - 1) + 1 = n /\ n # n - 1
      BY <1>1, <1>14
    <3>2. CASE k0 # n
      <4>1. r[n - 1] = s[n] /\ s[n] # i
        <5>1. ~ (n - 1 < k0)
          BY <3>2
        <5>. QED BY <1>7, <1>9, <3>1, <3>2, <5>1
      <4>2. x # i /\ x2 = x
        BY <2>3, <3>2
      <4>3. CASE x = xListEnd
        <5>1. s[n] = prv[xListEnd] /\ q # xListEnd
          BY <1>3, <1>5, <4>1, <4>3
        <5>. QED BY <1>1, <1>4, <4>1, <4>2, <4>3, <5>1
      <4>. QED BY <1>5, <4>1, <4>2, <4>3
    <3>3. CASE k0 = n
      <4>1. PICK y : y = s[n - 1]
        OBVIOUS
      <4>2. y \in C /\ y # i /\ r[n - 1] = y /\ Skip(nxt, y) = i
        <5>1. n - 1 \in 1 .. n /\ n - 1 # k0 /\ n - 1 < k0 /\ n # 1
          BY <1>14, <3>1, <3>3
        <5>2. r[n - 1] = s[n - 1] /\ s[n - 1] \in C /\ s[n - 1] # i
          BY <1>1, <1>7, <1>9, <3>1, <5>1
        <5>3. s[n] = Skip(nxt, s[n - 1])
          BY <1>5, <3>1, <5>1
        <5>. QED BY <3>3, <4>1, <5>2, <5>3
      <4>3. /\ nxt[y] = i \/ (nxt[y] = xListEnd /\ nxt[xListEnd] = i)
            /\ y \in N /\ y # xListEnd
        BY <1>1, <4>2 DEF Skip
      <4>4. s[n] = i
        BY <3>3
      <4>5. CASE x = i
        <5>1. x2 = p
          BY <1>2, <4>5
        <5>2. CASE nxt[y] = i
          <6>1. y = p
            BY <1>2, <1>3, <4>3, <5>2
          <6>. QED BY <4>2, <4>3, <5>1, <6>1
        <5>3. CASE nxt[y] = xListEnd /\ nxt[xListEnd] = i
          <6>1. p = xListEnd /\ q # xListEnd /\ prv[xListEnd] = y
            BY <1>1, <1>2, <1>3, <2>2, <4>3, <5>3
          <6>2. prv2[xListEnd] = y
            BY <1>1, <1>4, <6>1
          <6>. QED BY <4>2, <5>1, <6>1, <6>2
        <5>. QED BY <4>3, <5>2, <5>3
      <4>6. CASE x # i
        <5>1. x = xListEnd /\ prv[xListEnd] = i /\ x2 = xListEnd
          BY <1>5, <4>4, <4>6
        <5>2. q = xListEnd
          BY <1>1, <1>2, <5>1 DEF Ring
        <5>3. nxt[y] # xListEnd
          BY <1>3, <4>2, <4>3, <5>1
        <5>4. y = p
          BY <1>2, <1>3, <4>3, <5>3
        <5>. QED BY <1>4, <4>2, <5>1, <5>2, <5>4
      <4>. QED BY <4>5, <4>6
    <3>. QED BY <3>2, <3>3
  <2>. HIDE DEF N
  <2>. QED BY <1>10, <1>11, <1>12, <2>8, <2>9 DEF Turn
<1>. QED BY <1>13, <1>14

LEMMA SequenceIs ==
    ASSUME NEW S, NEW n \in Nat, NEW s \in [1 .. n -> S]
    PROVE  s \in Seq(S) /\ Len(s) = n /\ DOMAIN s = 1 .. n
  OBVIOUS

\* Serving the first moves it behind the others.
LEMMA RotatedIs ==
    ASSUME NEW S, NEW n \in Nat \ {0}, NEW s \in [1 .. n -> S]
    PROVE  /\ s # <<>>
           /\ Append(Tail(s), Head(s)) = Served(s, n)
<1>1. s \in Seq(S) /\ Len(s) = n /\ s # <<>> /\ Head(s) = s[1] /\ s[1] \in S
  BY SequenceIs
<1>2. Tail(s) \in Seq(S) /\ Len(Tail(s)) = n - 1 /\ \A k \in 1 .. n - 1 : Tail(s)[k] = s[k + 1]
  BY <1>1
<1>3. PICK t, a : t = Tail(s) /\ a = Head(s)
  OBVIOUS
<1>4. t \in Seq(S) /\ Len(t) = n - 1 /\ a \in S
  BY <1>1, <1>2, <1>3
<1>5. /\ Append(t, a) \in Seq(S) /\ Len(Append(t, a)) = n
      /\ \A k \in 1 .. n : Append(t, a)[k] = IF k = n THEN a ELSE t[k]
  BY <1>4
<1>6. \A k \in 1 .. n : Append(t, a)[k] = IF k = n THEN s[1] ELSE s[k + 1]
  <2>1. \A k \in 1 .. n : k # n => k \in 1 .. n - 1
    OBVIOUS
  <2>. QED BY <1>1, <1>2, <1>3, <1>5, <2>1
<1>7. PICK r : r = [k \in 1 .. n |-> IF k = n THEN s[1] ELSE s[k + 1]]
  OBVIOUS
<1>8. r \in Seq(S) /\ Len(r) = n /\ \A k \in 1 .. n : Append(t, a)[k] = r[k]
  <2>1. \A k \in 1 .. n : r[k] \in S
    BY <1>1, <1>4, <1>5, <1>6, <1>7
  <2>2. r \in [1 .. n -> S]
    BY <1>7, <2>1
  <2>. QED BY <1>6, <1>7, <2>2, SequenceIs
<1>9. Append(t, a) = r
  BY <1>5, <1>8, SeqEqual
<1>. QED BY <1>1, <1>3, <1>7, <1>9 DEF Served

\* Joining at the end, or before the last.
LEMMA AppendIs ==
    ASSUME NEW S, NEW n \in Nat, NEW s \in Seq(S), Len(s) = n, NEW i \in S
    PROVE  Append(s, i) = [k \in 1 .. n + 1 |-> IF k = n + 1 THEN i ELSE s[k]]
<1>1. PICK t : t = Append(s, i)
  OBVIOUS
<1>2. t \in Seq(S) /\ Len(t) = n + 1 /\ t[n + 1] = i /\ \A k \in 1 .. n : t[k] = s[k]
  BY <1>1, AppendProperties
<1>3. \A k \in 1 .. n + 1 : t[k] = IF k = n + 1 THEN i ELSE s[k]
  BY <1>2
<1>4. t = [k \in 1 .. n + 1 |-> t[k]]
  BY <1>2
<1>. QED BY <1>1, <1>3, <1>4

LEMMA BeforeLastIs ==
    ASSUME NEW S, NEW n \in Nat \ {0}, NEW s \in Seq(S), Len(s) = n, NEW i \in S
    PROVE  InsertAt(s, n, i) = [k \in 1 .. n + 1 |-> IF k = n THEN i
                                                     ELSE IF k = n + 1 THEN s[n] ELSE s[k]]
<1>1. /\ InsertAt(s, n, i) \in Seq(S)
      /\ Len(InsertAt(s, n, i)) = Len(s) + 1
      /\ \A k \in 1 .. n - 1 : InsertAt(s, n, i)[k] = s[k]
      /\ InsertAt(s, n, i)[n] = i
      /\ \A k \in n + 1 .. Len(s) + 1 : InsertAt(s, n, i)[k] = s[k - 1]
  <2>1. n \in 1 .. Len(s) + 1
    OBVIOUS
  <2>2. InsertAt(s, n, i) \in Seq(S) /\ Len(InsertAt(s, n, i)) = Len(s) + 1
    BY <2>1, InsertIs
  <2>3. \A k \in 1 .. n - 1 : InsertAt(s, n, i)[k] = s[k]
    BY <2>1, InsertIs
  <2>4. InsertAt(s, n, i)[n] = i
    BY <2>1, InsertIs
  <2>5. \A k \in n + 1 .. Len(s) + 1 : InsertAt(s, n, i)[k] = s[k - 1]
    BY <2>1, InsertIs
  <2>. QED BY <2>2, <2>3, <2>4, <2>5
<1>2. PICK t : t = InsertAt(s, n, i)
  OBVIOUS
<1>3. /\ t \in Seq(S) /\ Len(t) = n + 1
      /\ \A k \in 1 .. n - 1 : t[k] = s[k]
      /\ t[n] = i
      /\ \A k \in n + 1 .. n + 1 : t[k] = s[k - 1]
  BY <1>1, <1>2
<1>4. \A k \in 1 .. n + 1 : t[k] = IF k = n THEN i ELSE IF k = n + 1 THEN s[n] ELSE s[k]
  <2>. SUFFICES ASSUME NEW k \in 1 .. n + 1
                PROVE  t[k] = IF k = n THEN i ELSE IF k = n + 1 THEN s[n] ELSE s[k]
    OBVIOUS
  <2>1. CASE k = n
    BY <1>3, <2>1
  <2>2. CASE k = n + 1
    <3>1. k \in n + 1 .. n + 1 /\ k # n /\ k - 1 = n
      BY <2>2
    <3>. QED BY <1>3, <2>2, <3>1
  <2>3. CASE k # n /\ k # n + 1
    <3>1. k \in 1 .. n - 1
      BY <2>3
    <3>. QED BY <1>3, <2>3, <3>1
  <2>. QED BY <2>1, <2>2, <2>3
<1>5. t = [k \in 1 .. n + 1 |-> t[k]]
  BY <1>3
<1>. QED BY <1>2, <1>4, <1>5

LEMMA JoinedIs ==
    ASSUME NEW S, NEW n \in Nat, NEW s \in [1 .. n -> S], NEW i \in S,
           NEW place, place = n \/ place = n + 1, place = n => n # 0
    PROVE  \/ Joined(s, n, i, place) = Append(s, i)
           \/ s # <<>> /\ Joined(s, n, i, place) = InsertAt(s, Len(s), i)
<1>. SUFFICES ASSUME NEW r, r = Joined(s, n, i, place)
              PROVE  \/ r = Append(s, i)
                     \/ s # <<>> /\ r = InsertAt(s, Len(s), i)
  OBVIOUS
<1>. USE DEF Joined
<1>1. s \in Seq(S) /\ Len(s) = n
  BY SequenceIs
<1>2. CASE place = n + 1
  <2>1. r = [k \in 1 .. n + 1 |-> IF k = n + 1 THEN i ELSE s[k]]
    BY <1>2
  <2>. QED BY <1>1, <2>1, AppendIs
<1>3. CASE place = n
  <2>1. n \in Nat \ {0} /\ s # <<>>
    BY <1>1, <1>3
  <2>2. r = [k \in 1 .. n + 1 |-> IF k = n THEN i ELSE IF k = n + 1 THEN s[n] ELSE s[k]]
    BY <1>3
  <2>. QED BY <1>1, <2>1, <2>2, BeforeLastIs
<1>. QED BY <1>2, <1>3

LEMMA LeftIs ==
    ASSUME NEW S, NEW n \in Nat, NEW s \in [1 .. n -> S], NEW k0 \in 1 .. n,
           NEW r, r = Left(s, n, k0)
    PROVE  r = RemoveAt(s, k0)
<1>. USE DEF Left
<1>1. s \in Seq(S) /\ Len(s) = n
  BY SequenceIs
<1>2. PICK t : t = RemoveAt(s, k0)
  OBVIOUS
<1>3. /\ t \in Seq(S) /\ Len(t) = Len(s) - 1
      /\ \A k \in 1 .. k0 - 1 : t[k] = s[k]
      /\ \A k \in k0 .. Len(s) - 1 : t[k] = s[k + 1]
  BY <1>1, <1>2, RemoveIs
<1>4. r \in Seq(S) /\ Len(r) = n - 1
  <2>1. \A k \in 1 .. n - 1 : k \in 1 .. n /\ k + 1 \in 1 .. n
    OBVIOUS
  <2>2. \A k \in 1 .. n - 1 : (IF k < k0 THEN s[k] ELSE s[k + 1]) \in S
    BY <2>1
  <2>3. n - 1 \in Nat
    OBVIOUS
  <2>. QED BY <2>2, <2>3, SequenceIs
<1>5. \A k \in 1 .. n - 1 : r[k] = t[k]
  <2>. SUFFICES ASSUME NEW k \in 1 .. n - 1 PROVE r[k] = t[k]
    OBVIOUS
  <2>1. CASE k < k0
    <3>1. k \in 1 .. k0 - 1
      BY <2>1
    <3>. QED BY <1>3, <2>1, <3>1
  <2>2. CASE ~ (k < k0)
    <3>1. k \in k0 .. Len(s) - 1
      BY <1>1, <2>2
    <3>. QED BY <1>3, <2>2, <3>1
  <2>. QED BY <2>1, <2>2
<1>6. r = t
  BY <1>1, <1>3, <1>4, <1>5, SeqEqual
<1>. QED BY <1>2, <1>6

\* The ready list has an order of turns.
RoundInv ==
    \E s \in [1 .. uxNumberOfItems -> pvContainer] :
        Turn(s, pxNext, pxPrevious, pxIndex, pvContainer, uxNumberOfItems)

LEMMA OrderRead == Order = OrderOf(pxNext, pxIndex, pvContainer, uxNumberOfItems)
  BY DEF Order, OrderOf, Follows, After, Skip

LEMMA OrderReadNext == Order' = OrderOf(pxNext', pxIndex', pvContainer', uxNumberOfItems')
  BY DEF Order, OrderOf, Follows, After, Skip

\* Whatever is an order of the turns is the order.
LEMMA OrderFound ==
    ASSUME ThisList, NEW s,
           Turn(s, pxNext, pxPrevious, pxIndex, pvContainer, uxNumberOfItems)
    PROVE  Order = s /\ s \in [1 .. uxNumberOfItems -> pvContainer] /\ uxNumberOfItems \in Nat
<1>1. uxNumberOfItems \in Nat
  BY CountType DEF ThisList, IsList
<1>. QED BY <1>1, OrderRead, OrderIs DEF Turn

LEMMA OrderFoundNext ==
    ASSUME NEW s, NEW n \in Nat, n = uxNumberOfItems',
           Turn(s, pxNext', pxPrevious', pxIndex', pvContainer', n)
    PROVE  Order' = s /\ RoundInv'
<1>1. PICK nx, pv, x, C : nx = pxNext' /\ pv = pxPrevious' /\ x = pxIndex' /\ C = pvContainer'
  OBVIOUS
<1>2. Turn(s, nx, pv, x, C, n)
  BY <1>1
<1>3. OrderOf(nx, x, C, n) = s
  BY <1>2, OrderIs
<1>. QED BY <1>1, <1>2, <1>3, OrderReadNext DEF RoundInv, Turn

LEMMA OrderServed ==
    ASSUME ThisList, RoundInv, Select
    PROVE  RoundInv' /\ RR!Serve
<1>1. PICK s : Turn(s, pxNext, pxPrevious, pxIndex, pvContainer, uxNumberOfItems)
  BY DEF RoundInv
<1>2. PICK n : n = uxNumberOfItems
  OBVIOUS
<1>3. Order = s /\ s \in [1 .. n -> pvContainer] /\ n \in Nat
  BY <1>1, <1>2, OrderFound
<1>4. n # 0
  <2>1. pvContainer # {}
    BY DEF Select, listGET_OWNER_OF_NEXT_ENTRY
  <2>. QED BY <1>1, <1>2, <2>1 DEF Turn
<1>5. PICK r : r = Served(s, n)
  OBVIOUS
<1>6. /\ Skip(pxNext, pxIndex) = s[1]
      /\ Turn(r, pxNext, pxPrevious, s[1], pvContainer, n)
  <2>1. /\ n \in Nat \ {0} /\ Turn(s, pxNext, pxPrevious, pxIndex, pvContainer, n)
        /\ IsList(pxNext, pxPrevious, pxIndex, pvContainer, n, xItemValue)
    BY <1>1, <1>2, <1>3, <1>4 DEF ThisList
  <2>2. /\ Skip(pxNext, pxIndex) = s[1]
        /\ Turn(Served(s, n), pxNext, pxPrevious, s[1], pvContainer, n)
    BY <2>1, TurnServed
  <2>. QED BY <1>5, <2>2
<1>7. /\ pxIndex' = s[1] /\ pxNext' = pxNext /\ pxPrevious' = pxPrevious
      /\ pvContainer' = pvContainer /\ uxNumberOfItems' = n
  BY <1>2, <1>6 DEF Select, listGET_OWNER_OF_NEXT_ENTRY, NextEntry, Skip
<1>8. Turn(r, pxNext', pxPrevious', pxIndex', pvContainer', n)
  BY <1>6, <1>7
<1>9. Order' = r /\ RoundInv'
  BY <1>3, <1>7, <1>8, OrderFoundNext
<1>10. s # <<>> /\ Append(Tail(s), Head(s)) = r
  BY <1>3, <1>4, <1>5, RotatedIs
<1>. QED BY <1>3, <1>9, <1>10 DEF RR!Serve

LEMMA OrderJoined ==
    ASSUME ThisList, RoundInv, NEW i \in Item, prvAddTaskToReadyList(i)
    PROVE  RoundInv' /\ RR!Join(i)
<1>1. PICK s : Turn(s, pxNext, pxPrevious, pxIndex, pvContainer, uxNumberOfItems)
  BY DEF RoundInv
<1>2. PICK n : n = uxNumberOfItems
  OBVIOUS
<1>3. Order = s /\ s \in [1 .. n -> pvContainer] /\ n \in Nat
  BY <1>1, <1>2, OrderFound
<1>4. PICK nx, pv, x, C : nx = pxNext /\ pv = pxPrevious /\ x = pxIndex /\ C = pvContainer
  OBVIOUS
<1>5. /\ i \notin C
      /\ pxNext' = [nx EXCEPT ![i] = x, ![pv[x]] = i]
      /\ pxPrevious' = [pv EXCEPT ![i] = pv[x], ![x] = i]
      /\ pvContainer' = C \union {i} /\ uxNumberOfItems' = n + 1 /\ pxIndex' = x
  BY <1>2, <1>4 DEF prvAddTaskToReadyList, vListInsertEnd, LinkBetween
<1>6. PICK place : place = IF x = xListEnd THEN n + 1 ELSE n
  OBVIOUS
<1>7. PICK r : r = Joined(s, n, i, place)
  OBVIOUS
<1>8. Turn(s, nx, pv, x, C, n) /\ IsList(nx, pv, x, C, n, xItemValue)
  BY <1>1, <1>2, <1>4 DEF ThisList
<1>9. /\ Turn(r, pxNext', pxPrevious', pxIndex', pvContainer', n + 1)
      /\ place = n => n # 0
  <2>1. PICK nx2, pv2 : nx2 = pxNext' /\ pv2 = pxPrevious'
    OBVIOUS
  <2>2. /\ nx2[i] = x /\ nx2[pv[x]] = i
        /\ Untouched(nx, nx2, (C \union {xListEnd}) \ {pv[x]})
        /\ pv2[x] = i
    <3>1. /\ nx \in [Node -> Node] /\ pv \in [Node -> Node] /\ C \subseteq Item
          /\ x \in C \union {xListEnd} /\ pv[x] \in C \union {xListEnd} /\ xListEnd \notin Item
      BY <1>8, Neighbours DEF IsList, Links
    <3>. QED BY <1>5, <2>1, <3>1 DEF Node, Untouched
  <2>3. Turn(r, nx2, pv2, x, C \union {i}, n + 1) /\ (place = n => n # 0)
    <3>1. n \in Nat /\ i \in Item /\ i \notin C
      BY <1>3, <1>5
    <3>2. Turn(Joined(s, n, i, place), nx2, pv2, x, C \union {i}, n + 1)
      BY <1>6, <1>8, <2>2, <3>1, TurnJoined
    <3>3. place = n => n # 0
      <4>1. place = n => x \in C
        BY <1>6, <1>8, <3>1 DEF IsList
      <4>. QED BY <1>8, <4>1 DEF Turn
    <3>. QED BY <1>7, <3>2, <3>3
  <2>. QED BY <1>5, <2>1, <2>3
<1>10. Order' = r /\ RoundInv'
  <2>1. n + 1 \in Nat
    BY <1>3
  <2>. QED BY <1>5, <1>9, <2>1, OrderFoundNext
<1>11. \/ r = Append(s, i)
       \/ s # <<>> /\ r = InsertAt(s, Len(s), i)
  <2>1. PICK S : S = C \union {i}
    OBVIOUS
  <2>2. /\ n \in Nat /\ s \in [1 .. n -> S] /\ i \in S
        /\ place = n \/ place = n + 1
        /\ place = n => n # 0
    BY <1>3, <1>4, <1>6, <1>9, <2>1
  <2>3. \/ Joined(s, n, i, place) = Append(s, i)
        \/ s # <<>> /\ Joined(s, n, i, place) = InsertAt(s, Len(s), i)
    BY <2>2, JoinedIs, ZenonT(30)
  <2>. QED BY <1>7, <2>3
<1>12. i \notin RR!ToSet(s)
  <2>1. DOMAIN s = 1 .. n /\ \A k \in 1 .. n : s[k] \in C
    BY <1>3, <1>4
  <2>. QED BY <1>5, <2>1 DEF RR!ToSet
<1>. QED BY <1>3, <1>10, <1>11, <1>12 DEF RR!Join, RR!InsertAt, InsertAt

LEMMA OrderLeft ==
    ASSUME ThisList, RoundInv, NEW i \in Item, Leave(i)
    PROVE  RoundInv' /\ RR!Leave(i)
<1>1. PICK s : Turn(s, pxNext, pxPrevious, pxIndex, pvContainer, uxNumberOfItems)
  BY DEF RoundInv
<1>2. PICK n : n = uxNumberOfItems
  OBVIOUS
<1>3. Order = s /\ s \in [1 .. n -> pvContainer] /\ n \in Nat
  BY <1>1, <1>2, OrderFound
<1>4. PICK nx, pv, x, C : nx = pxNext /\ pv = pxPrevious /\ x = pxIndex /\ C = pvContainer
  OBVIOUS
<1>5. PICK x2 : x2 = IF x = i THEN pv[i] ELSE x
  OBVIOUS
<1>6. /\ i \in C
      /\ pxNext' = [nx EXCEPT ![pv[i]] = nx[i]]
      /\ pxPrevious' = [pv EXCEPT ![nx[i]] = pv[i]]
      /\ pvContainer' = C \ {i} /\ uxNumberOfItems' = n - 1 /\ pxIndex' = x2
  BY <1>2, <1>4, <1>5 DEF Leave, uxListRemove
<1>7. PICK k0 \in 1 .. n : i = s[k0]
  BY <1>1, <1>2, <1>4, <1>6 DEF Turn
<1>8. PICK r : r = Left(s, n, k0)
  OBVIOUS
<1>9. Turn(s, nx, pv, x, C, n) /\ IsList(nx, pv, x, C, n, xItemValue)
  BY <1>1, <1>2, <1>4 DEF ThisList
<1>10. Turn(r, pxNext', pxPrevious', pxIndex', pvContainer', n - 1)
  <2>1. PICK nx2, pv2 : nx2 = pxNext' /\ pv2 = pxPrevious'
    OBVIOUS
  <2>2. /\ nx2[pv[i]] = nx[i] /\ pv2[nx[i]] = pv[i]
        /\ Untouched(nx, nx2, (C \union {xListEnd}) \ {pv[i]})
        /\ Untouched(pv, pv2, (C \union {xListEnd}) \ {nx[i]})
    <3>1. /\ nx \in [Node -> Node] /\ pv \in [Node -> Node] /\ C \subseteq Item
          /\ nx[i] \in C \union {xListEnd} /\ pv[i] \in C \union {xListEnd}
      BY <1>6, <1>9, Neighbours DEF IsList, Links
    <3>. QED BY <1>6, <2>1, <3>1 DEF Node, Untouched
  <2>3. Turn(r, nx2, pv2, x2, C \ {i}, n - 1)
    <3>1. n \in Nat
      BY <1>3
    <3>2. Turn(Left(s, n, k0), nx2, pv2, x2, C \ {i}, n - 1)
      BY <1>5, <1>7, <1>9, <2>2, <3>1, TurnLeft
    <3>. QED BY <1>8, <3>2
  <2>. QED BY <1>6, <2>1, <2>3
<1>11. Order' = r /\ RoundInv'
  <2>1. n - 1 \in Nat
    BY <1>3, <1>7
  <2>. QED BY <1>6, <1>10, <2>1, OrderFoundNext
<1>12. r = RemoveAt(s, k0)
  BY <1>3, <1>7, <1>8, LeftIs
<1>13. k0 \in DOMAIN s
  BY <1>3, <1>7
<1>. QED BY <1>3, <1>7, <1>11, <1>12, <1>13 DEF RR!Leave, RR!RemoveAt, RemoveAt

LEMMA OrderUntouched ==
    ASSUME RoundInv, UNCHANGED vars
    PROVE  RoundInv' /\ UNCHANGED Order
  BY DEF RoundInv, vars, listVars, Order, After

RoundsInv == ListsInv /\ RoundInv

LEMMA InitRounds == TaskListsInit => RoundsInv /\ RR!Init
<1>. SUFFICES ASSUME TaskListsInit PROVE RoundsInv /\ RR!Init
  OBVIOUS
<1>1. uxNumberOfItems = 0 /\ pvContainer = {} /\ pxIndex = xListEnd
  BY DEF TaskListsInit, Init, ListInit, vListInitialise
<1>2. Turn(<<>>, pxNext, pxPrevious, pxIndex, pvContainer, uxNumberOfItems)
  <2>1. 1 .. 0 = {} /\ <<>> \in [1 .. 0 -> {}]
    OBVIOUS
  <2>. QED BY <1>1, <2>1 DEF Turn, Follows
<1>3. ListsInv
  BY InitLists
<1>4. Order = <<>>
  BY <1>2, <1>3, OrderFound DEF ListsInv
<1>. QED BY <1>2, <1>3, <1>4 DEF RoundsInv, RoundInv, RR!Init, Turn

LEMMA NextRounds == RoundsInv /\ [TaskListsNext]_allVars => RoundsInv' /\ [RR!Next]_Order
<1>. SUFFICES ASSUME RoundsInv, [TaskListsNext]_allVars PROVE RoundsInv' /\ [RR!Next]_Order
  OBVIOUS
<1>1. ListsInv' /\ ThisList /\ RoundInv /\ pvContainer \in SUBSET Item
  BY NextLists DEF RoundsInv, ListsInv, ThisList, IsList
<1>2. CASE UNCHANGED vars
  BY <1>1, <1>2, OrderUntouched DEF RoundsInv
<1>3. CASE Select
  BY <1>1, <1>3, OrderServed DEF RoundsInv, RR!Next
<1>4. ASSUME NEW i \in Item, prvAddTaskToReadyList(i) PROVE RoundsInv' /\ [RR!Next]_Order
  BY <1>1, <1>4, OrderJoined DEF RoundsInv, RR!Next
<1>5. ASSUME NEW i \in Item, Leave(i) PROVE RoundsInv' /\ [RR!Next]_Order
  BY <1>1, <1>5, OrderLeft DEF RoundsInv, RR!Next
<1>6. \/ UNCHANGED vars
      \/ Select
      \/ \E i \in Item : prvAddTaskToReadyList(i) \/ Leave(i)
  <2>1. CASE UNCHANGED allVars
    BY <2>1 DEF allVars
  <2>2. CASE SelectNext
    BY <2>2 DEF SelectNext
  <2>3. ASSUME NEW v \in WakeTimes, DelayCurrent(v)
        PROVE  \E i \in Item : Leave(i)
    BY <1>1, <2>3 DEF DelayCurrent
  <2>4. ASSUME NEW i \in Item, MakeReady(i) \/ Wake(i) \/ Suspend(i)
        PROVE  UNCHANGED vars \/ prvAddTaskToReadyList(i) \/ Leave(i)
    BY <2>4 DEF MakeReady, Wake, Suspend
  <2>. QED BY <2>1, <2>2, <2>3, <2>4 DEF TaskListsNext
<1>. QED BY <1>2, <1>3, <1>4, <1>5, <1>6

(***************************************************************************)
(* The ready list of a priority implements the round robin: a selection    *)
(* takes the first of the order and sends it to the end, a newcomer queues *)
(* behind everybody but, at most, the last, and who leaves changes nobody  *)
(* else's turn.                                                            *)
(***************************************************************************)
THEOREM ReadyListServesInTurn == TaskListsSpec => ImplementsRoundRobin
<1>. QED BY InitRounds, NextRounds, PTL DEF TaskListsSpec, ImplementsRoundRobin, RR!Spec
===========================================================================
