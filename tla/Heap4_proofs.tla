---------------------------- MODULE Heap4_proofs --------------------------
(***************************************************************************)
(* Proofs about Heap4, for every size of the heap, alignment and size of a *)
(* header, and for every size asked for: the blocks always tile the heap,  *)
(* free neighbours are joined, the bytes are counted, no memory is given   *)
(* out twice, and a request fails only for want of room.                   *)
(***************************************************************************)
EXTENDS Heap4, SequenceTheorems, FiniteSetTheorems, WellFoundedInduction, TLAPS
---------------------------------------------------------------------------
(* Numbers *)

\* Every nonempty set of naturals has a least element: the prefixes of the set
\* are finite sets, so one of them is minimal for the strict subset order.
LEMMA LeastElement ==
    ASSUME NEW S \in SUBSET Nat, S # {}
    PROVE  \E m \in S : \A k \in S : m <= k
<1>1. PICK n \in S : TRUE
  OBVIOUS
<1>. DEFINE X == 0 .. n
            F(m) == S \cap (0 .. m)
            T == {F(m) : m \in S \cap X}
<1>2. IsFiniteSet(X)
  BY FS_Interval, n \in Int, 0 \in Int
<1>3. T \subseteq FiniteSubsetsOf(X)
  <2>. SUFFICES ASSUME NEW m \in S \cap X PROVE F(m) \in FiniteSubsetsOf(X)
    OBVIOUS
  <2>1. F(m) \in SUBSET X
    OBVIOUS
  <2>2. IsFiniteSet(F(m))
    BY <1>2, <2>1, FS_Subset
  <2>. QED
    BY <2>1, <2>2 DEF FiniteSubsetsOf
<1>4. T # {}
  <2>1. n \in S \cap X
    BY <1>1
  <2>2. F(n) \in T
    BY <2>1
  <2>. QED BY <2>2
<1>. HIDE DEF T
<1>5. PICK x \in T : \A y \in T : ~ (<<y, x>> \in StrictSubsetOrdering(X))
  BY <1>3, <1>4, WFMin, FS_StrictSubsetOrderingWellFounded, Zenon
<1>. USE DEF T
<1>6. PICK m \in S \cap X : x = F(m)
  BY <1>5
<1>7. SUFFICES ASSUME NEW k \in S, k < m PROVE FALSE
  BY <1>6
<1>8. k \in S \cap X /\ F(k) \in T
  BY <1>6, <1>7
<1>9. F(k) \subseteq F(m) /\ m \in F(m) /\ m \notin F(k)
  BY <1>6, <1>7
<1>10. <<F(k), F(m)>> \in StrictSubsetOrdering(X)
  BY <1>8, <1>9 DEF StrictSubsetOrdering
<1>. QED
  BY <1>5, <1>6, <1>8, <1>10

\* A nonempty set of naturals that are at most b has a greatest element.
LEMMA GreatestElement ==
    ASSUME NEW b \in Nat, NEW S \in SUBSET (0 .. b), S # {}
    PROVE  \E m \in S : \A k \in S : k <= m
<1>. DEFINE D == {b - k : k \in S}
<1>1. D \in SUBSET Nat /\ D # {}
  <2>1. \A k \in S : b - k \in Nat
    OBVIOUS
  <2>2. PICK k \in S : TRUE
    OBVIOUS
  <2>3. b - k \in D
    BY <2>2
  <2>. QED BY <2>1, <2>3
<1>2. PICK d \in D : \A e \in D : d <= e
  <2>. HIDE DEF D
  <2>. QED BY <1>1, LeastElement
<1>3. PICK m \in S : d = b - m
  BY <1>2
<1>4. \A k \in S : k <= m
  <2>. SUFFICES ASSUME NEW k \in S PROVE k <= m
    OBVIOUS
  <2>1. b - k \in D
    OBVIOUS
  <2>. QED BY <1>2, <1>3, <2>1
<1>. QED BY <1>4

---------------------------------------------------------------------------
(* Alignment *)

Aligned(x) == \E k \in Int : x = k * portBYTE_ALIGNMENT

LEMMA AlignedIsMod ==
    ASSUME NEW x \in Int, Aligned(x)
    PROVE  x % portBYTE_ALIGNMENT = 0
<1>1. PICK k \in Int : x = k * portBYTE_ALIGNMENT
  BY DEF Aligned
<1>. QED BY <1>1, HeapAssumption

LEMMA AlignedSums ==
    ASSUME NEW x \in Int, NEW y \in Int, Aligned(x), Aligned(y)
    PROVE  Aligned(x + y) /\ Aligned(x - y)
<1>1. PICK k \in Int : x = k * portBYTE_ALIGNMENT
  BY DEF Aligned
<1>2. PICK m \in Int : y = m * portBYTE_ALIGNMENT
  BY DEF Aligned
<1>3. x + y = (k + m) * portBYTE_ALIGNMENT /\ x - y = (k - m) * portBYTE_ALIGNMENT
  BY <1>1, <1>2, HeapAssumption
<1>. QED BY <1>3 DEF Aligned

\* AlignDown and AlignUp give the nearest aligned numbers.
LEMMA AlignDownIs ==
    ASSUME NEW n \in Nat
    PROVE  /\ AlignDown(n) \in Nat /\ Aligned(AlignDown(n))
           /\ AlignDown(n) <= n /\ n < AlignDown(n) + portBYTE_ALIGNMENT
<1>. DEFINE q == n \div portBYTE_ALIGNMENT
<1>1. q \in Nat /\ q * portBYTE_ALIGNMENT <= n /\ n < q * portBYTE_ALIGNMENT + portBYTE_ALIGNMENT
  BY HeapAssumption
<1>2. q * portBYTE_ALIGNMENT \in Nat
  BY <1>1, HeapAssumption
<1>. QED BY <1>1, <1>2 DEF AlignDown, Aligned

LEMMA AlignUpIs ==
    ASSUME NEW n \in Nat
    PROVE  /\ AlignUp(n) \in Nat /\ Aligned(AlignUp(n))
           /\ n <= AlignUp(n) /\ AlignUp(n) < n + portBYTE_ALIGNMENT
           /\ \A x \in Nat : Aligned(x) /\ n <= x => AlignUp(n) <= x
<1>. DEFINE m == n + portBYTE_ALIGNMENT - 1
<1>1. m \in Nat /\ AlignUp(n) = AlignDown(m)
  BY HeapAssumption DEF AlignUp
<1>2. /\ AlignUp(n) \in Nat /\ Aligned(AlignUp(n))
      /\ n <= AlignUp(n) /\ AlignUp(n) < n + portBYTE_ALIGNMENT
  <2>1. /\ AlignDown(m) \in Nat /\ Aligned(AlignDown(m))
        /\ AlignDown(m) <= m /\ m < AlignDown(m) + portBYTE_ALIGNMENT
    BY <1>1, AlignDownIs
  <2>. QED BY <1>1, <2>1, HeapAssumption
<1>3. ASSUME NEW x \in Nat, Aligned(x), n <= x PROVE AlignUp(n) <= x
  <2>1. PICK k \in Int : x = k * portBYTE_ALIGNMENT
    BY <1>3 DEF Aligned
  <2>2. PICK j \in Int : AlignUp(n) = j * portBYTE_ALIGNMENT
    BY <1>2 DEF Aligned
  <2>3. j * portBYTE_ALIGNMENT < k * portBYTE_ALIGNMENT + portBYTE_ALIGNMENT
    BY <1>2, <1>3, <2>1, <2>2, HeapAssumption
  <2>4. j < k + 1
    BY <2>3, HeapAssumption, SMTT(30)
  <2>5. j * portBYTE_ALIGNMENT <= k * portBYTE_ALIGNMENT
    BY <2>4, HeapAssumption, SMTT(30)
  <2>. QED BY <2>1, <2>2, <2>5
<1>. QED BY <1>2, <1>3

\* The constants of the heap.
LEMMA HeapConstants ==
    /\ xHeapStructSize \in Nat \ {0} /\ Aligned(xHeapStructSize)
    /\ FirstBlock \in Nat /\ Aligned(FirstBlock) /\ ucHeap <= FirstBlock
    /\ EndMarker \in Nat /\ Aligned(EndMarker) /\ FirstBlock < EndMarker
    /\ EndMarker + xHeapStructSize <= ucHeap + configTOTAL_HEAP_SIZE
    /\ xHeapStructSize + portBYTE_ALIGNMENT < xBlockAllocatedBit
    /\ EndMarker - FirstBlock < xBlockAllocatedBit
    /\ xBlockAllocatedBit \in Nat /\ 2 * xBlockAllocatedBit <= SizeMod
<1>1. xHeapStructSize \in Nat \ {0} /\ Aligned(xHeapStructSize)
  BY HeapAssumption, AlignUpIs DEF xHeapStructSize
<1>2. FirstBlock \in Nat /\ Aligned(FirstBlock) /\ ucHeap <= FirstBlock
  BY HeapAssumption, AlignUpIs DEF FirstBlock
<1>. DEFINE last == ucHeap + configTOTAL_HEAP_SIZE - xHeapStructSize
<1>3. last \in Int /\ EndMarker = AlignDown(last) /\ EndMarker \in Int /\ Aligned(EndMarker)
      /\ EndMarker <= last
  <2>1. last \in Int /\ EndMarker = AlignDown(last)
    BY <1>1, HeapAssumption DEF EndMarker
  <2>. DEFINE q == last \div portBYTE_ALIGNMENT
  <2>2. q \in Int /\ q * portBYTE_ALIGNMENT <= last
    BY <2>1, HeapAssumption
  <2>3. q * portBYTE_ALIGNMENT \in Int
    BY <2>2, HeapAssumption
  <2>. QED BY <2>1, <2>2, <2>3 DEF AlignDown, Aligned
<1>4. FirstBlock < EndMarker /\ configTOTAL_HEAP_SIZE < xBlockAllocatedBit
  BY HeapFits
<1>5. EndMarker \in Nat /\ EndMarker + xHeapStructSize <= ucHeap + configTOTAL_HEAP_SIZE
  BY <1>1, <1>2, <1>3, <1>4, HeapAssumption
<1>6. xBlockAllocatedBit \in Nat /\ 2 * xBlockAllocatedBit <= SizeMod
  BY HeapAssumption DEF xBlockAllocatedBit
<1>7. EndMarker - FirstBlock < xBlockAllocatedBit
  BY <1>1, <1>2, <1>4, <1>5, <1>6, HeapAssumption
<1>8. FirstBlock + portBYTE_ALIGNMENT <= EndMarker
  <2>1. PICK k \in Int : FirstBlock = k * portBYTE_ALIGNMENT
    BY <1>2 DEF Aligned
  <2>2. PICK j \in Int : EndMarker = j * portBYTE_ALIGNMENT
    BY <1>3 DEF Aligned
  <2>3. k < j
    BY <1>4, <2>1, <2>2, HeapAssumption, SMTT(30)
  <2>4. (k + 1) * portBYTE_ALIGNMENT <= j * portBYTE_ALIGNMENT
    BY <2>3, HeapAssumption, SMTT(30)
  <2>5. (k + 1) * portBYTE_ALIGNMENT = k * portBYTE_ALIGNMENT + portBYTE_ALIGNMENT
    BY HeapAssumption
  <2>. QED BY <2>1, <2>2, <2>4, <2>5
<1>9. xHeapStructSize + portBYTE_ALIGNMENT < xBlockAllocatedBit
  BY <1>1, <1>2, <1>4, <1>5, <1>6, <1>8, HeapAssumption
<1>. QED BY <1>1, <1>2, <1>3, <1>4, <1>5, <1>6, <1>7, <1>9
---------------------------------------------------------------------------
(* Blocks *)

\* Blocks of these sizes lie one behind the other from the first block to the end marker.
Tiles(size) ==
    /\ DOMAIN size \in SUBSET (FirstBlock .. EndMarker - 1)
    /\ FirstBlock \in DOMAIN size
    /\ size \in [DOMAIN size -> Nat \ {0}]
    /\ \A b \in DOMAIN size : /\ b + size[b] \in DOMAIN size \union {EndMarker}
                              /\ Aligned(b) /\ Aligned(size[b])
    /\ \A b, c \in DOMAIN size : b < c => b + size[b] <= c

\* No two of the blocks F touch.
Apart(F, size) == \A f, g \in F : f + size[f] # g

BytesOf(F, size) == UNION {Bytes(f, size[f]) : f \in F}

LEMMA WithIs ==
    ASSUME NEW f, NEW x, NEW y
    PROVE  /\ DOMAIN With(f, x, y) = DOMAIN f \union {x}
           /\ With(f, x, y)[x] = y
           /\ \A z \in DOMAIN f \ {x} : With(f, x, y)[z] = f[z]
  BY DEF With

LEMMA WithoutIs ==
    ASSUME NEW f, NEW S
    PROVE  /\ DOMAIN Without(f, S) = DOMAIN f \ S
           /\ \A z \in DOMAIN f \ S : Without(f, S)[z] = f[z]
  BY DEF Without

\* Where a block is and how large.
LEMMA BlockTypes ==
    ASSUME NEW size, Tiles(size), NEW b \in DOMAIN size
    PROVE  /\ b \in Nat /\ size[b] \in Nat \ {0} /\ b + size[b] \in Nat
           /\ FirstBlock <= b /\ b + size[b] <= EndMarker
           /\ Aligned(b) /\ Aligned(size[b])
           /\ size[b] < xBlockAllocatedBit
<1>1. b \in FirstBlock .. EndMarker - 1 /\ size[b] \in Nat \ {0}
  BY DEF Tiles
<1>2. b + size[b] \in DOMAIN size \union {EndMarker} /\ Aligned(b) /\ Aligned(size[b])
  BY DEF Tiles
<1>3. b + size[b] <= EndMarker
  BY <1>1, <1>2, HeapConstants DEF Tiles
<1>. QED BY <1>1, <1>2, <1>3, HeapConstants

\* The functions that the heap sets: one block joined with the next, one split in two.
Joint(size, b, c) == With(Without(size, {c}), b, size[b] + size[c])

LEMMA JointTiles ==
    ASSUME NEW size, Tiles(size), NEW b \in DOMAIN size, NEW c \in DOMAIN size, b + size[b] = c
    PROVE  /\ Tiles(Joint(size, b, c))
           /\ DOMAIN Joint(size, b, c) = DOMAIN size \ {c} /\ b # c
           /\ Joint(size, b, c)[b] = size[b] + size[c]
           /\ \A d \in DOMAIN size \ {b, c} : Joint(size, b, c)[d] = size[d]
<1>. DEFINE s == Joint(size, b, c)
<1>1. b \in Nat /\ c \in Nat /\ size[b] \in Nat \ {0} /\ size[c] \in Nat \ {0} /\ b < c
  BY BlockTypes
<1>2. /\ DOMAIN s = DOMAIN size \ {c} /\ s[b] = size[b] + size[c]
      /\ \A d \in DOMAIN size \ {b, c} : s[d] = size[d]
  <2>. DEFINE r == Without(size, {c})
  <2>1. DOMAIN r = DOMAIN size \ {c} /\ \A d \in DOMAIN size \ {c} : r[d] = size[d]
    BY WithoutIs
  <2>2. s = With(r, b, size[b] + size[c])
    BY DEF Joint
  <2>. HIDE DEF r, s
  <2>3. /\ DOMAIN s = DOMAIN r \union {b} /\ s[b] = size[b] + size[c]
        /\ \A d \in DOMAIN r \ {b} : s[d] = r[d]
    BY <2>2 DEF With
  <2>. QED BY <1>1, <2>1, <2>3
<1>3. s = [d \in DOMAIN s |-> s[d]]
  BY DEF Joint, With
<1>. HIDE DEF s
<1>4. DOMAIN s \in SUBSET (FirstBlock .. EndMarker - 1)
  BY <1>2 DEF Tiles
<1>5. FirstBlock \in DOMAIN s
  <2>1. FirstBlock <= b
    BY BlockTypes
  <2>. QED BY <1>1, <1>2, <2>1, HeapConstants DEF Tiles
<1>6. s \in [DOMAIN s -> Nat \ {0}]
  <2>1. \A d \in DOMAIN s : s[d] \in Nat \ {0}
    <3>. SUFFICES ASSUME NEW d \in DOMAIN s PROVE s[d] \in Nat \ {0}
      OBVIOUS
    <3>1. CASE d = b
      BY <1>1, <1>2, <3>1
    <3>2. CASE d # b
      BY <1>2, <3>2, BlockTypes
    <3>. QED BY <3>1, <3>2
  <2>. QED BY <1>3, <2>1
<1>7. ASSUME NEW d \in DOMAIN s
      PROVE  d + s[d] \in DOMAIN s \union {EndMarker} /\ Aligned(d) /\ Aligned(s[d])
  <2>1. CASE d = b
    <3>1. b + s[b] = c + size[c]
      BY <1>1, <1>2
    <3>2. c + size[c] \in DOMAIN size \union {EndMarker} /\ c + size[c] # c
      BY <1>1 DEF Tiles
    <3>3. Aligned(b) /\ Aligned(size[b] + size[c])
      <4>1. Aligned(b) /\ Aligned(size[b]) /\ Aligned(size[c])
        BY BlockTypes
      <4>2. size[b] \in Int /\ size[c] \in Int
        BY <1>1
      <4>. QED BY <4>1, <4>2, AlignedSums
    <3>. QED BY <1>2, <2>1, <3>1, <3>2, <3>3
  <2>2. CASE d # b
    <3>1. d \in DOMAIN size /\ d # c /\ s[d] = size[d]
      BY <1>2, <2>2
    <3>2. d + size[d] # c
      <4>1. d \in Nat /\ size[d] \in Nat \ {0} /\ (d < b \/ d > b)
        BY <1>1, <2>2, <3>1, BlockTypes
      <4>2. d < b => d + size[d] <= b
        BY <3>1 DEF Tiles
      <4>3. d > b => c <= d
        BY <1>1, <3>1, <4>1 DEF Tiles
      <4>. QED BY <1>1, <4>1, <4>2, <4>3
    <3>3. d + size[d] \in DOMAIN size \union {EndMarker} /\ Aligned(d) /\ Aligned(size[d])
      BY <3>1 DEF Tiles
    <3>. QED BY <1>2, <3>1, <3>2, <3>3
  <2>. QED BY <2>1, <2>2
<1>8. ASSUME NEW d \in DOMAIN s, NEW e \in DOMAIN s, d < e
      PROVE  d + s[d] <= e
  <2>1. d \in DOMAIN size /\ e \in DOMAIN size /\ d # c /\ e # c /\ d \in Nat /\ e \in Nat
    BY <1>2, BlockTypes
  <2>2. CASE d = b
    <3>1. c <= e
      BY <1>8, <2>1, <2>2 DEF Tiles
    <3>2. c < e
      BY <1>1, <2>1, <3>1
    <3>3. c + size[c] <= e
      BY <2>1, <3>2 DEF Tiles
    <3>. QED BY <1>1, <1>2, <2>1, <2>2, <3>3
  <2>3. CASE d # b
    BY <1>2, <1>8, <2>1, <2>3 DEF Tiles
  <2>. QED BY <2>2, <2>3
<1>9. Tiles(s)
  BY <1>4, <1>5, <1>6, <1>7, <1>8 DEF Tiles
<1>. QED BY <1>1, <1>2, <1>9 DEF s

IsSplit(size, b, w, s) ==
    /\ Tiles(s) /\ b + w \notin DOMAIN size
    /\ DOMAIN s = DOMAIN size \union {b + w}
    /\ s[b] = w /\ s[b + w] = size[b] - w
    /\ \A d \in DOMAIN size \ {b} : s[d] = size[d]

LEMMA SplitTiles ==
    ASSUME NEW size, Tiles(size), NEW b \in DOMAIN size, NEW w \in Nat \ {0}, w < size[b],
           Aligned(w)
    PROVE  IsSplit(size, b, w, With(With(size, b, w), b + w, size[b] - w))
<1>. DEFINE r == size[b] - w
            c == b + w
            s == With(With(size, b, w), c, r)
<1>1. /\ b \in Nat /\ size[b] \in Nat \ {0} /\ b + size[b] \in Nat /\ b + size[b] <= EndMarker
      /\ FirstBlock <= b /\ Aligned(b) /\ Aligned(size[b])
  BY BlockTypes
<1>2. c \in Nat /\ r \in Nat \ {0} /\ b < c /\ c < EndMarker /\ c + r = b + size[b]
  BY <1>1, HeapConstants
<1>3. Aligned(c) /\ Aligned(r)
  <2>1. b \in Int /\ w \in Int /\ size[b] \in Int
    BY <1>1
  <2>. QED BY <1>1, <2>1, AlignedSums
<1>4. c \notin DOMAIN size
  <2>. SUFFICES ASSUME c \in DOMAIN size PROVE FALSE
    OBVIOUS
  <2>1. b + size[b] <= c
    BY <1>1, <1>2 DEF Tiles
  <2>. QED BY <1>1, <2>1
<1>. HIDE DEF c, r
<1>5. /\ DOMAIN s = DOMAIN size \union {c} /\ s[b] = w /\ s[c] = r
      /\ \A d \in DOMAIN size \ {b} : s[d] = size[d]
  <2>. DEFINE q == With(size, b, w)
  <2>1. /\ DOMAIN q = DOMAIN size \union {b} /\ q[b] = w
        /\ \A d \in DOMAIN size \ {b} : q[d] = size[d]
    BY DEF With
  <2>. HIDE DEF q
  <2>2. s = With(q, c, r)
    BY DEF q
  <2>. HIDE DEF s
  <2>3. /\ DOMAIN s = DOMAIN q \union {c} /\ s[c] = r
        /\ \A d \in DOMAIN q \ {c} : s[d] = q[d]
    BY <2>2 DEF With
  <2>. QED BY <1>1, <1>2, <1>4, <2>1, <2>3
<1>6. s = [d \in DOMAIN s |-> s[d]]
  BY DEF With
<1>. HIDE DEF s
<1>7. DOMAIN s \in SUBSET (FirstBlock .. EndMarker - 1) /\ FirstBlock \in DOMAIN s
  BY <1>1, <1>2, <1>5, HeapConstants DEF Tiles
<1>8. s \in [DOMAIN s -> Nat \ {0}]
  <2>1. \A d \in DOMAIN s : s[d] \in Nat \ {0}
    <3>. SUFFICES ASSUME NEW d \in DOMAIN s PROVE s[d] \in Nat \ {0}
      OBVIOUS
    <3>1. CASE d \in {b, c}
      BY <1>2, <1>5, <3>1
    <3>2. CASE d \notin {b, c}
      BY <1>5, <3>2, BlockTypes
    <3>. QED BY <3>1, <3>2
  <2>. QED BY <1>6, <2>1
<1>9. ASSUME NEW d \in DOMAIN s
      PROVE  d + s[d] \in DOMAIN s \union {EndMarker} /\ Aligned(d) /\ Aligned(s[d])
  <2>1. CASE d = b
    <3>1. d + s[d] = c
      BY <1>5, <2>1 DEF c
    <3>. QED BY <1>1, <1>5, <2>1, <3>1
  <2>2. CASE d = c
    <3>1. b + size[b] \in DOMAIN size \union {EndMarker}
      BY DEF Tiles
    <3>. QED BY <1>2, <1>3, <1>5, <2>2, <3>1
  <2>3. CASE d \notin {b, c}
    <3>1. d \in DOMAIN size /\ s[d] = size[d]
      BY <1>5, <2>3
    <3>2. d + size[d] \in DOMAIN size \union {EndMarker} /\ Aligned(d) /\ Aligned(size[d])
      BY <3>1 DEF Tiles
    <3>. QED BY <1>5, <3>1, <3>2
  <2>. QED BY <2>1, <2>2, <2>3
<1>10. ASSUME NEW d \in DOMAIN s, NEW e \in DOMAIN s, d < e
       PROVE  d + s[d] <= e
  <2>1. CASE d = b /\ e = c
    BY <1>1, <1>2, <1>5, <2>1 DEF c
  <2>2. CASE d = b /\ e # c
    <3>1. e \in DOMAIN size /\ e \in Nat
      BY <1>5, <2>2, BlockTypes
    <3>2. b + size[b] <= e
      BY <1>10, <2>2, <3>1 DEF Tiles
    <3>. QED BY <1>1, <1>5, <2>2, <3>1, <3>2
  <2>3. CASE d = c
    <3>1. e \in DOMAIN size /\ e \in Nat /\ b < e
      BY <1>1, <1>2, <1>5, <1>10, <2>3, BlockTypes
    <3>2. b + size[b] <= e
      BY <3>1 DEF Tiles
    <3>. QED BY <1>2, <1>5, <2>3, <3>2
  <2>4. CASE d \notin {b, c} /\ e = c
    <3>1. d \in DOMAIN size /\ d \in Nat /\ s[d] = size[d] /\ size[d] \in Nat
      BY <1>5, <2>4, BlockTypes
    <3>2. d < b
      <4>1. b < d => b + size[b] <= d
        BY <3>1 DEF Tiles
      <4>. QED BY <1>1, <1>2, <1>10, <2>4, <3>1, <4>1
    <3>3. d + size[d] <= b
      BY <3>1, <3>2 DEF Tiles
    <3>. QED BY <1>1, <1>2, <2>4, <3>1, <3>3
  <2>5. CASE d \notin {b, c} /\ e # c
    BY <1>5, <1>10, <2>5 DEF Tiles
  <2>. QED BY <2>1, <2>2, <2>3, <2>4, <2>5
<1>11. Tiles(s)
  BY <1>7, <1>8, <1>9, <1>10 DEF Tiles
<1>. QED BY <1>4, <1>5, <1>11 DEF s, c, r, IsSplit
---------------------------------------------------------------------------
(* Bytes *)

LEMMA BytesAreApart ==
    ASSUME NEW size, Tiles(size), NEW b \in DOMAIN size, NEW c \in DOMAIN size, b # c
    PROVE  Bytes(b, size[b]) \intersect Bytes(c, size[c]) = {}
<1>1. /\ b \in Nat /\ size[b] \in Nat /\ c \in Nat /\ size[c] \in Nat
      /\ b < c => b + size[b] <= c
      /\ c < b => c + size[c] <= b
  BY BlockTypes DEF Tiles
<1>. QED BY <1>1 DEF Bytes

LEMMA BytesOfBlocks ==
    ASSUME NEW size, Tiles(size), NEW F \in SUBSET DOMAIN size
    PROVE  /\ BytesOf(F, size) \in SUBSET (FirstBlock .. EndMarker - 1)
           /\ IsFiniteSet(BytesOf(F, size))
<1>1. ASSUME NEW f \in F PROVE Bytes(f, size[f]) \in SUBSET (FirstBlock .. EndMarker - 1)
  <2>1. f \in Nat /\ size[f] \in Nat /\ FirstBlock <= f /\ f + size[f] <= EndMarker
    BY BlockTypes
  <2>. QED BY <2>1, HeapConstants DEF Bytes
<1>2. BytesOf(F, size) \in SUBSET (FirstBlock .. EndMarker - 1)
  BY <1>1 DEF BytesOf
<1>3. IsFiniteSet(FirstBlock .. EndMarker - 1)
  <2>1. FirstBlock \in Int /\ EndMarker - 1 \in Int
    BY HeapConstants
  <2>. QED BY <2>1, FS_Interval
<1>. QED BY <1>2, <1>3, FS_Subset

\* A block has as many bytes as its size says, and they are nobody else's.
LEMMA BytesAdd ==
    ASSUME NEW size, Tiles(size), NEW F \in SUBSET DOMAIN size, NEW b \in DOMAIN size \ F
    PROVE  Cardinality(BytesOf(F \union {b}, size)) = Cardinality(BytesOf(F, size)) + size[b]
<1>. DEFINE X == BytesOf(F, size)
            Y == Bytes(b, size[b])
<1>1. b \in Int /\ size[b] \in Nat \ {0} /\ b + size[b] - 1 \in Int
  BY BlockTypes
<1>2. IsFiniteSet(Y) /\ Cardinality(Y) = size[b]
  <2>1. /\ IsFiniteSet(b .. b + size[b] - 1)
        /\ Cardinality(b .. b + size[b] - 1) =
               IF b > b + size[b] - 1 THEN 0 ELSE (b + size[b] - 1) - b + 1
    BY <1>1, FS_Interval
  <2>2. Cardinality(Y) = size[b]
    BY <1>1, <2>1 DEF Bytes
  <2>. QED BY <2>1, <2>2 DEF Bytes
<1>3. IsFiniteSet(X) /\ Cardinality(X) \in Nat
  BY BytesOfBlocks, FS_CardinalityType
<1>4. X \intersect Y = {}
  BY BytesAreApart DEF BytesOf
<1>5. BytesOf(F \union {b}, size) = X \union Y
  BY DEF BytesOf
<1>. HIDE DEF X, Y
<1>6. Cardinality(X \union Y) = Cardinality(X) + Cardinality(Y) - Cardinality(X \intersect Y)
  BY <1>2, <1>3, FS_Union
<1>7. Cardinality(X \intersect Y) = 0
  BY <1>4, FS_EmptySet
<1>8. Cardinality(X \union Y) = Cardinality(X) + size[b]
  BY <1>1, <1>2, <1>3, <1>6, <1>7
<1>. QED BY <1>5, <1>8 DEF X

\* Every byte of the heap is in exactly one block.
LEMMA BytesAreCovered ==
    ASSUME NEW size, Tiles(size), NEW x \in FirstBlock .. EndMarker - 1
    PROVE  Cardinality({b \in DOMAIN size : x \in Bytes(b, size[b])}) = 1
<1>. DEFINE S == {b \in DOMAIN size : b <= x}
<1>1. x \in Nat /\ FirstBlock <= x /\ x < EndMarker
  BY HeapConstants
<1>2. S \in SUBSET (0 .. x) /\ S # {}
  <2>1. S \in SUBSET (0 .. x)
    BY <1>1, BlockTypes
  <2>2. FirstBlock \in S
    BY <1>1 DEF Tiles
  <2>. QED BY <2>1, <2>2
<1>3. PICK b \in S : \A k \in S : k <= b
  <2>. HIDE DEF S
  <2>. QED BY <1>1, <1>2, GreatestElement
<1>4. b \in DOMAIN size /\ b <= x /\ b \in Nat /\ size[b] \in Nat \ {0}
  BY <1>3, BlockTypes
<1>5. x < b + size[b]
  <2>1. b + size[b] \in DOMAIN size \union {EndMarker} /\ b + size[b] \notin S
    BY <1>3, <1>4 DEF Tiles
  <2>. QED BY <1>1, <1>4, <2>1
<1>6. x \in Bytes(b, size[b])
  BY <1>1, <1>4, <1>5 DEF Bytes
<1>7. \A c \in DOMAIN size : x \in Bytes(c, size[c]) => c = b
  BY <1>4, <1>6, BytesAreApart
<1>8. {c \in DOMAIN size : x \in Bytes(c, size[c])} = {b}
  BY <1>4, <1>6, <1>7
<1>. QED BY <1>8, FS_Singleton
---------------------------------------------------------------------------
(* Joining free blocks *)

\* Two blocks of H that touch become one: what is outside of H stays, and the bytes of H, too.
JoinsTo(size, H, b, c, s) ==
    /\ Tiles(s) /\ H \ {c} \in SUBSET DOMAIN s
    /\ DOMAIN s = DOMAIN size \ {c} /\ b # c
    /\ s[b] = size[b] + size[c]
    /\ \A d \in DOMAIN size \ {b, c} : s[d] = size[d]
    /\ b + s[b] = c + size[c]
    /\ BytesOf(H \ {c}, s) = BytesOf(H, size)

LEMMA JoinTwo ==
    ASSUME NEW size, Tiles(size), NEW H \in SUBSET DOMAIN size, NEW b \in H, NEW c \in H,
           b + size[b] = c
    PROVE  JoinsTo(size, H, b, c, Joint(size, b, c))
<1>. DEFINE s == Joint(size, b, c)
            G == H \ {c}
<1>1. /\ Tiles(s) /\ DOMAIN s = DOMAIN size \ {c} /\ b # c
      /\ s[b] = size[b] + size[c]
      /\ \A d \in DOMAIN size \ {b, c} : s[d] = size[d]
  BY JointTiles
<1>2. b \in Nat /\ c \in Nat /\ size[b] \in Nat \ {0} /\ size[c] \in Nat \ {0}
  BY BlockTypes
<1>. HIDE DEF s
<1>3. Bytes(b, s[b]) = Bytes(b, size[b]) \union Bytes(c, size[c])
  BY <1>1, <1>2 DEF Bytes
<1>4. BytesOf(G, s) = BytesOf(H, size)
  <2>1. ASSUME NEW x \in BytesOf(G, s) PROVE x \in BytesOf(H, size)
    <3>1. PICK d \in G : x \in Bytes(d, s[d])
      BY <2>1 DEF BytesOf
    <3>2. CASE d = b
      BY <1>3, <3>1, <3>2 DEF BytesOf
    <3>3. CASE d # b
      BY <1>1, <3>1, <3>3 DEF BytesOf
    <3>. QED BY <3>2, <3>3
  <2>2. ASSUME NEW x \in BytesOf(H, size) PROVE x \in BytesOf(G, s)
    <3>1. PICK d \in H : x \in Bytes(d, size[d])
      BY <2>2 DEF BytesOf
    <3>2. CASE d \in {b, c}
      <4>1. x \in Bytes(b, s[b]) /\ b \in G
        BY <1>1, <1>3, <3>1, <3>2
      <4>. QED BY <4>1 DEF BytesOf
    <3>3. CASE d \notin {b, c}
      BY <1>1, <3>1, <3>3 DEF BytesOf
    <3>. QED BY <3>2, <3>3
  <2>. QED BY <2>1, <2>2
<1>5. b + s[b] = c + size[c] /\ G \in SUBSET DOMAIN s
  BY <1>1, <1>2
<1>. QED BY <1>1, <1>4, <1>5 DEF s, JoinsTo

\* What a block b that is freed must become: G and s are the free blocks and the sizes then.
Joined(F, size, b, G, s) ==
    /\ Tiles(s) /\ G \in SUBSET DOMAIN s /\ Apart(G, s)
    /\ DOMAIN s \ G = (DOMAIN size \ F) \ {b}
    /\ \A d \in DOMAIN s \ G : s[d] = size[d]
    /\ BytesOf(G, s) = BytesOf(F \union {b}, size)

Touches(F, size, b) == \E f \in F : f + size[f] = b

LEMMA JoinedWithNone ==
    ASSUME NEW size, Tiles(size), NEW F \in SUBSET DOMAIN size, Apart(F, size),
           NEW b \in DOMAIN size \ F, ~Touches(F, size, b), b + size[b] \notin F
    PROVE  Joined(F, size, b, F \union {b}, size)
<1>1. b + size[b] # b
  BY BlockTypes
<1>. QED BY <1>1 DEF Joined, Apart, Touches

LEMMA JoinedWithNext ==
    ASSUME NEW size, Tiles(size), NEW F \in SUBSET DOMAIN size, Apart(F, size),
           NEW b \in DOMAIN size \ F, ~Touches(F, size, b), NEW c \in F, b + size[b] = c
    PROVE  Joined(F, size, b, (F \ {c}) \union {b}, Joint(size, b, c))
<1>. DEFINE s == Joint(size, b, c)
            H == F \union {b}
            G == (F \ {c}) \union {b}
<1>1. G = H \ {c} /\ H \in SUBSET DOMAIN size /\ b \in H /\ c \in H
  OBVIOUS
<1>2. JoinsTo(size, H, b, c, s)
  <2>. HIDE DEF H, G
  <2>. QED BY <1>1, JoinTwo
<1>. HIDE DEF s
<1>3. b + s[b] # b /\ b \in G
  <2>1. b \in DOMAIN s /\ Tiles(s)
    BY <1>2 DEF JoinsTo
  <2>. QED BY <2>1, BlockTypes
<1>4. Apart(G, s)
  BY <1>2, <1>3 DEF Apart, Touches, JoinsTo
<1>. QED BY <1>1, <1>2, <1>4 DEF Joined, JoinsTo, s

LEMMA JoinedWithPrevious ==
    ASSUME NEW size, Tiles(size), NEW F \in SUBSET DOMAIN size, Apart(F, size),
           NEW b \in DOMAIN size \ F, NEW a \in F, a + size[a] = b, b + size[b] \notin F
    PROVE  /\ Joined(F, size, b, F, Joint(size, a, b))
           /\ JoinsTo(size, F \union {b}, a, b, Joint(size, a, b))
<1>. DEFINE s == Joint(size, a, b)
            H == F \union {b}
<1>1. H \ {b} = F /\ H \in SUBSET DOMAIN size /\ a \in H /\ b \in H
  OBVIOUS
<1>2. JoinsTo(size, H, a, b, s)
  <2>. HIDE DEF H
  <2>. QED BY <1>1, JoinTwo
<1>. HIDE DEF s
<1>3. Apart(F, s)
  BY <1>2 DEF Apart, JoinsTo
<1>. QED BY <1>1, <1>2, <1>3 DEF Joined, JoinsTo, s

LEMMA JoinedWithBoth ==
    ASSUME NEW size, Tiles(size), NEW F \in SUBSET DOMAIN size, Apart(F, size),
           NEW b \in DOMAIN size \ F, NEW a \in F, a + size[a] = b, NEW c \in F, b + size[b] = c
    PROVE  Joined(F, size, b, F \ {c},
                  With(Without(size, {b, c}), a, (size[a] + size[b]) + size[c]))
<1>. DEFINE r == Joint(size, a, b)
            s == Joint(r, a, c)
            H == F \union {b}
<1>1. H \ {b} = F /\ H \in SUBSET DOMAIN size /\ a \in H /\ b \in H
  OBVIOUS
<1>2. JoinsTo(size, H, a, b, r)
  <2>. HIDE DEF H
  <2>. QED BY <1>1, JoinTwo
<1>3. Tiles(r) /\ F \in SUBSET DOMAIN r /\ a + r[a] = c /\ r[a] = size[a] + size[b]
  <2>. HIDE DEF r
  <2>. QED BY <1>1, <1>2 DEF JoinsTo
<1>4. a # b /\ b # c /\ a # c
  <2>1. a \in Nat /\ b \in Nat /\ c \in Nat /\ size[a] \in Nat \ {0} /\ size[b] \in Nat \ {0}
    BY BlockTypes
  <2>. QED BY <2>1
<1>. HIDE DEF r
<1>5. JoinsTo(r, F, a, c, s)
  BY <1>3, JoinTwo
<1>6. s = With(Without(size, {b, c}), a, (size[a] + size[b]) + size[c])
  <2>1. r[c] = size[c]
    BY <1>2, <1>4 DEF JoinsTo
  <2>2. s = With(Without(r, {c}), a, (size[a] + size[b]) + size[c])
    BY <1>3, <2>1 DEF Joint
  <2>3. DOMAIN Without(r, {c}) \union {a} = DOMAIN Without(size, {b, c}) \union {a}
    BY <1>2 DEF Without, JoinsTo
  <2>4. \A z \in DOMAIN Without(size, {b, c}) \ {a} : Without(r, {c})[z] = Without(size, {b, c})[z]
    BY <1>2 DEF Without, JoinsTo
  <2>. QED BY <2>2, <2>3, <2>4 DEF With
<1>. HIDE DEF s
<1>7. Apart(F \ {c}, s)
  <2>1. ASSUME NEW f \in F \ {c}, NEW g \in F \ {c}, f + s[f] = g PROVE FALSE
    <3>1. CASE f = a
      <4>1. c + size[c] = g
        BY <1>2, <1>4, <1>5, <2>1, <3>1 DEF JoinsTo
      <4>. QED BY <4>1 DEF Apart
    <3>2. CASE f # a
      <4>1. s[f] = size[f]
        BY <1>2, <1>5, <3>2 DEF JoinsTo
      <4>. QED BY <2>1, <4>1 DEF Apart
    <3>. QED BY <3>1, <3>2
  <2>. QED BY <2>1 DEF Apart
<1>8. Joined(F, size, b, F \ {c}, s)
  BY <1>1, <1>2, <1>4, <1>5, <1>7 DEF Joined, JoinsTo
<1>. QED BY <1>6, <1>8
---------------------------------------------------------------------------
(* The free list *)

\* The list is in the order of the addresses, and its members are F.
Lists(list, F) ==
    /\ F \in SUBSET Nat /\ list \in Seq(F) /\ F = {list[i] : i \in DOMAIN list}
    /\ \A i, j \in DOMAIN list : i < j => list[i] < list[j]

\* Below counts the members that are less.
LEMMA BelowIs ==
    ASSUME NEW F, NEW list, Lists(list, F), NEW b \in Nat \ F
    PROVE  LET n == Below(list, b) IN
           /\ n \in 0 .. Len(list)
           /\ \A i \in DOMAIN list : (list[i] < b <=> i <= n) /\ (list[i] > b <=> i > n)
<1>. DEFINE S == {i \in DOMAIN list : \A j \in 1 .. i : list[j] < b}
<1>1. DOMAIN list = 1 .. Len(list) /\ Len(list) \in Nat /\ \A i \in DOMAIN list : list[i] \in F
  BY DEF Lists
<1>2. \E n \in 0 .. Len(list) : S = 1 .. n
  <2>1. CASE S = {}
    BY <1>1, <2>1
  <2>2. CASE S # {}
    <3>1. S \in SUBSET (0 .. Len(list))
      BY <1>1
    <3>2. PICK n \in S : \A k \in S : k <= n
      <4>. HIDE DEF S
      <4>. QED BY <1>1, <2>2, <3>1, GreatestElement
    <3>3. n \in 0 .. Len(list) /\ \A j \in 1 .. n : j \in S
      BY <1>1, <3>2
    <3>4. S = 1 .. n
      BY <1>1, <3>1, <3>2, <3>3
    <3>. QED BY <3>3, <3>4
  <2>. QED BY <2>1, <2>2
<1>3. PICK n \in 0 .. Len(list) : S = 1 .. n
  BY <1>2
<1>4. Below(list, b) = n
  <2>1. Cardinality(1 .. n) = IF 1 > n THEN 0 ELSE n - 1 + 1
    BY <1>1, <1>3, FS_Interval
  <2>2. Below(list, b) = Cardinality(S)
    BY DEF Below
  <2>. HIDE DEF S
  <2>. QED BY <1>1, <1>3, <2>1, <2>2
<1>5. ASSUME NEW i \in DOMAIN list
      PROVE  (list[i] < b <=> i <= n) /\ (list[i] > b <=> i > n)
  <2>1. list[i] \in Nat /\ list[i] # b
    BY <1>1 DEF Lists
  <2>2. i <= n => list[i] < b
    BY <1>1, <1>3
  <2>3. ASSUME i > n PROVE ~(list[i] < b)
    <3>1. n + 1 \in DOMAIN list /\ n + 1 \notin S
      BY <1>1, <1>3, <2>3
    <3>2. PICK j \in 1 .. n + 1 : ~(list[j] < b)
      BY <3>1
    <3>3. j = n + 1
      BY <1>1, <1>3, <3>2
    <3>4. list[n + 1] \in Nat /\ ~(list[n + 1] < b)
      BY <1>1, <3>1, <3>2, <3>3 DEF Lists
    <3>5. n + 1 = i \/ n + 1 < i
      BY <1>1, <1>3, <2>3
    <3>6. n + 1 = i \/ list[n + 1] < list[i]
      BY <3>1, <3>5 DEF Lists
    <3>. QED BY <2>1, <3>4, <3>6
  <2>. QED BY <1>1, <1>3, <2>1, <2>2, <2>3
<1>. QED BY <1>4, <1>5

\* s is x, y and z one behind the other.
Chain(S, x, y, z, s) ==
    /\ s \in Seq(S) /\ Len(s) = Len(x) + Len(y) + Len(z)
    /\ \A i \in 1 .. Len(x) : s[i] = x[i]
    /\ \A i \in Len(x) + 1 .. Len(x) + Len(y) : s[i] = y[i - Len(x)]
    /\ \A i \in Len(x) + Len(y) + 1 .. Len(s) : s[i] = z[i - Len(x) - Len(y)]

LEMMA ConcatThree ==
    ASSUME NEW S, NEW x \in Seq(S), NEW y \in Seq(S), NEW z \in Seq(S)
    PROVE  Chain(S, x, y, z, x \o y \o z)
<1>. DEFINE r == x \o y
            s == r \o z
<1>1. /\ r \in Seq(S) /\ Len(r) = Len(x) + Len(y)
      /\ \A i \in 1 .. Len(x) + Len(y) : r[i] = IF i <= Len(x) THEN x[i] ELSE y[i - Len(x)]
  BY ConcatProperties
<1>. HIDE DEF r
<1>2. /\ s \in Seq(S) /\ Len(s) = Len(r) + Len(z)
      /\ \A i \in 1 .. Len(r) + Len(z) : s[i] = IF i <= Len(r) THEN r[i] ELSE z[i - Len(r)]
  <2>1. r \in Seq(S)
    BY <1>1
  <2>. QED BY <2>1, ConcatProperties
<1>. HIDE DEF s
<1>3. Len(x) \in Nat /\ Len(y) \in Nat /\ Len(z) \in Nat
  OBVIOUS
<1>4. \A i \in 1 .. Len(x) : s[i] = x[i]
  BY <1>1, <1>2, <1>3
<1>5. \A i \in Len(x) + 1 .. Len(x) + Len(y) : s[i] = y[i - Len(x)]
  BY <1>1, <1>2, <1>3
<1>6. ASSUME NEW i \in Len(x) + Len(y) + 1 .. Len(s) PROVE s[i] = z[i - Len(x) - Len(y)]
  <2>1. s[i] = z[i - Len(r)] /\ i - Len(r) = i - Len(x) - Len(y)
    BY <1>1, <1>2, <1>3
  <2>. QED BY <2>1
<1>. QED BY <1>1, <1>2, <1>3, <1>4, <1>5, <1>6 DEF s, r, Chain

\* What the lists are made of.
LEMMA ListTypes ==
    ASSUME NEW F, NEW list, Lists(list, F)
    PROVE  /\ list \in Seq(F) /\ Len(list) \in Nat /\ DOMAIN list = 1 .. Len(list)
           /\ \A i \in DOMAIN list : list[i] \in F
           /\ \A i \in DOMAIN list : list[i] \in Nat
<1>1. list \in Seq(F) /\ F \in SUBSET Nat
  BY DEF Lists
<1>2. Len(list) \in Nat /\ DOMAIN list = 1 .. Len(list)
  BY <1>1
<1>3. \A i \in DOMAIN list : list[i] \in F
  BY <1>1
<1>. QED BY <1>1, <1>2, <1>3

\* The first n members and those from the k-th on, as sequences.
LEMMA EndsAre ==
    ASSUME NEW F, NEW list, Lists(list, F), NEW n \in Nat, NEW k \in Nat, n < k,
           k <= Len(list) + 1
    PROVE  /\ SubSeq(list, 1, n) \in Seq(F) /\ Len(SubSeq(list, 1, n)) = n
           /\ \A i \in 1 .. n : SubSeq(list, 1, n)[i] = list[i]
           /\ SubSeq(list, k, Len(list)) \in Seq(F)
           /\ Len(SubSeq(list, k, Len(list))) = Len(list) + 1 - k
           /\ \A i \in 1 .. Len(list) + 1 - k : SubSeq(list, k, Len(list))[i] = list[k + i - 1]
<1>1. PICK N \in Nat : N = Len(list)
  BY ListTypes
<1>2. \A i \in 1 .. N : list[i] \in F
  BY <1>1, ListTypes
<1>3. \A i \in 1 .. n : list[i] \in F
  BY <1>1, <1>2
<1>4. \A i \in k .. N : list[i] \in F
  BY <1>1, <1>2
<1>5. /\ SubSeq(list, 1, n) \in Seq(F)
      /\ Len(SubSeq(list, 1, n)) = IF 1 <= n THEN n - 1 + 1 ELSE 0
      /\ \A i \in 1 .. n - 1 + 1 : SubSeq(list, 1, n)[i] = list[1 + i - 1]
  <2>1. 1 \in Int /\ n \in Int
    OBVIOUS
  <2>. QED BY <1>3, <2>1, SubSeqProperties
<1>6. /\ SubSeq(list, k, N) \in Seq(F)
      /\ Len(SubSeq(list, k, N)) = IF k <= N THEN N - k + 1 ELSE 0
      /\ \A i \in 1 .. N - k + 1 : SubSeq(list, k, N)[i] = list[k + i - 1]
  <2>1. k \in Int /\ N \in Int
    OBVIOUS
  <2>. QED BY <1>4, <2>1, SubSeqProperties
<1>7. Len(SubSeq(list, 1, n)) = n /\ \A i \in 1 .. n : SubSeq(list, 1, n)[i] = list[i]
  <2>1. n - 1 + 1 = n /\ \A i \in 1 .. n : 1 + i - 1 = i
    OBVIOUS
  <2>2. Len(SubSeq(list, 1, n)) = n
    BY <1>5
  <2>3. ASSUME NEW i \in 1 .. n PROVE SubSeq(list, 1, n)[i] = list[i]
    <3>1. SubSeq(list, 1, n)[i] = list[1 + i - 1] /\ 1 + i - 1 = i
      BY <1>5, <2>1
    <3>. QED BY <3>1
  <2>. QED BY <2>2, <2>3
<1>8. Len(SubSeq(list, k, N)) = N + 1 - k
  BY <1>1, <1>6
<1>9. \A i \in 1 .. N + 1 - k : SubSeq(list, k, N)[i] = list[k + i - 1]
  <2>1. N + 1 - k = N - k + 1
    OBVIOUS
  <2>. QED BY <1>6, <2>1
<1>. QED BY <1>1, <1>5, <1>6, <1>7, <1>8, <1>9

\* The members k, k + 1 ... follow the first n: G are those that are left.
LEMMA CutIs ==
    ASSUME NEW F, NEW list, Lists(list, F), NEW n \in Nat, NEW k \in Nat, n < k,
           k <= Len(list) + 1, NEW G,
           \A v : v \in G <=> \E i \in DOMAIN list : (i <= n \/ k <= i) /\ list[i] = v
    PROVE  /\ Lists(SubSeq(list, 1, n) \o SubSeq(list, k, Len(list)), G)
           /\ Lists(SubSeq(list, 1, n) \o <<>> \o SubSeq(list, k, Len(list)), G)
<1>. DEFINE x == SubSeq(list, 1, n)
            z == SubSeq(list, k, Len(list))
<1>1. /\ list \in Seq(F) /\ Len(list) \in Nat /\ DOMAIN list = 1 .. Len(list)
      /\ \A i \in DOMAIN list : list[i] \in F
      /\ \A i \in DOMAIN list : list[i] \in Nat
  BY ListTypes
<1>2. PICK N \in Nat : N = Len(list)
  BY <1>1
<1>3. x \in Seq(F) /\ Len(x) = n /\ \A i \in 1 .. n : x[i] = list[i]
  BY EndsAre
<1>4. z \in Seq(F) /\ Len(z) = N + 1 - k /\ \A i \in 1 .. N + 1 - k : z[i] = list[k + i - 1]
  BY <1>2, EndsAre
<1>. HIDE DEF x, z
<1>5. x \o <<>> \o z = x \o z
  BY <1>3, ConcatEmptySeq
<1>. DEFINE s == x \o z
<1>6. /\ s \in Seq(F) /\ Len(s) = Len(x) + Len(z)
      /\ \A i \in 1 .. Len(x) + Len(z) : s[i] = IF i <= Len(x) THEN x[i] ELSE z[i - Len(x)]
  BY <1>3, <1>4, ConcatProperties, ZenonT(40)
<1>. HIDE DEF s
<1>7. /\ Len(s) = n + (N + 1 - k) /\ DOMAIN s = 1 .. n + (N + 1 - k)
      /\ \A i \in DOMAIN s : s[i] = IF i <= n THEN x[i] ELSE z[i - n]
  BY <1>3, <1>4, <1>6
<1>8. ASSUME NEW i \in DOMAIN s
      PROVE  LET j == IF i <= n THEN i ELSE (i - n) + k - 1 IN
             j \in 1 .. N /\ (j <= n \/ k <= j) /\ s[i] = list[j]
  <2>1. CASE i <= n
    BY <1>2, <1>3, <1>7, <2>1
  <2>2. CASE i > n
    <3>1. i - n \in 1 .. N + 1 - k /\ s[i] = z[i - n]
      BY <1>7, <2>2
    <3>2. s[i] = list[k + (i - n) - 1] /\ k + (i - n) - 1 = (i - n) + k - 1
      BY <1>4, <3>1
    <3>. QED BY <1>2, <1>7, <2>2, <3>1, <3>2
  <2>. QED BY <1>7, <2>1, <2>2
<1>9. s \in Seq(G)
  <2>1. \A i \in 1 .. Len(s) : s[i] \in G
    BY <1>1, <1>2, <1>7, <1>8
  <2>. QED BY <1>6, <2>1
<1>10. G \in SUBSET {s[i] : i \in DOMAIN s}
  <2>. SUFFICES ASSUME NEW m \in 1 .. N, m <= n \/ k <= m
                PROVE  \E i \in DOMAIN s : s[i] = list[m]
    BY <1>1, <1>2
  <2>1. CASE m <= n
    <3>1. m \in DOMAIN s /\ s[m] = x[m] /\ x[m] = list[m]
      BY <1>2, <1>3, <1>7, <2>1
    <3>. QED BY <3>1
  <2>2. CASE k <= m
    <3>. DEFINE i == (m - k) + n + 1
    <3>1. i \in DOMAIN s /\ i > n /\ i - n = (m - k) + 1 /\ (m - k) + 1 \in 1 .. N + 1 - k
      BY <1>7, <2>2
    <3>. HIDE DEF i
    <3>2. s[i] = z[i - n]
      BY <1>7, <3>1
    <3>3. z[(m - k) + 1] = list[k + ((m - k) + 1) - 1]
      BY <1>4, <3>1
    <3>4. k + ((m - k) + 1) - 1 = m
      OBVIOUS
    <3>. QED BY <3>1, <3>2, <3>3, <3>4
  <2>. QED BY <2>1, <2>2
<1>11. \A i, j \in DOMAIN s : i < j => s[i] < s[j]
  <2>. SUFFICES ASSUME NEW i \in DOMAIN s, NEW j \in DOMAIN s, i < j PROVE s[i] < s[j]
    OBVIOUS
  <2>. DEFINE f(m) == IF m <= n THEN m ELSE (m - n) + k - 1
  <2>1. f(i) \in DOMAIN list /\ s[i] = list[f(i)]
    BY <1>1, <1>2, <1>8
  <2>2. f(j) \in DOMAIN list /\ s[j] = list[f(j)]
    BY <1>1, <1>2, <1>8
  <2>3. f(i) < f(j)
    BY <1>7
  <2>. HIDE DEF f
  <2>. QED BY <2>1, <2>2, <2>3 DEF Lists
<1>12. G \in SUBSET Nat /\ G = {s[i] : i \in DOMAIN s}
  <2>1. \A i \in DOMAIN s : s[i] \in G
    BY <1>6, <1>9
  <2>2. G \in SUBSET Nat
    BY <1>1
  <2>. QED BY <1>10, <2>1, <2>2
<1>13. Lists(s, G)
  BY <1>9, <1>11, <1>12 DEF Lists
<1>. QED BY <1>5, <1>13 DEF s, x, z

\* b goes between the first n and the members k, k + 1 ...: G are those that are left, and b.
LEMMA InsertIs ==
    ASSUME NEW F, NEW list, Lists(list, F), NEW n \in Nat, NEW k \in Nat, n < k,
           k <= Len(list) + 1, NEW b \in Nat,
           \A i \in DOMAIN list : (i <= n => list[i] < b) /\ (k <= i => b < list[i]), NEW G,
           \A v : v \in G <=> v = b \/ \E i \in DOMAIN list : (i <= n \/ k <= i) /\ list[i] = v
    PROVE  Lists(SubSeq(list, 1, n) \o <<b>> \o SubSeq(list, k, Len(list)), G)
<1>. DEFINE x == SubSeq(list, 1, n)
            z == SubSeq(list, k, Len(list))
<1>1. /\ list \in Seq(F) /\ Len(list) \in Nat /\ DOMAIN list = 1 .. Len(list)
      /\ \A i \in DOMAIN list : list[i] \in F
      /\ \A i \in DOMAIN list : list[i] \in Nat
  BY ListTypes
<1>2. PICK N \in Nat : N = Len(list)
  BY <1>1
<1>3. PICK M \in Nat : M = N + 1 - k
  BY <1>2
<1>4. x \in Seq(F) /\ Len(x) = n /\ \A i \in 1 .. n : x[i] = list[i]
  BY EndsAre
<1>5. z \in Seq(F) /\ Len(z) = M /\ \A i \in 1 .. M : z[i] = list[k + i - 1]
  BY <1>2, <1>3, EndsAre
<1>. HIDE DEF x, z
<1>6. <<b>> \in Seq(Nat) /\ Len(<<b>>) = 1 /\ <<b>>[1] = b
  OBVIOUS
<1>. DEFINE s == x \o <<b>> \o z
<1>7. Chain(Nat, x, <<b>>, z, s)
  <2>1. F \in SUBSET Nat
    BY DEF Lists
  <2>2. x \in Seq(Nat)
    <3>1. \A i \in 1 .. Len(x) : x[i] \in F
      BY <1>4
    <3>2. \A i \in 1 .. Len(x) : x[i] \in Nat
      BY <2>1, <3>1
    <3>. QED BY <1>4, <3>2
  <2>3. z \in Seq(Nat)
    <3>1. \A i \in 1 .. Len(z) : z[i] \in F
      BY <1>5
    <3>2. \A i \in 1 .. Len(z) : z[i] \in Nat
      BY <2>1, <3>1
    <3>. QED BY <1>5, <3>2
  <2>. QED BY <1>6, <2>2, <2>3, ConcatThree
<1>. HIDE DEF s
<1>8. /\ Len(s) = n + 1 + M /\ DOMAIN s = 1 .. n + 1 + M /\ s \in Seq(Nat)
      /\ \A i \in 1 .. n : s[i] = x[i]
      /\ s[n + 1] = <<b>>[(n + 1) - n]
      /\ \A i \in n + 2 .. n + 1 + M : s[i] = z[i - n - 1]
  BY <1>4, <1>5, <1>6, <1>7 DEF Chain
<1>9. \A i \in 1 .. n : s[i] = list[i]
  BY <1>4, <1>8
<1>10. s[n + 1] = b
  <2>1. (n + 1) - n = 1
    OBVIOUS
  <2>. QED BY <1>6, <1>8, <2>1
<1>. DEFINE g(i) == (i - n) + k - 2
<1>11. ASSUME NEW i \in n + 2 .. n + 1 + M PROVE s[i] = list[g(i)] /\ g(i) \in k .. N
  <2>1. i - n - 1 \in 1 .. M
    OBVIOUS
  <2>2. s[i] = z[i - n - 1] /\ z[i - n - 1] = list[k + (i - n - 1) - 1]
    BY <1>5, <1>8, <2>1
  <2>3. k + (i - n - 1) - 1 = g(i) /\ g(i) \in k .. N
    BY <1>3
  <2>. QED BY <2>2, <2>3
<1>12. \A l, m \in 1 .. N : l < m => list[l] < list[m]
  BY <1>1, <1>2 DEF Lists
<1>13. \A i, j \in DOMAIN s : i < j => s[i] < s[j]
  <2>. SUFFICES ASSUME NEW i \in 1 .. n + 1 + M, NEW j \in 1 .. n + 1 + M, i < j
                PROVE  s[i] < s[j]
    BY <1>8
  <2>1. CASE j <= n
    <3>1. i \in 1 .. N /\ j \in 1 .. N /\ s[i] = list[i] /\ s[j] = list[j]
      BY <1>2, <1>9, <2>1
    <3>. QED BY <1>12, <3>1
  <2>2. CASE j = n + 1
    <3>1. i \in DOMAIN list /\ i <= n /\ s[i] = list[i]
      BY <1>1, <1>2, <1>9, <2>2
    <3>. QED BY <1>10, <2>2, <3>1
  <2>3. CASE j > n + 1 /\ i = n + 1
    <3>1. s[j] = list[g(j)] /\ g(j) \in k .. N
      BY <1>11, <2>3
    <3>. HIDE DEF g
    <3>2. g(j) \in DOMAIN list /\ k <= g(j)
      BY <1>1, <1>2, <3>1
    <3>. QED BY <1>10, <2>3, <3>1, <3>2
  <2>4. CASE j > n + 1 /\ i > n + 1
    <3>1. s[j] = list[g(j)] /\ g(j) \in k .. N
      BY <1>11, <2>4
    <3>2. s[i] = list[g(i)] /\ g(i) \in k .. N
      BY <1>11, <2>4
    <3>3. g(i) < g(j)
      OBVIOUS
    <3>. HIDE DEF g
    <3>4. g(i) \in 1 .. N /\ g(j) \in 1 .. N
      BY <3>1, <3>2
    <3>. QED BY <1>12, <3>1, <3>2, <3>3, <3>4
  <2>5. CASE j > n + 1 /\ i <= n
    <3>1. s[j] = list[g(j)] /\ g(j) \in k .. N
      BY <1>11, <2>5
    <3>. HIDE DEF g
    <3>2. g(j) \in 1 .. N /\ i \in 1 .. N /\ i < g(j) /\ s[i] = list[i]
      BY <1>2, <1>9, <2>5, <3>1
    <3>. QED BY <1>12, <3>1, <3>2
  <2>. QED BY <2>1, <2>2, <2>3, <2>4, <2>5
<1>14. ASSUME NEW m \in 1 .. N, m <= n \/ k <= m PROVE \E i \in DOMAIN s : s[i] = list[m]
  <2>1. CASE m <= n
    <3>1. m \in DOMAIN s /\ s[m] = list[m]
      BY <1>8, <1>9, <2>1
    <3>. QED BY <3>1
  <2>2. CASE k <= m
    <3>. DEFINE i == (m - k) + n + 2
    <3>1. i \in n + 2 .. n + 1 + M /\ g(i) = m
      BY <1>3, <2>2
    <3>. HIDE DEF i, g
    <3>2. i \in DOMAIN s
      BY <1>8, <3>1
    <3>3. s[i] = list[g(i)]
      BY <1>11, <3>1
    <3>. QED BY <3>1, <3>2, <3>3
  <2>. QED BY <1>14, <2>1, <2>2
<1>15. ASSUME NEW i \in DOMAIN s PROVE s[i] \in G
  <2>1. CASE i <= n
    <3>1. i \in DOMAIN list /\ s[i] = list[i]
      BY <1>1, <1>2, <1>8, <1>9, <2>1
    <3>. QED BY <2>1, <3>1
  <2>2. CASE i = n + 1
    BY <1>10, <2>2
  <2>3. CASE i > n + 1
    <3>. HIDE DEF g
    <3>1. i \in n + 2 .. n + 1 + M
      BY <1>8, <2>3
    <3>2. s[i] = list[g(i)] /\ g(i) \in k .. N
      BY <1>11, <3>1
    <3>3. g(i) \in DOMAIN list /\ k <= g(i)
      BY <1>1, <1>2, <3>2
    <3>. QED BY <3>2, <3>3
  <2>. QED BY <1>8, <2>1, <2>2, <2>3
<1>16. G \in SUBSET Nat
  BY <1>1
<1>17. G = {s[i] : i \in DOMAIN s}
  <2>1. ASSUME NEW v \in G PROVE \E i \in DOMAIN s : s[i] = v
    <3>1. CASE v = b
      <4>1. n + 1 \in DOMAIN s
        BY <1>8
      <4>. QED BY <1>10, <3>1, <4>1
    <3>2. CASE v # b
      <4>1. PICK m \in DOMAIN list : (m <= n \/ k <= m) /\ list[m] = v
        BY <3>2
      <4>. QED BY <1>1, <1>2, <1>14, <4>1
    <3>. QED BY <3>1, <3>2
  <2>. QED BY <1>15, <2>1
<1>18. s \in Seq(G)
  <2>1. \A i \in 1 .. Len(s) : s[i] \in G
    BY <1>8, <1>15
  <2>. QED BY <1>8, <2>1
<1>19. Lists(s, G)
  BY <1>13, <1>16, <1>17, <1>18 DEF Lists
<1>. QED BY <1>19 DEF s, x, z
---------------------------------------------------------------------------
(* Putting a block into the free list *)

\* Where b belongs: the free block that ends at b is the n-th, the one that b ends at the next.
Place(list, F, size, b, n) ==
    /\ n \in 0 .. Len(list)
    /\ \A i \in DOMAIN list : (i <= n => list[i] < b) /\ (n + 1 <= i => b < list[i])
    /\ Touches(F, size, b) => n > 0 /\ list[n] + size[list[n]] = b
    /\ b + size[b] \in F => n < Len(list) /\ list[n + 1] = b + size[b]

LEMMA PlaceIs ==
    ASSUME NEW size, Tiles(size), NEW F \in SUBSET DOMAIN size, NEW list, Lists(list, F),
           NEW b \in DOMAIN size \ F
    PROVE  Place(list, F, size, b, Below(list, b))
<1>. DEFINE n == Below(list, b)
<1>1. b \in Nat \ F
  BY BlockTypes
<1>2. /\ n \in 0 .. Len(list)
      /\ \A i \in DOMAIN list : (list[i] < b <=> i <= n) /\ (list[i] > b <=> i > n)
  BY <1>1, BelowIs
<1>. HIDE DEF n
<1>3. /\ Len(list) \in Nat /\ DOMAIN list = 1 .. Len(list)
      /\ \A i \in DOMAIN list : list[i] \in F
      /\ \A i \in DOMAIN list : list[i] \in Nat
  BY ListTypes
<1>4. ASSUME NEW f \in F, f + size[f] = b PROVE n > 0 /\ list[n] = f
  <2>1. f \in Nat /\ size[f] \in Nat \ {0} /\ f < b
    BY <1>1, <1>4, BlockTypes
  <2>2. PICK i \in DOMAIN list : list[i] = f
    BY DEF Lists
  <2>3. i <= n /\ n \in DOMAIN list /\ n > 0
    BY <1>2, <1>3, <2>1, <2>2
  <2>4. ~(i < n)
    <3>. SUFFICES ASSUME i < n PROVE FALSE
      OBVIOUS
    <3>1. f < list[n] /\ list[n] \in F /\ list[n] \in Nat
      BY <1>3, <2>2, <2>3 DEF Lists
    <3>2. f + size[f] <= list[n]
      BY <3>1 DEF Tiles
    <3>3. list[n] < b
      BY <1>2, <1>3, <2>3
    <3>. QED BY <1>1, <1>4, <3>1, <3>2, <3>3
  <2>. QED BY <1>2, <1>3, <2>2, <2>3, <2>4
<1>5. ASSUME b + size[b] \in F PROVE n < Len(list) /\ list[n + 1] = b + size[b]
  <2>1. b \in Nat /\ size[b] \in Nat \ {0}
    BY BlockTypes
  <2>2. PICK j \in DOMAIN list : list[j] = b + size[b]
    BY <1>5 DEF Lists
  <2>3. n + 1 <= j /\ n + 1 \in DOMAIN list /\ n < Len(list)
    BY <1>2, <1>3, <2>1, <2>2
  <2>4. ~(n + 1 < j)
    <3>. SUFFICES ASSUME n + 1 < j PROVE FALSE
      OBVIOUS
    <3>1. list[n + 1] < b + size[b] /\ list[n + 1] \in F /\ list[n + 1] \in Nat
      BY <1>3, <2>2, <2>3 DEF Lists
    <3>2. b < list[n + 1]
      BY <1>2, <1>3, <2>3
    <3>3. b + size[b] <= list[n + 1]
      BY <3>1, <3>2 DEF Tiles
    <3>. QED BY <2>1, <3>1, <3>3
  <2>. QED BY <1>2, <1>3, <2>2, <2>3, <2>4
<1>6. \A i \in DOMAIN list : (i <= n => list[i] < b) /\ (n + 1 <= i => b < list[i])
  BY <1>2, <1>3
<1>7. Touches(F, size, b) => n > 0 /\ list[n] + size[list[n]] = b
  BY <1>4 DEF Touches
<1>. QED BY <1>2, <1>5, <1>6, <1>7 DEF Place, n

\* The list without its k-th member.
LEMMA OthersAre ==
    ASSUME NEW F, NEW list, Lists(list, F), NEW k \in DOMAIN list
    PROVE  \A v : v \in F \ {list[k]} <=>
                      \E i \in DOMAIN list : (i <= k - 1 \/ k + 1 <= i) /\ list[i] = v
<1>1. /\ DOMAIN list = 1 .. Len(list) /\ Len(list) \in Nat
      /\ \A i \in DOMAIN list : list[i] \in F
      /\ \A i \in DOMAIN list : list[i] \in Nat
  BY ListTypes
<1>2. ASSUME NEW i \in DOMAIN list, i # k PROVE list[i] # list[k] /\ (i <= k - 1 \/ k + 1 <= i)
  <2>1. i < k \/ k < i
    BY <1>1, <1>2
  <2>2. list[i] < list[k] \/ list[k] < list[i]
    BY <2>1 DEF Lists
  <2>. QED BY <1>1, <2>1, <2>2
<1>3. ASSUME NEW v \in F \ {list[k]}
      PROVE  \E i \in DOMAIN list : (i <= k - 1 \/ k + 1 <= i) /\ list[i] = v
  <2>1. PICK i \in DOMAIN list : list[i] = v
    BY DEF Lists
  <2>. QED BY <1>2, <2>1
<1>4. ASSUME NEW i \in DOMAIN list, i <= k - 1 \/ k + 1 <= i
      PROVE  list[i] \in F \ {list[k]}
  <2>1. i # k
    BY <1>1, <1>4
  <2>. QED BY <1>1, <1>2, <2>1
<1>. QED BY <1>3, <1>4

\* What prvInsertBlockIntoFreeList makes of the list, the sizes and the numbers of bytes.
Inserted(list, size, F, b, bytes, minimum, r) ==
    \E l, s, G : /\ r = [list |-> l, size |-> s, bytes |-> bytes, minimum |-> minimum]
                 /\ Joined(F, size, b, G, s) /\ Lists(l, G)

LEMMA InsertionIs ==
    ASSUME NEW size, Tiles(size), NEW F \in SUBSET DOMAIN size, Apart(F, size),
           NEW list, Lists(list, F), NEW b \in DOMAIN size \ F, NEW bytes, NEW minimum
    PROVE  Inserted(list, size, F, b, bytes, minimum,
               prvInsertBlockIntoFreeList(
                   [list |-> list, size |-> size, bytes |-> bytes, minimum |-> minimum], b))
<1>. DEFINE h == [list |-> list, size |-> size, bytes |-> bytes, minimum |-> minimum]
            m == Below(list, b)
            r == prvInsertBlockIntoFreeList(h, b)
<1>1. Place(list, F, size, b, m)
  BY PlaceIs
<1>2. PICK n : n = m
  OBVIOUS
<1>. DEFINE left == n > 0 /\ list[n] + size[list[n]] = b
            start == IF left THEN list[n] ELSE b
            joined == IF left THEN size[start] + size[b] ELSE size[b]
            right == n < Len(list) /\ start + joined = list[n + 1]
            total == IF right THEN joined + size[list[n + 1]] ELSE joined
            gone == (IF left THEN {b} ELSE {}) \union (IF right THEN {list[n + 1]} ELSE {})
            l == SubSeq(list, 1, n) \o (IF left THEN <<>> ELSE <<b>>)
                    \o SubSeq(list, IF right THEN n + 2 ELSE n + 1, Len(list))
            s == With(Without(size, gone), start, total)
<1>3. r = [list |-> l, size |-> s, bytes |-> bytes, minimum |-> minimum]
  <2>0. h = [list |-> list, size |-> size, bytes |-> bytes, minimum |-> minimum]
    OBVIOUS
  <2>. HIDE DEF h
  <2>1. h.list = list /\ h.size = size
    BY <2>0
  <2>2. Below(h.list, b) = n
    BY <1>2, <2>1
  <2>3. r = [h EXCEPT !.list = l, !.size = s]
    BY <2>1, <2>2 DEF prvInsertBlockIntoFreeList
  <2>. HIDE DEF r, l, s
  <2>4. [h EXCEPT !.list = l, !.size = s] =
            [list |-> l, size |-> s, bytes |-> bytes, minimum |-> minimum]
    <3>1. PICK g : g = [h EXCEPT !.list = l]
      OBVIOUS
    <3>2. g = [list |-> l, size |-> size, bytes |-> bytes, minimum |-> minimum]
      BY <2>0, <3>1
    <3>3. [g EXCEPT !.size = s] =
              [list |-> l, size |-> s, bytes |-> bytes, minimum |-> minimum]
      BY <3>2
    <3>. QED BY <3>1, <3>3
  <2>. QED BY <2>3, <2>4
<1>. SUFFICES Inserted(list, size, F, b, bytes, minimum, r)
  OBVIOUS
<1>. HIDE DEF r, h, m
<1>4. /\ n \in Nat /\ n <= Len(list)
      /\ \A i \in DOMAIN list : (i <= n => list[i] < b) /\ (n + 1 <= i => b < list[i])
      /\ Touches(F, size, b) => n > 0 /\ list[n] + size[list[n]] = b
      /\ b + size[b] \in F => n < Len(list) /\ list[n + 1] = b + size[b]
  BY <1>1, <1>2 DEF Place
<1>5. /\ Len(list) \in Nat /\ DOMAIN list = 1 .. Len(list)
      /\ \A i \in DOMAIN list : list[i] \in F
      /\ \A i \in DOMAIN list : list[i] \in Nat
  BY ListTypes
<1>6. b \in Nat /\ size[b] \in Nat \ {0}
  BY BlockTypes
<1>7. \A v : v \in F <=> \E i \in DOMAIN list : (i <= n \/ n + 1 <= i) /\ list[i] = v
  <2>1. \A i \in DOMAIN list : i <= n \/ n + 1 <= i
    BY <1>4, <1>5
  <2>2. F = {list[i] : i \in DOMAIN list}
    BY DEF Lists
  <2>. QED BY <2>1, <2>2
<1>8. left => list[n] \in F /\ list[n] \in Nat /\ size[list[n]] \in Nat \ {0}
  BY <1>4, <1>5, BlockTypes
<1>9. start + joined = b + size[b]
  BY <1>6, <1>8
<1>10. ASSUME n < Len(list)
       PROVE  /\ n + 1 \in DOMAIN list /\ list[n + 1] \in F /\ n + 2 \in Nat
              /\ n + 2 <= Len(list) + 1 /\ n < n + 2
              /\ \A v : v \in F \ {list[n + 1]} <=>
                      \E i \in DOMAIN list : (i <= n \/ n + 2 <= i) /\ list[i] = v
  <2>1. n + 1 \in DOMAIN list /\ (n + 1) - 1 = n /\ (n + 1) + 1 = n + 2
    BY <1>4, <1>5, <1>10
  <2>2. \A v : v \in F \ {list[n + 1]} <=>
            \E i \in DOMAIN list : (i <= (n + 1) - 1 \/ (n + 1) + 1 <= i) /\ list[i] = v
    BY <2>1, OthersAre
  <2>. QED BY <1>4, <1>5, <1>10, <2>1, <2>2
<1>11. ASSUME NEW G, Joined(F, size, b, G, s), Lists(l, G)
       PROVE  Inserted(list, size, F, b, bytes, minimum, r)
  <2>. HIDE DEF l, s
  <2>. QED BY <1>3, <1>11 DEF Inserted
<1>12. CASE ~left /\ ~right
  <2>1. ~Touches(F, size, b) /\ b + size[b] \notin F
    BY <1>4, <1>9, <1>12
  <2>2. Joined(F, size, b, F \union {b}, size)
    BY <2>1, JoinedWithNone
  <2>3. s = size
    <3>1. size = [d \in DOMAIN size |-> size[d]]
      BY DEF Tiles
    <3>2. s = With(Without(size, {}), b, size[b])
      BY <1>12
    <3>3. Without(size, {}) = size
      BY <3>1 DEF Without
    <3>4. DOMAIN size \union {b} = DOMAIN size
      OBVIOUS
    <3>5. With(size, b, size[b]) = size
      BY <3>1, <3>4 DEF With
    <3>. QED BY <3>2, <3>3, <3>5
  <2>4. l = SubSeq(list, 1, n) \o <<b>> \o SubSeq(list, n + 1, Len(list))
    BY <1>12
  <2>. HIDE DEF left, right, l, s
  <2>5. Lists(SubSeq(list, 1, n) \o <<b>> \o SubSeq(list, n + 1, Len(list)), F \union {b})
    <3>. DEFINE G == F \union {b}
    <3>1. \A v : v \in G <=>
              v = b \/ \E i \in DOMAIN list : (i <= n \/ n + 1 <= i) /\ list[i] = v
      BY <1>7
    <3>2. n + 1 \in Nat /\ n < n + 1 /\ n + 1 <= Len(list) + 1
      BY <1>4, <1>5
    <3>. HIDE DEF G
    <3>3. Lists(SubSeq(list, 1, n) \o <<b>> \o SubSeq(list, n + 1, Len(list)), G)
      BY <1>4, <1>6, <3>1, <3>2, InsertIs
    <3>. QED BY <3>3 DEF G
  <2>6. Joined(F, size, b, F \union {b}, s) /\ Lists(l, F \union {b})
    BY <2>2, <2>3, <2>4, <2>5
  <2>. QED BY <1>11, <2>6
<1>13. CASE ~left /\ right
  <2>1. PICK c : c = list[n + 1]
    OBVIOUS
  <2>2. n < Len(list) /\ b + size[b] = c /\ ~Touches(F, size, b)
    BY <1>4, <1>9, <1>13, <2>1
  <2>3. s = Joint(size, b, c)
    BY <1>13, <2>1 DEF Joint
  <2>4. l = SubSeq(list, 1, n) \o <<b>> \o SubSeq(list, n + 2, Len(list))
    BY <1>13
  <2>. HIDE DEF left, right, l, s
  <2>5. c \in F
    BY <1>10, <2>1, <2>2
  <2>6. Joined(F, size, b, (F \ {c}) \union {b}, Joint(size, b, c))
    BY <2>2, <2>5, JoinedWithNext
  <2>7. Lists(SubSeq(list, 1, n) \o <<b>> \o SubSeq(list, n + 2, Len(list)),
              (F \ {c}) \union {b})
    <3>. DEFINE G == (F \ {c}) \union {b}
    <3>1. \A v : v \in F \ {c} <=>
              \E i \in DOMAIN list : (i <= n \/ n + 2 <= i) /\ list[i] = v
      BY <1>10, <2>1, <2>2
    <3>2. \A v : v \in G <=>
              v = b \/ \E i \in DOMAIN list : (i <= n \/ n + 2 <= i) /\ list[i] = v
      BY <3>1
    <3>3. n + 2 \in Nat /\ n < n + 2 /\ n + 2 <= Len(list) + 1
      BY <1>10, <2>2
    <3>4. \A i \in DOMAIN list : (i <= n => list[i] < b) /\ (n + 2 <= i => b < list[i])
      BY <1>4, <1>5
    <3>. HIDE DEF G
    <3>5. Lists(SubSeq(list, 1, n) \o <<b>> \o SubSeq(list, n + 2, Len(list)), G)
      BY <1>4, <1>6, <3>2, <3>3, <3>4, InsertIs
    <3>. QED BY <3>5 DEF G
  <2>8. Joined(F, size, b, (F \ {c}) \union {b}, s) /\ Lists(l, (F \ {c}) \union {b})
    BY <2>3, <2>4, <2>6, <2>7
  <2>. QED BY <1>11, <2>8
<1>14. CASE left /\ ~right
  <2>1. PICK a : a = list[n]
    OBVIOUS
  <2>2. a \in F /\ a + size[a] = b /\ b + size[b] \notin F
    BY <1>4, <1>8, <1>9, <1>14, <2>1
  <2>3. s = Joint(size, a, b)
    BY <1>14, <2>1 DEF Joint
  <2>4. l = SubSeq(list, 1, n) \o <<>> \o SubSeq(list, n + 1, Len(list))
    BY <1>14
  <2>. HIDE DEF left, right, l, s
  <2>5. Joined(F, size, b, F, Joint(size, a, b))
    BY <2>2, JoinedWithPrevious
  <2>6. n + 1 \in Nat /\ n < n + 1 /\ n + 1 <= Len(list) + 1
    BY <1>4, <1>5
  <2>7. Lists(SubSeq(list, 1, n) \o <<>> \o SubSeq(list, n + 1, Len(list)), F)
    BY <1>4, <1>7, <2>6, CutIs
  <2>8. Joined(F, size, b, F, s) /\ Lists(l, F)
    BY <2>3, <2>4, <2>5, <2>7
  <2>. QED BY <1>11, <2>8
<1>15. CASE left /\ right
  <2>1. PICK a, c : a = list[n] /\ c = list[n + 1]
    OBVIOUS
  <2>2. n < Len(list) /\ a \in F /\ a + size[a] = b /\ b + size[b] = c
    BY <1>4, <1>8, <1>9, <1>15, <2>1
  <2>3. s = With(Without(size, {b, c}), a, (size[a] + size[b]) + size[c])
    <3>1. gone = {b, c}
      BY <1>15, <2>1
    <3>2. start = a /\ total = (size[a] + size[b]) + size[c]
      BY <1>15, <2>1
    <3>. QED BY <3>1, <3>2
  <2>4. l = SubSeq(list, 1, n) \o <<>> \o SubSeq(list, n + 2, Len(list))
    BY <1>15
  <2>. HIDE DEF left, right, l, s
  <2>5. c \in F
    BY <1>10, <2>1, <2>2
  <2>6. Joined(F, size, b, F \ {c}, s)
    <3>1. Joined(F, size, b, F \ {c},
                 With(Without(size, {b, c}), a, (size[a] + size[b]) + size[c]))
      BY <2>2, <2>5, JoinedWithBoth
    <3>. QED BY <2>3, <3>1
  <2>7. Lists(SubSeq(list, 1, n) \o <<>> \o SubSeq(list, n + 2, Len(list)), F \ {c})
    <3>. DEFINE G == F \ {c}
    <3>1. \A v : v \in G <=>
              \E i \in DOMAIN list : (i <= n \/ n + 2 <= i) /\ list[i] = v
      BY <1>10, <2>1, <2>2
    <3>2. n + 2 \in Nat /\ n < n + 2 /\ n + 2 <= Len(list) + 1
      BY <1>10, <2>2
    <3>. HIDE DEF G
    <3>3. Lists(SubSeq(list, 1, n) \o <<>> \o SubSeq(list, n + 2, Len(list)), G)
      BY <1>4, <3>1, <3>2, CutIs
    <3>. QED BY <3>3 DEF G
  <2>8. Lists(l, F \ {c})
    BY <2>4, <2>7
  <2>. QED BY <1>11, <2>6, <2>8
<1>. QED BY <1>12, <1>13, <1>14, <1>15
---------------------------------------------------------------------------
(* Whole heaps *)

\* The blocks are the free ones F, which the list holds, and those in taken.
Whole(list, size, F, taken) ==
    /\ Tiles(size) /\ Lists(list, F) /\ Apart(F, size)
    /\ DOMAIN size = F \union taken /\ F \intersect taken = {}

\* The bytes of the free blocks are counted.
HeapOK(list, size, bytes, minimum, F, taken) ==
    /\ Whole(list, size, F, taken)
    /\ bytes = Cardinality(BytesOf(F, size))
    /\ minimum \in Nat /\ minimum <= bytes

\* Releasing a block that was taken: the others that are taken keep their size.
Released(size, F, taken, b, l, s, G) ==
    /\ Whole(l, s, G, taken \ {b})
    /\ \A d \in taken \ {b} : s[d] = size[d]
    /\ Cardinality(BytesOf(G, s)) = Cardinality(BytesOf(F, size)) + size[b]

LEMMA JoinedIsWhole ==
    ASSUME NEW list, NEW size, NEW F, NEW taken, Whole(list, size, F, taken), NEW b \in taken,
           NEW l, NEW s, NEW G, Joined(F, size, b, G, s), Lists(l, G)
    PROVE  Released(size, F, taken, b, l, s, G)
<1>1. /\ Tiles(size) /\ F \in SUBSET DOMAIN size /\ b \in DOMAIN size \ F
      /\ (DOMAIN size \ F) \ {b} = taken \ {b}
  BY DEF Whole
<1>2. /\ Tiles(s) /\ G \in SUBSET DOMAIN s /\ Apart(G, s) /\ DOMAIN s \ G = taken \ {b}
      /\ \A d \in taken \ {b} : s[d] = size[d]
      /\ BytesOf(G, s) = BytesOf(F \union {b}, size)
  BY <1>1 DEF Joined
<1>3. DOMAIN s = G \union (taken \ {b}) /\ G \intersect (taken \ {b}) = {}
  BY <1>2
<1>4. Whole(l, s, G, taken \ {b})
  BY <1>2, <1>3 DEF Whole
<1>5. Cardinality(BytesOf(F \union {b}, size)) = Cardinality(BytesOf(F, size)) + size[b]
  BY <1>1, BytesAdd
<1>. QED BY <1>2, <1>4, <1>5 DEF Released

\* What the heap is after a step: rec, with the same sizes of the blocks in kept.
Becomes(rec, size, kept, taken) ==
    \E l, s, y, m, G :
        /\ rec = [list |-> l, size |-> s, bytes |-> y, minimum |-> m]
        /\ HeapOK(l, s, y, m, G, taken)
        /\ \A d \in kept : s[d] = size[d]

\* Release, as a function of the heap.
LEMMA ReleaseIs ==
    ASSUME NEW list, NEW size, NEW bytes, NEW minimum, NEW F, NEW taken,
           HeapOK(list, size, bytes, minimum, F, taken), NEW b \in taken
    PROVE  Becomes(prvInsertBlockIntoFreeList([list |-> list, size |-> size,
                       bytes |-> bytes + size[b], minimum |-> minimum], b),
                   size, taken \ {b}, taken \ {b})
<1>. DEFINE r == prvInsertBlockIntoFreeList([list |-> list, size |-> size,
                     bytes |-> bytes + size[b], minimum |-> minimum], b)
<1>1. /\ Whole(list, size, F, taken) /\ Tiles(size) /\ Lists(list, F) /\ Apart(F, size)
      /\ F \in SUBSET DOMAIN size /\ b \in DOMAIN size \ F
      /\ bytes = Cardinality(BytesOf(F, size)) /\ minimum \in Nat /\ minimum <= bytes
  BY DEF HeapOK, Whole
<1>2. Inserted(list, size, F, b, bytes + size[b], minimum, r)
  BY <1>1, InsertionIs
<1>. HIDE DEF r
<1>3. PICK l, s, G :
          /\ r = [list |-> l, size |-> s, bytes |-> bytes + size[b], minimum |-> minimum]
          /\ Joined(F, size, b, G, s) /\ Lists(l, G)
  BY <1>2 DEF Inserted
<1>4. /\ Whole(l, s, G, taken \ {b})
      /\ \A d \in taken \ {b} : s[d] = size[d]
      /\ Cardinality(BytesOf(G, s)) = Cardinality(BytesOf(F, size)) + size[b]
  <2>1. Whole(list, size, F, taken) /\ Joined(F, size, b, G, s) /\ Lists(l, G)
    BY <1>1, <1>3
  <2>2. Released(size, F, taken, b, l, s, G)
    BY <2>1, JoinedIsWhole
  <2>. QED BY <2>2 DEF Released
<1>5. minimum <= bytes + size[b]
  <2>1. size[b] \in Nat /\ bytes \in Nat
    BY <1>1, BlockTypes, BytesOfBlocks, FS_CardinalityType
  <2>. QED BY <1>1, <2>1
<1>6. HeapOK(l, s, bytes + size[b], minimum, G, taken \ {b})
  BY <1>1, <1>4, <1>5 DEF HeapOK
<1>7. Becomes(r, size, taken \ {b}, taken \ {b})
  BY <1>3, <1>4, <1>6 DEF Becomes
<1>. QED BY <1>7 DEF r

\* Taking a block out of the list.
LEMMA RemovedIs ==
    ASSUME NEW list, NEW size, NEW F, NEW taken, Whole(list, size, F, taken),
           NEW i \in DOMAIN list
    PROVE  /\ Whole(RemoveAt(list, i), size, F \ {list[i]}, taken \union {list[i]})
           /\ Cardinality(BytesOf(F, size)) =
                  Cardinality(BytesOf(F \ {list[i]}, size)) + size[list[i]]
<1>. DEFINE b == list[i]
            G == F \ {b}
<1>1. Tiles(size) /\ Lists(list, F) /\ Apart(F, size) /\ DOMAIN size = F \union taken
      /\ F \intersect taken = {}
  BY DEF Whole
<1>2. DOMAIN list = 1 .. Len(list) /\ Len(list) \in Nat /\ b \in F
  BY <1>1, ListTypes
<1>3. Lists(RemoveAt(list, i), G)
  <2>1. \A v : v \in G <=>
            \E j \in DOMAIN list : (j <= i - 1 \/ i + 1 <= j) /\ list[j] = v
    BY <1>1, OthersAre
  <2>2. i - 1 \in Nat /\ i + 1 \in Nat /\ i - 1 < i + 1 /\ i + 1 <= Len(list) + 1
    BY <1>2
  <2>. HIDE DEF G
  <2>3. Lists(SubSeq(list, 1, i - 1) \o SubSeq(list, i + 1, Len(list)), G)
    BY <1>1, <2>1, <2>2, CutIs
  <2>. QED BY <2>3 DEF RemoveAt
<1>. HIDE DEF b
<1>4. Whole(RemoveAt(list, i), size, G, taken \union {b})
  <2>1. Apart(G, size)
    BY <1>1 DEF Apart
  <2>2. DOMAIN size = G \union (taken \union {b}) /\ G \intersect (taken \union {b}) = {}
    BY <1>1, <1>2
  <2>. HIDE DEF G
  <2>. QED BY <1>1, <1>3, <2>1, <2>2 DEF Whole
<1>5. Cardinality(BytesOf(G \union {b}, size)) = Cardinality(BytesOf(G, size)) + size[b]
  <2>1. G \in SUBSET DOMAIN size /\ b \in DOMAIN size \ G
    BY <1>1, <1>2
  <2>. HIDE DEF G
  <2>. QED BY <1>1, <2>1, BytesAdd
<1>6. G \union {b} = F
  BY <1>2
<1>. QED BY <1>4, <1>5, <1>6 DEF b

\* Allocating, as a function of the heap: the i-th free block holds w bytes.
LEMMA AllocationIs ==
    ASSUME NEW list, NEW size, NEW bytes, NEW minimum, NEW F, NEW taken,
           HeapOK(list, size, bytes, minimum, F, taken), NEW i \in DOMAIN list,
           NEW w \in Nat \ {0}, Aligned(w), w <= size[list[i]]
    PROVE  LET b == list[i]
               r == Count(Split([list |-> RemoveAt(list, i), size |-> size, bytes |-> bytes,
                                 minimum |-> minimum], b, w), b, w)
           IN  Becomes(r, size, taken, taken \union {b}) /\ w <= r.size[b]
<1>. DEFINE b == list[i]
            h == [list |-> RemoveAt(list, i), size |-> size, bytes |-> bytes,
                  minimum |-> minimum]
            r == Count(Split(h, b, w), b, w)
            G == F \ {b}
            more == taken \union {b}
<1>1. /\ Tiles(size) /\ Lists(list, F) /\ F \in SUBSET DOMAIN size /\ taken \in SUBSET DOMAIN size
      /\ bytes = Cardinality(BytesOf(F, size)) /\ minimum \in Nat /\ minimum <= bytes
      /\ Whole(list, size, F, taken) /\ b \notin taken /\ b \in F
  <2>1. Lists(list, F)
    BY DEF HeapOK, Whole
  <2>2. b \in F
    BY <2>1, ListTypes
  <2>. HIDE DEF b
  <2>. QED BY <2>1, <2>2 DEF HeapOK, Whole
<1>2. b \in DOMAIN size /\ size[b] \in Nat \ {0} /\ b \in Nat
  BY <1>1, BlockTypes
<1>3. /\ Whole(RemoveAt(list, i), size, G, more)
      /\ bytes = Cardinality(BytesOf(G, size)) + size[b]
  BY <1>1, RemovedIs
<1>4. G \in SUBSET DOMAIN size /\ Cardinality(BytesOf(G, size)) \in Nat
  BY <1>1, BytesOfBlocks, FS_CardinalityType
<1>. HIDE DEF b, G, more
\* what Count does with the heap that Split returns
<1>5. ASSUME NEW l, NEW s, NEW K, Whole(l, s, K, more), \A d \in taken : s[d] = size[d],
             w <= s[b], s[b] \in Nat, Cardinality(BytesOf(K, s)) + s[b] = bytes,
             Split(h, b, w) = [list |-> l, size |-> s, bytes |-> bytes, minimum |-> minimum]
      PROVE  Becomes(r, size, taken, more) /\ w <= r.size[b]
  <2>. DEFINE y == bytes - s[b]
              m == IF y < minimum THEN y ELSE minimum
  <2>1. r = [list |-> l, size |-> s, bytes |-> y, minimum |-> m]
    <3>1. PICK q : q = [list |-> l, size |-> s, bytes |-> bytes, minimum |-> minimum]
      OBVIOUS
    <3>2. q.bytes = bytes /\ q.size = s /\ q.minimum = minimum
      BY <3>1
    <3>3. Count(q, b, w) = [q EXCEPT !.bytes = y, !.minimum = m]
      BY <3>2 DEF Count
    <3>. HIDE DEF h, y, m
    <3>4. Count(q, b, w) = [list |-> l, size |-> s, bytes |-> y, minimum |-> m]
      BY <3>1, <3>3
    <3>. QED BY <1>5, <3>1, <3>4
  <2>2. Cardinality(BytesOf(K, s)) \in Nat
    <3>1. Tiles(s) /\ K \in SUBSET DOMAIN s
      BY <1>5 DEF Whole
    <3>. QED BY <3>1, BytesOfBlocks, FS_CardinalityType
  <2>3. y = Cardinality(BytesOf(K, s)) /\ y \in Nat /\ m \in Nat /\ m <= y
    BY <1>1, <1>5, <2>2
  <2>. HIDE DEF r, y, m, h
  <2>4. HeapOK(l, s, y, m, K, more)
    BY <1>5, <2>3 DEF HeapOK
  <2>5. Becomes(r, size, taken, more)
    BY <1>5, <2>1, <2>4 DEF Becomes
  <2>6. r.size = s
    BY <2>1
  <2>. QED BY <1>5, <2>5, <2>6
<1>. DEFINE rest == size[b] - w
<1>6. CASE rest <= heapMINIMUM_BLOCK_SIZE
  <2>1. Split(h, b, w) = h
    BY <1>6 DEF Split
  <2>2. \A d \in taken : size[d] = size[d]
    OBVIOUS
  <2>3. w <= size[b] /\ size[b] \in Nat /\ Cardinality(BytesOf(G, size)) + size[b] = bytes
    BY <1>2, <1>3 DEF b
  <2>4. Becomes(r, size, taken, more) /\ w <= r.size[b]
    <3>. HIDE DEF r
    <3>. QED BY <1>3, <1>5, <2>1, <2>2, <2>3
  <2>. QED BY <2>4 DEF b, more
<1>7. CASE ~(rest <= heapMINIMUM_BLOCK_SIZE)
  <2>. DEFINE c == b + w
              t == With(With(size, b, w), c, rest)
              q == [list |-> RemoveAt(list, i), size |-> t, bytes |-> bytes,
                    minimum |-> minimum]
  <2>1. Split(h, b, w) = prvInsertBlockIntoFreeList(q, c)
    BY <1>7 DEF Split
  <2>2. w < size[b] /\ rest \in Nat
    BY <1>2, <1>7, HeapConstants DEF heapMINIMUM_BLOCK_SIZE
  <2>3. /\ Tiles(t) /\ c \notin DOMAIN size /\ DOMAIN t = DOMAIN size \union {c}
        /\ t[b] = w /\ t[c] = rest
        /\ \A d \in DOMAIN size \ {b} : t[d] = size[d]
    <3>1. IsSplit(size, b, w, t)
      BY <1>1, <1>2, <2>2, SplitTiles
    <3>. HIDE DEF t
    <3>. QED BY <3>1 DEF IsSplit
  <2>. HIDE DEF t, c
  <2>4. Whole(RemoveAt(list, i), t, G, more \union {c})
    <3>1. Lists(RemoveAt(list, i), G) /\ Apart(G, size) /\ DOMAIN size = G \union more
          /\ G \intersect more = {}
      BY <1>3 DEF Whole
    <3>2. b \notin G /\ \A d \in G : t[d] = size[d]
      BY <2>3, <3>1 DEF more
    <3>3. Apart(G, t)
      BY <3>1, <3>2 DEF Apart
    <3>. QED BY <2>3, <3>1, <3>3 DEF Whole
  <2>5. BytesOf(G, t) = BytesOf(G, size)
    <3>1. \A d \in G : t[d] = size[d]
      BY <1>4, <2>3 DEF G
    <3>. QED BY <3>1 DEF BytesOf
  <2>6. Inserted(RemoveAt(list, i), t, G, c, bytes, minimum, prvInsertBlockIntoFreeList(q, c))
    <3>1. /\ Tiles(t) /\ Lists(RemoveAt(list, i), G) /\ Apart(G, t)
          /\ G \in SUBSET DOMAIN t /\ c \in DOMAIN t \ G
      BY <2>3, <2>4, <1>4 DEF Whole
    <3>. QED BY <3>1, InsertionIs
  <2>7. PICK l, s, K :
            /\ prvInsertBlockIntoFreeList(q, c) =
                   [list |-> l, size |-> s, bytes |-> bytes, minimum |-> minimum]
            /\ Joined(G, t, c, K, s) /\ Lists(l, K)
    <3>. HIDE DEF q
    <3>. QED BY <2>6 DEF Inserted
  <2>8. c \notin more
    BY <1>1, <1>2, <2>3 DEF more
  <2>9. /\ Whole(l, s, K, more) /\ \A d \in more : s[d] = t[d]
        /\ Cardinality(BytesOf(K, s)) = Cardinality(BytesOf(G, t)) + t[c]
    <3>. DEFINE all == more \union {c}
    <3>1. all \ {c} = more /\ c \in all
      BY <2>8
    <3>2. Whole(RemoveAt(list, i), t, G, all) /\ Joined(G, t, c, K, s) /\ Lists(l, K)
      BY <2>4, <2>7
    <3>. HIDE DEF all
    <3>3. Released(t, G, all, c, l, s, K)
      BY <3>1, <3>2, JoinedIsWhole
    <3>. QED BY <3>1, <3>3 DEF Released
  <2>10. s[b] = w /\ \A d \in taken : s[d] = size[d]
    <3>1. b \in more /\ taken \in SUBSET more
      BY DEF more
    <3>2. \A d \in taken : d # b /\ d \in DOMAIN size
      BY <1>1
    <3>. QED BY <2>3, <2>9, <3>1, <3>2
  <2>11. Cardinality(BytesOf(K, s)) + s[b] = bytes
    BY <1>2, <1>3, <1>4, <2>3, <2>5, <2>9, <2>10
  <2>12. Split(h, b, w) = [list |-> l, size |-> s, bytes |-> bytes, minimum |-> minimum]
    BY <2>1, <2>7
  <2>13. w <= s[b] /\ s[b] \in Nat
    BY <2>10
  <2>14. Becomes(r, size, taken, more) /\ w <= r.size[b]
    <3>. HIDE DEF r, h
    <3>. QED BY <1>5, <2>9, <2>10, <2>11, <2>12, <2>13
  <2>. QED BY <2>14 DEF b, more
<1>. QED BY <1>6, <1>7

\* The size of the block for n bytes does not wrap.
LEMMA WantedIs ==
    ASSUME NEW n \in Nat
    PROVE  /\ n = 0 \/ n >= xBlockAllocatedBit => Wanted(n) = 0
           /\ n > 0 /\ n < xBlockAllocatedBit =>
                  /\ Wanted(n) \in Nat \ {0} /\ Aligned(Wanted(n))
                  /\ n + xHeapStructSize <= Wanted(n)
                  /\ Wanted(n) = AlignUp(n + xHeapStructSize)
<1>1. CASE n = 0 \/ n >= xBlockAllocatedBit
  BY <1>1, HeapConstants DEF Wanted
<1>2. CASE n > 0 /\ n < xBlockAllocatedBit
  <2>. DEFINE x == n + xHeapStructSize
  <2>1. x \in Nat
    BY HeapConstants
  <2>2. /\ AlignUp(x) \in Nat /\ Aligned(AlignUp(x)) /\ x <= AlignUp(x)
        /\ AlignUp(x) < x + portBYTE_ALIGNMENT
    <3>. HIDE DEF x
    <3>. QED BY <2>1, AlignUpIs
  <2>3. AlignUp(x) < SizeMod
    BY <1>2, <2>1, <2>2, HeapConstants, HeapAssumption
  <2>4. AlignUp(x) % SizeMod = AlignUp(x)
    BY <2>2, <2>3, HeapAssumption
  <2>5. Wanted(n) = AlignUp(x) % SizeMod
    <3>1. n # 0 /\ ~(n >= xBlockAllocatedBit)
      BY <1>2, HeapConstants
    <3>. QED BY <3>1 DEF Wanted
  <2>. QED BY <1>2, <2>1, <2>2, <2>4, <2>5, HeapConstants
<1>. QED BY <1>1, <1>2, HeapConstants
---------------------------------------------------------------------------
(* The inductive invariant *)

\* Every block in owned is as large as its owner asked for.
GivenOK(size, owned, memory) ==
    /\ DOMAIN memory = {Pointer(b) : b \in owned}
    /\ \A b \in owned : /\ memory[Pointer(b)] \in Nat
                        /\ memory[Pointer(b)] + xHeapStructSize <= size[b]

Untouched ==
    /\ freeList = <<>> /\ DOMAIN xBlockSize = {}
    /\ xFreeBytesRemaining = 0 /\ xMinimumEverFreeBytesRemaining = 0
    /\ allocated = {} /\ releasing = {}

Taken == allocated \union releasing

HInv ==
    /\ pxEnd \in {NULL, EndMarker}
    /\ pxEnd = NULL => Untouched
    /\ allocated \intersect releasing = {}
    /\ \E F : HeapOK(Heap.list, Heap.size, Heap.bytes, Heap.minimum, F, Taken)
    /\ GivenOK(Heap.size, allocated, given)

LEMMA InitialHeap ==
    LET size == [b \in {FirstBlock} |-> EndMarker - FirstBlock] IN
    HeapOK(<<FirstBlock>>, size, EndMarker - FirstBlock, EndMarker - FirstBlock,
           {FirstBlock}, {})
<1>. DEFINE r == EndMarker - FirstBlock
            size == [b \in {FirstBlock} |-> r]
<1>1. /\ FirstBlock \in Nat /\ EndMarker \in Nat /\ r \in Nat \ {0} /\ FirstBlock < EndMarker
      /\ FirstBlock + r = EndMarker
  BY HeapConstants
<1>2. Aligned(FirstBlock) /\ Aligned(r)
  <2>1. FirstBlock \in Int /\ EndMarker \in Int /\ Aligned(FirstBlock) /\ Aligned(EndMarker)
    BY HeapConstants
  <2>. QED BY <2>1, AlignedSums
<1>. HIDE DEF r
<1>3. DOMAIN size = {FirstBlock} /\ size[FirstBlock] = r /\ size \in [{FirstBlock} -> Nat \ {0}]
  BY <1>1
<1>. HIDE DEF size
<1>4. Tiles(size)
  <2>1. \A b, c \in DOMAIN size : b < c => b + size[b] <= c
    BY <1>1, <1>3
  <2>2. \A b \in DOMAIN size : /\ b + size[b] \in DOMAIN size \union {EndMarker}
                               /\ Aligned(b) /\ Aligned(size[b])
    BY <1>1, <1>2, <1>3
  <2>3. DOMAIN size \in SUBSET (FirstBlock .. EndMarker - 1)
    BY <1>1, <1>3
  <2>. QED BY <1>3, <2>1, <2>2, <2>3 DEF Tiles
<1>5. Lists(<<FirstBlock>>, {FirstBlock})
  <2>1. <<FirstBlock>> \in Seq({FirstBlock}) /\ DOMAIN <<FirstBlock>> = {1}
        /\ <<FirstBlock>>[1] = FirstBlock
    OBVIOUS
  <2>. QED BY <1>1, <2>1 DEF Lists
<1>6. Apart({FirstBlock}, size)
  BY <1>1, <1>3 DEF Apart
<1>7. Whole(<<FirstBlock>>, size, {FirstBlock}, {})
  BY <1>3, <1>4, <1>5, <1>6 DEF Whole
<1>8. Cardinality(BytesOf({FirstBlock}, size)) = r
  <2>1. Cardinality(BytesOf({} \union {FirstBlock}, size)) =
            Cardinality(BytesOf({}, size)) + size[FirstBlock]
    <3>1. {} \in SUBSET DOMAIN size /\ FirstBlock \in DOMAIN size \ {}
      BY <1>3
    <3>. QED BY <1>4, <3>1, BytesAdd
  <2>2. BytesOf({}, size) = {}
    BY DEF BytesOf
  <2>3. Cardinality(BytesOf({}, size)) = 0
    BY <2>2, FS_EmptySet
  <2>4. {} \union {FirstBlock} = {FirstBlock}
    OBVIOUS
  <2>. QED BY <1>1, <1>3, <2>1, <2>3, <2>4
<1>9. HeapOK(<<FirstBlock>>, size, r, r, {FirstBlock}, {})
  BY <1>1, <1>7, <1>8 DEF HeapOK
<1>. QED BY <1>9 DEF r, size

LEMMA HeapIsRecord ==
    Heap = [list |-> Heap.list, size |-> Heap.size, bytes |-> Heap.bytes,
            minimum |-> Heap.minimum]
<1>1. CASE pxEnd # NULL
  BY <1>1 DEF Heap
<1>2. CASE pxEnd = NULL
  BY <1>2 DEF Heap
<1>. QED BY <1>1, <1>2

LEMMA InitHInv == Init => HInv
<1>. SUFFICES ASSUME Init PROVE HInv
  OBVIOUS
<1>1. pxEnd = NULL /\ Untouched /\ allocated = {} /\ Taken = {} /\ DOMAIN given = {}
  BY DEF Init, Untouched, Taken
<1>2. /\ Heap.list = <<FirstBlock>>
      /\ Heap.size = [b \in {FirstBlock} |-> EndMarker - FirstBlock]
      /\ Heap.bytes = EndMarker - FirstBlock /\ Heap.minimum = EndMarker - FirstBlock
  BY <1>1 DEF Heap
<1>3. HeapOK(Heap.list, Heap.size, Heap.bytes, Heap.minimum, {FirstBlock}, Taken)
  BY <1>1, <1>2, InitialHeap
<1>4. GivenOK(Heap.size, allocated, given)
  BY <1>1 DEF GivenOK
<1>. QED BY <1>1, <1>3, <1>4 DEF HInv, Untouched

\* A step that sets the heap.
LEMMA SetHeapKeeps ==
    ASSUME NEW rec, NEW kept, SetHeap(rec), Becomes(rec, Heap.size, kept, Taken'),
           (allocated \intersect releasing = {})', GivenOK(rec.size, allocated', given')
    PROVE  HInv'
<1>1. PICK l, s, y, m, F :
          /\ rec = [list |-> l, size |-> s, bytes |-> y, minimum |-> m]
          /\ HeapOK(l, s, y, m, F, Taken')
  BY DEF Becomes
<1>2. /\ pxEnd' = EndMarker /\ freeList' = l /\ xBlockSize' = s /\ xFreeBytesRemaining' = y
      /\ xMinimumEverFreeBytesRemaining' = m
  BY <1>1 DEF SetHeap
<1>3. pxEnd' # NULL
  BY <1>2, HeapConstants DEF NULL
<1>4. (Heap.list)' = l /\ (Heap.size)' = s /\ (Heap.bytes)' = y /\ (Heap.minimum)' = m
  BY <1>2, <1>3 DEF Heap
<1>5. (\E G : HeapOK(Heap.list, Heap.size, Heap.bytes, Heap.minimum, G, Taken))'
  BY <1>1, <1>4
<1>6. GivenOK(Heap.size, allocated, given)'
  <2>1. rec.size = s
    BY <1>1
  <2>. QED BY <1>4, <2>1 DEF GivenOK
<1>. QED BY <1>2, <1>3, <1>5, <1>6 DEF HInv

\* Pointers to different blocks differ.
LEMMA PointersDiffer ==
    ASSUME NEW b \in Nat, NEW c \in Nat, b # c
    PROVE  Pointer(b) # Pointer(c)
  BY HeapConstants DEF Pointer

LEMMA TakenTypes ==
    ASSUME NEW list, NEW size, NEW bytes, NEW minimum, NEW F, NEW taken,
           HeapOK(list, size, bytes, minimum, F, taken)
    PROVE  /\ Tiles(size) /\ Lists(list, F) /\ taken \in SUBSET DOMAIN size
           /\ \A b \in taken : b \in Nat /\ b \notin F
           /\ \A b \in F : b \in Nat /\ b \notin taken
<1>1. /\ Tiles(size) /\ Lists(list, F) /\ DOMAIN size = F \union taken
      /\ F \intersect taken = {}
  BY DEF HeapOK, Whole
<1>2. \A b \in DOMAIN size : b \in Nat
  BY <1>1, BlockTypes
<1>. QED BY <1>1, <1>2

LEMMA AllocateKeeps ==
    ASSUME HInv, NEW n \in WantedSizes, Allocate(n)
    PROVE  HInv'
<1>. DEFINE fits == Fits(Heap, Wanted(n))
            i == CHOOSE k \in fits : \A j \in fits : k <= j
            b == Heap.list[i]
            h == [list |-> RemoveAt(Heap.list, i), size |-> Heap.size, bytes |-> Heap.bytes,
                  minimum |-> Heap.minimum]
            r == Count(Split(h, b, Wanted(n)), b, Wanted(n))
<1>1. PICK F : HeapOK(Heap.list, Heap.size, Heap.bytes, Heap.minimum, F, Taken)
  BY DEF HInv
<1>2. n \in Nat /\ Wanted(n) > 0 /\ fits # {}
  BY HeapAssumption DEF Allocate
<1>3. Wanted(n) \in Nat \ {0} /\ Aligned(Wanted(n)) /\ n + xHeapStructSize <= Wanted(n)
  <2>1. ~(n = 0 \/ n >= xBlockAllocatedBit)
    BY <1>2, WantedIs
  <2>2. n > 0 /\ n < xBlockAllocatedBit
    BY <1>2, <2>1, HeapConstants
  <2>. QED BY <1>2, <2>2, WantedIs
<1>4. Lists(Heap.list, F) /\ Tiles(Heap.size)
  BY <1>1, TakenTypes
<1>5. i \in fits /\ i \in DOMAIN Heap.list /\ Heap.size[b] >= Wanted(n)
  <2>1. \A k \in fits : k \in DOMAIN Heap.list /\ Heap.size[Heap.list[k]] >= Wanted(n)
    BY DEF Fits
  <2>2. DOMAIN Heap.list \in SUBSET Nat
    BY <1>4, ListTypes
  <2>3. fits \in SUBSET Nat
    BY <2>1, <2>2
  <2>4. i \in fits
    <3>. HIDE DEF fits
    <3>1. \E k \in fits : \A j \in fits : k <= j
      BY <1>2, <2>3, LeastElement
    <3>. QED BY <3>1
  <2>. QED BY <2>1, <2>4
<1>6. b \in F /\ b \in Nat /\ b \notin Taken /\ Heap.size[b] \in Nat /\ \A c \in Taken : c \in Nat
  <2>1. b \in F
    BY <1>4, <1>5, ListTypes
  <2>2. F \in SUBSET DOMAIN Heap.size
    BY <1>1 DEF HeapOK, Whole
  <2>. HIDE DEF b
  <2>. QED BY <1>1, <1>4, <2>1, <2>2, TakenTypes, BlockTypes
<1>7. SetHeap(r) /\ allocated' = allocated \union {b} /\ releasing' = releasing
      /\ given' = With(given, Pointer(b), n)
  <2>1. [Heap EXCEPT !.list = RemoveAt(@, i)] = h
    <3>. HIDE DEF i
    <3>. QED BY HeapIsRecord
  <2>. QED BY <2>1 DEF Allocate
<1>8. Becomes(r, Heap.size, Taken, Taken \union {b}) /\ Wanted(n) <= r.size[b]
  <2>1. Wanted(n) <= Heap.size[b]
    BY <1>3, <1>5, <1>6
  <2>. HIDE DEF i
  <2>. QED BY <1>1, <1>3, <1>5, <2>1, AllocationIs
<1>. HIDE DEF fits, i, b, h, r
<1>9. Taken' = Taken \union {b} /\ (allocated \intersect releasing = {})'
  <2>1. Taken' = Taken \union {b}
    BY <1>7 DEF Taken
  <2>2. allocated \intersect releasing = {} /\ b \notin releasing
    BY <1>6 DEF HInv, Taken
  <2>. QED BY <1>7, <2>1, <2>2
<1>10. GivenOK(r.size, allocated', given')
  <2>1. GivenOK(Heap.size, allocated, given) /\ allocated \in SUBSET Taken
    BY DEF HInv, Taken
  <2>2. /\ DOMAIN given' = DOMAIN given \union {Pointer(b)} /\ given'[Pointer(b)] = n
        /\ \A p \in DOMAIN given \ {Pointer(b)} : given'[p] = given[p]
    BY <1>7 DEF With
  <2>3. DOMAIN given' = {Pointer(c) : c \in allocated'}
    BY <1>7, <2>1, <2>2 DEF GivenOK
  <2>4. r.size[b] \in Nat /\ \A c \in Taken : r.size[c] = Heap.size[c]
    <3>1. PICK l, s, y, m, G :
              /\ r = [list |-> l, size |-> s, bytes |-> y, minimum |-> m]
              /\ HeapOK(l, s, y, m, G, Taken \union {b})
              /\ \A d \in Taken : s[d] = Heap.size[d]
      BY <1>8 DEF Becomes
    <3>2. r.size = s
      BY <3>1
    <3>3. Tiles(s) /\ b \in DOMAIN s
      BY <3>1, TakenTypes
    <3>4. s[b] \in Nat
      BY <3>3, BlockTypes
    <3>. QED BY <3>1, <3>2, <3>4
  <2>5. ASSUME NEW c \in allocated'
        PROVE  given'[Pointer(c)] \in Nat /\ given'[Pointer(c)] + xHeapStructSize <= r.size[c]
    <3>1. CASE c = b
      BY <1>2, <1>3, <1>8, <2>2, <2>4, <3>1, HeapConstants
    <3>2. CASE c # b
      <4>1. c \in allocated /\ c \in Taken /\ c \in Nat
        BY <1>6, <1>7, <2>1, <3>2
      <4>2. Pointer(c) # Pointer(b)
        BY <1>6, <3>2, <4>1, PointersDiffer
      <4>3. /\ Pointer(c) \in DOMAIN given /\ given[Pointer(c)] \in Nat
            /\ given[Pointer(c)] + xHeapStructSize <= Heap.size[c]
        BY <2>1, <4>1 DEF GivenOK
      <4>4. given'[Pointer(c)] = given[Pointer(c)]
        BY <2>2, <4>2, <4>3
      <4>. QED BY <2>4, <4>1, <4>3, <4>4
    <3>. QED BY <3>1, <3>2
  <2>. QED BY <2>3, <2>5 DEF GivenOK
<1>. QED BY <1>7, <1>8, <1>9, <1>10, SetHeapKeeps

LEMMA FailToAllocateKeeps ==
    ASSUME HInv, NEW n \in WantedSizes, FailToAllocate(n)
    PROVE  HInv'
<1>1. SetHeap(Heap) /\ allocated' = allocated /\ releasing' = releasing /\ given' = given
  BY DEF FailToAllocate
<1>2. PICK F : HeapOK(Heap.list, Heap.size, Heap.bytes, Heap.minimum, F, Taken)
  BY DEF HInv
<1>3. Becomes(Heap, Heap.size, {}, Taken)
  BY <1>2, HeapIsRecord DEF Becomes
<1>4. Taken' = Taken /\ (allocated \intersect releasing = {})'
  BY <1>1 DEF HInv, Taken
<1>5. GivenOK(Heap.size, allocated', given')
  BY <1>1 DEF HInv
<1>. QED BY <1>1, <1>3, <1>4, <1>5, SetHeapKeeps

LEMMA MarkKeeps ==
    ASSUME HInv, NEW p \in DOMAIN given, Mark(p)
    PROVE  HInv'
<1>. DEFINE b == p - xHeapStructSize
<1>1. /\ b \in allocated /\ allocated' = allocated \ {b} /\ releasing' = releasing \union {b}
      /\ given' = Without(given, {p}) /\ UNCHANGED heapVars
  BY DEF Mark
<1>2. GivenOK(Heap.size, allocated, given) /\ allocated \intersect releasing = {}
  BY DEF HInv
<1>3. PICK F : HeapOK(Heap.list, Heap.size, Heap.bytes, Heap.minimum, F, Taken)
  BY DEF HInv
<1>4. \A c \in allocated : c \in Nat
  BY <1>3, TakenTypes DEF Taken
<1>5. b \in Nat /\ p = Pointer(b)
  <2>1. PICK c \in allocated : p = Pointer(c)
    BY <1>2 DEF GivenOK
  <2>2. b = c
    BY <1>4, <2>1, HeapConstants DEF Pointer
  <2>. QED BY <1>4, <2>1, <2>2
<1>. HIDE DEF b
<1>6. /\ pxEnd' = pxEnd /\ freeList' = freeList /\ xBlockSize' = xBlockSize
      /\ xFreeBytesRemaining' = xFreeBytesRemaining
      /\ xMinimumEverFreeBytesRemaining' = xMinimumEverFreeBytesRemaining
  BY <1>1 DEF heapVars
<1>7. Heap' = Heap /\ Taken' = Taken
  <2>1. Heap' = Heap
    BY <1>6 DEF Heap
  <2>. QED BY <1>1, <2>1 DEF Taken
<1>8. (allocated \intersect releasing = {})'
  BY <1>1, <1>2
<1>9. GivenOK(Heap.size, allocated, given)'
  <2>1. /\ DOMAIN given' = DOMAIN given \ {p}
        /\ \A q \in DOMAIN given \ {p} : given'[q] = given[q]
    BY <1>1 DEF Without
  <2>2. \A c \in allocated : Pointer(c) = p <=> c = b
    BY <1>4, <1>5, PointersDiffer
  <2>3. DOMAIN given' = {Pointer(c) : c \in allocated'}
    BY <1>1, <1>2, <2>1, <2>2 DEF GivenOK
  <2>4. ASSUME NEW c \in allocated'
        PROVE  given'[Pointer(c)] \in Nat
               /\ given'[Pointer(c)] + xHeapStructSize <= Heap.size[c]
    <3>1. c \in allocated /\ Pointer(c) \in DOMAIN given \ {p}
      BY <1>1, <1>2, <2>2 DEF GivenOK
    <3>2. given'[Pointer(c)] = given[Pointer(c)]
      BY <2>1, <3>1
    <3>. QED BY <1>2, <3>1, <3>2 DEF GivenOK
  <2>5. GivenOK(Heap.size, allocated', given')
    BY <2>3, <2>4 DEF GivenOK
  <2>. QED BY <1>7, <2>5
<1>10. pxEnd # NULL
  BY <1>1 DEF HInv, Untouched
<1>11. (\E G : HeapOK(Heap.list, Heap.size, Heap.bytes, Heap.minimum, G, Taken))'
  BY <1>3, <1>7
<1>12. (pxEnd \in {NULL, EndMarker})' /\ (pxEnd = NULL => Untouched)'
  BY <1>6, <1>10 DEF HInv
<1>. QED BY <1>8, <1>9, <1>11, <1>12 DEF HInv

LEMMA ReleaseKeeps ==
    ASSUME HInv, NEW b \in releasing, Release(b)
    PROVE  HInv'
<1>. DEFINE h == [list |-> Heap.list, size |-> Heap.size, bytes |-> Heap.bytes + Heap.size[b],
                  minimum |-> Heap.minimum]
            r == prvInsertBlockIntoFreeList(h, b)
<1>1. PICK F : HeapOK(Heap.list, Heap.size, Heap.bytes, Heap.minimum, F, Taken)
  BY DEF HInv
<1>2. pxEnd # NULL /\ b \in Taken /\ GivenOK(Heap.size, allocated, given)
      /\ allocated \intersect releasing = {}
  BY DEF HInv, Untouched, Taken
<1>3. [Heap EXCEPT !.bytes = xFreeBytesRemaining + xBlockSize[b]] = h
  <2>1. Heap.bytes = xFreeBytesRemaining /\ Heap.size = xBlockSize
    BY <1>2 DEF Heap
  <2>. QED BY <2>1, HeapIsRecord
<1>4. SetHeap(r) /\ releasing' = releasing \ {b} /\ allocated' = allocated /\ given' = given
  BY <1>3 DEF Release
<1>5. Becomes(r, Heap.size, Taken \ {b}, Taken \ {b})
  BY <1>1, <1>2, ReleaseIs
<1>. HIDE DEF r, h
<1>6. Taken' = Taken \ {b} /\ (allocated \intersect releasing = {})'
  BY <1>2, <1>4 DEF Taken
<1>7. GivenOK(r.size, allocated', given')
  <2>1. PICK l, s, y, m, G :
            /\ r = [list |-> l, size |-> s, bytes |-> y, minimum |-> m]
            /\ HeapOK(l, s, y, m, G, Taken \ {b})
            /\ \A d \in Taken \ {b} : s[d] = Heap.size[d]
    BY <1>5 DEF Becomes
  <2>2. r.size = s
    BY <2>1
  <2>3. \A c \in allocated : r.size[c] = Heap.size[c]
    BY <1>2, <2>1, <2>2 DEF Taken
  <2>. QED BY <1>2, <1>4, <2>3 DEF GivenOK
<1>. QED BY <1>4, <1>5, <1>6, <1>7, SetHeapKeeps

LEMMA NextHInv == HInv /\ [Next]_vars => HInv'
<1>. SUFFICES ASSUME HInv, [Next]_vars PROVE HInv'
  OBVIOUS
<1>1. CASE \E n \in WantedSizes : pvPortMalloc(n)
  BY <1>1, AllocateKeeps, FailToAllocateKeeps DEF pvPortMalloc
<1>2. CASE \E p \in DOMAIN given : Mark(p)
  BY <1>2, MarkKeeps
<1>3. CASE \E b \in releasing : Release(b)
  BY <1>3, ReleaseKeeps
<1>4. CASE UNCHANGED vars
  BY <1>4 DEF vars, heapVars, HInv, Untouched, Taken, Heap, GivenOK
<1>. QED BY <1>1, <1>2, <1>3, <1>4 DEF Next

\* The invariant holds in every behaviour.
LEMMA HeapInvariant == Spec => []HInv
  BY InitHInv, NextHInv, PTL DEF Spec
---------------------------------------------------------------------------
(* What the invariant says *)

LEMMA UsedHeap ==
    ASSUME HInv, pxEnd # NULL
    PROVE  /\ pxEnd = EndMarker
           /\ HeapOK(freeList, xBlockSize, xFreeBytesRemaining,
                     xMinimumEverFreeBytesRemaining, Free, Taken)
           /\ GivenOK(xBlockSize, allocated, given)
<1>1. /\ Heap.list = freeList /\ Heap.size = xBlockSize /\ Heap.bytes = xFreeBytesRemaining
      /\ Heap.minimum = xMinimumEverFreeBytesRemaining
  BY DEF Heap
<1>2. PICK F : HeapOK(Heap.list, Heap.size, Heap.bytes, Heap.minimum, F, Taken)
  BY DEF HInv
<1>3. F = Free
  <2>1. Lists(freeList, F)
    BY <1>1, <1>2, TakenTypes
  <2>. QED BY <2>1 DEF Lists, Free, Range
<1>. QED BY <1>1, <1>2, <1>3 DEF HInv

LEMMA UnusedHeap ==
    ASSUME HInv, pxEnd = NULL
    PROVE  Untouched /\ Free = {} /\ Blocks = {} /\ DOMAIN given = {}
<1>1. Untouched /\ GivenOK(Heap.size, allocated, given)
  BY DEF HInv
<1>2. Free = {} /\ Blocks = {}
  BY <1>1 DEF Untouched, Free, Range, Blocks
<1>3. DOMAIN given = {}
  BY <1>1 DEF GivenOK, Untouched
<1>. QED BY <1>1, <1>2, <1>3

LEMMA HInvWhole == HInv => HeapIsWhole
<1>. SUFFICES ASSUME HInv PROVE HeapIsWhole
  OBVIOUS
<1>1. CASE pxEnd = NULL
  <2>1. Untouched /\ Free = {} /\ Blocks = {} /\ DOMAIN given = {}
    BY <1>1, UnusedHeap
  <2>2. HeapTypeOK
    BY <1>1, <2>1 DEF HeapTypeOK, Untouched
  <2>3. FreeBytesAreCounted
    <3>1. UNION {Bytes(b, xBlockSize[b]) : b \in Free} = {}
      BY <2>1
    <3>2. Cardinality(UNION {Bytes(b, xBlockSize[b]) : b \in Free}) = 0
      BY <3>1, FS_EmptySet
    <3>. QED BY <2>1, <3>2 DEF FreeBytesAreCounted, Untouched
  <2>. QED BY <1>1, <2>1, <2>2, <2>3 DEF HeapIsWhole, BlocksTileTheHeap, FreeBlocksAreJoined
<1>2. CASE pxEnd # NULL
  <2>1. /\ pxEnd = EndMarker
        /\ HeapOK(freeList, xBlockSize, xFreeBytesRemaining, xMinimumEverFreeBytesRemaining,
                  Free, Taken)
        /\ GivenOK(xBlockSize, allocated, given)
    BY <1>2, UsedHeap
  <2>2. /\ Tiles(xBlockSize) /\ Lists(freeList, Free) /\ Apart(Free, xBlockSize)
        /\ DOMAIN xBlockSize = Free \union Taken /\ Free \intersect Taken = {}
        /\ xFreeBytesRemaining = Cardinality(BytesOf(Free, xBlockSize))
        /\ xMinimumEverFreeBytesRemaining <= xFreeBytesRemaining
    BY <2>1 DEF HeapOK, Whole
  <2>3. HeapTypeOK
    <3>1. Blocks \subseteq FirstBlock .. EndMarker - 1
      BY <2>2 DEF Blocks, Tiles
    <3>2. /\ Blocks = Free \union allocated \union releasing /\ Free \intersect allocated = {}
          /\ (Free \union allocated) \intersect releasing = {}
      BY <2>2 DEF Blocks, Taken, HInv
    <3>3. \A i, j \in DOMAIN freeList : i < j => freeList[i] < freeList[j]
      BY <2>2 DEF Lists
    <3>4. ASSUME NEW b \in Blocks
          PROVE  xBlockSize[b] % portBYTE_ALIGNMENT = 0 /\ xBlockSize[b] < xBlockAllocatedBit
      <4>1. b \in DOMAIN xBlockSize
        BY DEF Blocks
      <4>2. /\ xBlockSize[b] \in Int /\ Aligned(xBlockSize[b])
            /\ xBlockSize[b] < xBlockAllocatedBit
        BY <2>2, <4>1, BlockTypes
      <4>. QED BY <4>2, AlignedIsMod
    <3>. QED BY <2>1, <3>1, <3>2, <3>3, <3>4 DEF HeapTypeOK, GivenOK
  <2>4. BlocksTileTheHeap
    <3>. SUFFICES ASSUME NEW x \in Bytes(FirstBlock, EndMarker - FirstBlock)
                  PROVE  Cardinality({b \in Blocks : x \in Bytes(b, xBlockSize[b])}) = 1
      BY DEF BlocksTileTheHeap
    <3>1. x \in FirstBlock .. EndMarker - 1
      BY HeapConstants DEF Bytes
    <3>. QED BY <2>2, <3>1, BytesAreCovered DEF Blocks
  <2>5. FreeBlocksAreJoined
    BY <2>2 DEF FreeBlocksAreJoined, Apart
  <2>6. FreeBytesAreCounted
    BY <2>2 DEF FreeBytesAreCounted, BytesOf
  <2>. QED BY <2>3, <2>4, <2>5, <2>6 DEF HeapIsWhole
<1>. QED BY <1>1, <1>2

(***************************************************************************)
(* The heap stays whole: the blocks tile it, in order, with sane headers;  *)
(* free neighbours are joined; the free bytes are counted.                 *)
(***************************************************************************)
THEOREM HeapStaysWhole == Spec => []HeapIsWhole
  BY HeapInvariant, HInvWhole, PTL

LEMMA HInvNotShared == HInv => MemoryIsNotShared
<1>. SUFFICES ASSUME HInv, NEW p \in DOMAIN given
              PROVE  /\ p % portBYTE_ALIGNMENT = 0
                     /\ Bytes(p, given[p]) \subseteq Bytes(ucHeap, configTOTAL_HEAP_SIZE)
                     /\ \A q \in DOMAIN given \ {p} :
                            Bytes(p, given[p]) \intersect Bytes(q, given[q]) = {}
                     /\ \A b \in Blocks \union {pxEnd} :
                            Bytes(p, given[p]) \intersect Bytes(b, xHeapStructSize) = {}
  BY DEF MemoryIsNotShared
<1>1. pxEnd # NULL
  BY UnusedHeap
<1>2. /\ pxEnd = EndMarker
      /\ HeapOK(freeList, xBlockSize, xFreeBytesRemaining, xMinimumEverFreeBytesRemaining,
                Free, Taken)
      /\ GivenOK(xBlockSize, allocated, given)
  BY <1>1, UsedHeap
<1>3. Tiles(xBlockSize) /\ allocated \in SUBSET DOMAIN xBlockSize
  BY <1>2, TakenTypes DEF Taken
\* where the memory of an owner is
<1>4. ASSUME NEW q \in DOMAIN given
      PROVE  \E c \in allocated :
                 /\ q = c + xHeapStructSize /\ c \in Nat /\ given[q] \in Nat
                 /\ q + given[q] <= c + xBlockSize[c] /\ xBlockSize[c] \in Nat
  <2>1. PICK c \in allocated : q = Pointer(c)
    BY <1>2 DEF GivenOK
  <2>2. given[q] \in Nat /\ given[q] + xHeapStructSize <= xBlockSize[c]
    BY <1>2, <2>1 DEF GivenOK
  <2>3. c \in Nat /\ xBlockSize[c] \in Nat
    BY <1>3, BlockTypes
  <2>4. q = c + xHeapStructSize
    BY <2>1 DEF Pointer
  <2>5. q + given[q] <= c + xBlockSize[c]
    BY <2>2, <2>3, <2>4, HeapConstants
  <2>. QED BY <2>2, <2>3, <2>4, <2>5
<1>5. PICK c \in allocated :
          /\ p = c + xHeapStructSize /\ c \in Nat /\ given[p] \in Nat
          /\ p + given[p] <= c + xBlockSize[c] /\ xBlockSize[c] \in Nat
  BY <1>4
<1>6. /\ FirstBlock <= c /\ c + xBlockSize[c] <= EndMarker /\ Aligned(c)
      /\ c \in DOMAIN xBlockSize
  BY <1>3, BlockTypes
<1>7. p % portBYTE_ALIGNMENT = 0
  <2>1. c \in Int /\ xHeapStructSize \in Int /\ Aligned(xHeapStructSize)
    BY <1>5, HeapConstants
  <2>2. p \in Int /\ Aligned(p)
    BY <1>5, <1>6, <2>1, AlignedSums
  <2>. QED BY <2>2, AlignedIsMod
<1>8. Bytes(p, given[p]) \subseteq Bytes(ucHeap, configTOTAL_HEAP_SIZE)
  BY <1>5, <1>6, HeapConstants, HeapAssumption DEF Bytes
<1>9. ASSUME NEW q \in DOMAIN given \ {p}
      PROVE  Bytes(p, given[p]) \intersect Bytes(q, given[q]) = {}
  <2>1. PICK d \in allocated :
            /\ q = d + xHeapStructSize /\ d \in Nat /\ given[q] \in Nat
            /\ q + given[q] <= d + xBlockSize[d] /\ xBlockSize[d] \in Nat
    BY <1>4
  <2>2. c < d \/ d < c
    BY <1>5, <1>9, <2>1
  <2>3. c < d => c + xBlockSize[c] <= d
    BY <1>3, <1>6 DEF Tiles
  <2>4. d < c => d + xBlockSize[d] <= c
    BY <1>3, <1>6 DEF Tiles
  <2>. QED BY <1>5, <2>1, <2>2, <2>3, <2>4, HeapConstants DEF Bytes
<1>10. ASSUME NEW d \in Blocks \union {pxEnd}
       PROVE  Bytes(p, given[p]) \intersect Bytes(d, xHeapStructSize) = {}
  <2>1. CASE d \in Blocks
    <3>1. d \in DOMAIN xBlockSize /\ d \in Nat
      BY <1>3, <2>1, BlockTypes DEF Blocks
    <3>2. c < d => c + xBlockSize[c] <= d
      BY <1>3, <1>6, <3>1 DEF Tiles
    <3>. QED BY <1>5, <3>1, <3>2, HeapConstants DEF Bytes
  <2>2. CASE d = pxEnd
    BY <1>2, <1>5, <1>6, <2>2, HeapConstants DEF Bytes
  <2>. QED BY <2>1, <2>2
<1>. QED BY <1>7, <1>8, <1>9, <1>10

(***************************************************************************)
(* Memory that was given out is aligned, inside of the heap, as large as   *)
(* was asked for, and overlaps neither other memory given out nor a header *)
(* that pvPortMalloc and vPortFree write.                                  *)
(***************************************************************************)
THEOREM MemoryIsNeverShared == Spec => []MemoryIsNotShared
  BY HeapInvariant, HInvNotShared, PTL

LEMMA HInvFails == HInv => FailsOnlyForWantOfRoom
<1>. SUFFICES ASSUME HInv, NEW n \in WantedSizes, n > 0, NEW b \in Free,
                     xBlockSize[b] >= n + xHeapStructSize
              PROVE  Wanted(n) > 0 /\ Fits(Heap, Wanted(n)) # {}
  BY DEF FailsOnlyForWantOfRoom
<1>1. pxEnd # NULL
  BY UnusedHeap
<1>2. HeapOK(freeList, xBlockSize, xFreeBytesRemaining, xMinimumEverFreeBytesRemaining,
             Free, Taken)
  BY <1>1, UsedHeap
<1>3. /\ Tiles(xBlockSize) /\ Lists(freeList, Free) /\ Free \in SUBSET DOMAIN xBlockSize
      /\ xFreeBytesRemaining = Cardinality(BytesOf(Free, xBlockSize))
  BY <1>2 DEF HeapOK, Whole
<1>4. /\ xBlockSize[b] \in Nat /\ xBlockSize[b] < xBlockAllocatedBit
      /\ Aligned(xBlockSize[b])
  BY <1>3, BlockTypes
<1>5. n \in Nat /\ n < xBlockAllocatedBit
  BY <1>4, HeapConstants, HeapAssumption
<1>6. /\ Wanted(n) \in Nat \ {0} /\ Wanted(n) = AlignUp(n + xHeapStructSize)
  BY <1>5, WantedIs
<1>7. Wanted(n) <= xBlockSize[b]
  <2>. DEFINE x == n + xHeapStructSize
  <2>1. x \in Nat /\ x <= xBlockSize[b]
    BY <1>4, <1>5, HeapConstants
  <2>2. AlignUp(x) <= xBlockSize[b]
    <3>. HIDE DEF x
    <3>. QED BY <1>4, <2>1, AlignUpIs
  <2>. QED BY <1>6, <2>2
<1>8. xBlockSize[b] <= xFreeBytesRemaining /\ xFreeBytesRemaining \in Nat
  <2>. DEFINE G == Free \ {b}
  <2>1. G \in SUBSET DOMAIN xBlockSize /\ b \in DOMAIN xBlockSize \ G /\ G \union {b} = Free
    BY <1>3
  <2>. HIDE DEF G
  <2>2. Cardinality(BytesOf(G \union {b}, xBlockSize)) =
            Cardinality(BytesOf(G, xBlockSize)) + xBlockSize[b]
    BY <1>3, <2>1, BytesAdd
  <2>3. Cardinality(BytesOf(G, xBlockSize)) \in Nat
    BY <1>3, <2>1, BytesOfBlocks, FS_CardinalityType
  <2>4. xFreeBytesRemaining = Cardinality(BytesOf(G, xBlockSize)) + xBlockSize[b]
    BY <1>3, <2>1, <2>2
  <2>. QED BY <1>4, <2>3, <2>4
<1>9. PICK i \in DOMAIN freeList : freeList[i] = b
  BY <1>3 DEF Lists
<1>10. Heap.list = freeList /\ Heap.size = xBlockSize /\ Heap.bytes = xFreeBytesRemaining
  BY <1>1 DEF Heap
<1>11. i \in Fits(Heap, Wanted(n))
  BY <1>4, <1>6, <1>7, <1>8, <1>9, <1>10 DEF Fits
<1>. QED BY <1>6, <1>11

(***************************************************************************)
(* pvPortMalloc fails only if no free block is large enough, counted       *)
(* without wrapping.                                                       *)
(***************************************************************************)
THEOREM FailsOnlyForRoom == Spec => []FailsOnlyForWantOfRoom
  BY HeapInvariant, HInvFails, PTL
===========================================================================
