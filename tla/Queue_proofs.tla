---------------------------- MODULE Queue_proofs --------------------------
(***************************************************************************)
(* Proofs about Queue, for every set of tasks, queues and mutexes, every   *)
(* length of a queue and every set of calls: what is stored comes out as   *)
(* it went in, nobody waits for an item or for room that is there, no call *)
(* times out early, the inherited priority is that of a holder, and a      *)
(* more urgent task that is woken runs.                                    *)
(***************************************************************************)
EXTENDS Queue, Tasks_proofs, SequenceTheorems

\* What the first field of a call says of the others.
SendCall ==
    [op : {"send"}, q : Queue, item : Item \union {"nothing"}, position : CopyPosition,
     wait : Tick, timed : BOOLEAN, overflows : Nat, entered : Tick, expired : BOOLEAN]
ReceiveCall ==
    [op : {"receive"}, q : Queue, mode : ReceiveMode,
     wait : Tick, timed : BOOLEAN, overflows : Nat, entered : Tick, expired : BOOLEAN]

CallType == {NoCall} \union SendCall \union ReceiveCall

LEMMA CallTypes ==
    ASSUME NEW c \in CallType
    PROVE  /\ c # NoCall =>
                  /\ c.op \in {"send", "receive"}
                  /\ c.q \in Queue /\ c.wait \in Tick /\ c.timed \in BOOLEAN
                  /\ c.overflows \in Nat /\ c.entered \in Tick /\ c.expired \in BOOLEAN
           /\ c.op = "send" => c \in SendCall
           /\ c.op = "receive" => c \in ReceiveCall
           /\ c.op \in {"none", "send", "receive"} /\ (c = NoCall <=> c.op = "none")
<1>1. CASE c = NoCall
  BY <1>1 DEF NoCall
<1>2. CASE c \in SendCall
  BY <1>2 DEF SendCall, NoCall
<1>3. CASE c \in ReceiveCall
  BY <1>3 DEF ReceiveCall, NoCall
<1>. QED BY <1>1, <1>2, <1>3 DEF CallType

\* The fields that the loop of a call changes.
LEMMA CallFields ==
    ASSUME NEW c \in CallType, c # NoCall, NEW w \in Tick, NEW timed \in BOOLEAN, NEW n \in Nat,
           NEW e \in Tick, NEW x \in BOOLEAN
    PROVE  /\ [c EXCEPT !.expired = x] \in CallType
           /\ [c EXCEPT !.timed = timed, !.overflows = n, !.entered = e] \in CallType
           /\ [c EXCEPT !.wait = w, !.overflows = n, !.entered = e] \in CallType
<1>1. CASE c \in SendCall
  <2>1. /\ [c EXCEPT !.expired = x] \in SendCall
        /\ [c EXCEPT !.timed = timed, !.overflows = n, !.entered = e] \in SendCall
        /\ [c EXCEPT !.wait = w, !.overflows = n, !.entered = e] \in SendCall
    BY <1>1 DEF SendCall
  <2>. QED BY <2>1 DEF CallType
<1>2. CASE c \in ReceiveCall
  <2>1. /\ [c EXCEPT !.expired = x] \in ReceiveCall
        /\ [c EXCEPT !.timed = timed, !.overflows = n, !.entered = e] \in ReceiveCall
        /\ [c EXCEPT !.wait = w, !.overflows = n, !.entered = e] \in ReceiveCall
    BY <1>2 DEF ReceiveCall
  <2>. QED BY <2>1 DEF CallType
<1>. QED BY <1>1, <1>2 DEF CallType
---------------------------------------------------------------------------
(* The lists of waiters *)

InList(s, t) == \E i \in DOMAIN s : s[i] = t
Distinct(s) == \A i, j \in DOMAIN s : i # j => s[i] # s[j]

\* The equations of the recursion in Staying, up to the place m.
Solves(F, s, list, l, m) ==
    /\ F[0] = <<>>
    /\ \A n \in 1 .. m :
           F[n] = IF list[s[n]] = l THEN Append(F[n - 1], s[n]) ELSE F[n - 1]

\* They have a solution.
LEMMA StayingIsDefined ==
    ASSUME NEW s \in Seq(Task), NEW list, NEW l
    PROVE  \E F \in [0 .. Len(s) -> Seq(Task)] :
               Staying(s, list, l) = F[Len(s)] /\ Solves(F, s, list, l, Len(s))
<1>. USE DEF Solves
<1>. DEFINE Solved(m) == \E F \in [0 .. m -> Seq(Task)] : Solves(F, s, list, l, m)
            S == {m \in Nat : m <= Len(s) => Solved(m)}
<1>1. 0 \in S
  <2>1. /\ [n \in 0 .. 0 |-> <<>>] \in [0 .. 0 -> Seq(Task)]
        /\ Solves([n \in 0 .. 0 |-> <<>>], s, list, l, 0)
    OBVIOUS
  <2>. QED BY <2>1
<1>2. ASSUME NEW m \in S PROVE m + 1 \in S
  <2>. SUFFICES ASSUME m + 1 <= Len(s) PROVE Solved(m + 1)
    <3>. HIDE DEF Solved
    <3>. QED BY <1>2
  <2>0. Solved(m)
    <3>. HIDE DEF Solved
    <3>. QED BY <1>2
  <2>1. PICK F \in [0 .. m -> Seq(Task)] : Solves(F, s, list, l, m)
    <3>. HIDE DEF Solves
    <3>. QED BY <2>0
  <2>2. s[m + 1] \in Task /\ m \in Nat /\ F[m] \in Seq(Task)
    BY <1>2
  <2>. DEFINE v == IF list[s[m + 1]] = l THEN Append(F[m], s[m + 1]) ELSE F[m]
              G == [n \in 0 .. m + 1 |-> IF n <= m THEN F[n] ELSE v]
  <2>3. v \in Seq(Task)
    BY <2>2
  <2>. HIDE DEF v
  <2>4. G \in [0 .. m + 1 -> Seq(Task)]
    BY <2>1, <2>2, <2>3
  <2>5. G[0] = <<>> /\ G[m + 1] = v /\ G[m] = F[m]
    BY <2>1, <2>2
  <2>6. ASSUME NEW n \in 1 .. m
        PROVE  G[n] = IF list[s[n]] = l THEN Append(G[n - 1], s[n]) ELSE G[n - 1]
    <3>1. /\ n \in 0 .. m + 1 /\ n - 1 \in 0 .. m + 1
          /\ n <= m /\ n - 1 <= m
      BY <2>2
    <3>2. G[n] = F[n] /\ G[n - 1] = F[n - 1]
      BY <3>1
    <3>. HIDE DEF G
    <3>. QED BY <2>1, <3>2
  <2>7. Solves(G, s, list, l, m + 1)
    <3>1. \A n \in 1 .. m + 1 : n \in 1 .. m \/ n = m + 1
      BY <2>2
    <3>. HIDE DEF G
    <3>2. (m + 1) - 1 = m
      BY <2>2
    <3>3. G[m + 1] = IF list[s[m + 1]] = l THEN Append(G[(m + 1) - 1], s[m + 1])
                     ELSE G[(m + 1) - 1]
      BY <2>5, <3>2 DEF v
    <3>. QED BY <2>5, <2>6, <3>1, <3>3
  <2>. QED BY <2>4, <2>7
<1>3. Len(s) \in S
  <2>1. S \in SUBSET Nat /\ Len(s) \in Nat
    OBVIOUS
  <2>. HIDE DEF S
  <2>. QED BY <1>1, <1>2, <2>1, SetInduction
<1>4. PICK F \in [0 .. Len(s) -> Seq(Task)] : Solves(F, s, list, l, Len(s))
  BY <1>3
<1>. DEFINE Eq(G) == G = [n \in 0 .. Len(s) |->
                              IF n = 0 THEN <<>>
                              ELSE IF list[s[n]] = l THEN Append(G[n - 1], s[n])
                                   ELSE G[n - 1]]
            C == CHOOSE G : Eq(G)
<1>5. Eq(F)
  <2>1. ASSUME NEW n \in 0 .. Len(s)
        PROVE  F[n] = IF n = 0 THEN <<>>
                      ELSE IF list[s[n]] = l THEN Append(F[n - 1], s[n]) ELSE F[n - 1]
    <3>1. CASE n = 0
      BY <1>4, <3>1
    <3>2. CASE n # 0
      <4>1. n \in 1 .. Len(s)
        BY <3>2
      <4>. QED BY <1>4, <3>2, <4>1
    <3>. QED BY <3>1, <3>2
  <2>. QED BY <2>1
<1>6. Eq(C)
  <2>. HIDE DEF Eq
  <2>. QED BY <1>5
<1>7. Solves(C, s, list, l, Len(s))
  <2>1. Len(s) \in Nat
    OBVIOUS
  <2>. HIDE DEF C
  <2>2. C[0] = <<>>
    BY <1>6, <2>1
  <2>3. ASSUME NEW n \in 1 .. Len(s)
        PROVE  C[n] = IF list[s[n]] = l THEN Append(C[n - 1], s[n]) ELSE C[n - 1]
    <3>1. n \in 0 .. Len(s) /\ n # 0
      OBVIOUS
    <3>. QED BY <1>6, <3>1
  <2>. QED BY <2>2, <2>3
<1>. HIDE DEF C
<1>8. C[Len(s)] = F[Len(s)]
  <2>. DEFINE U == {m \in Nat : m <= Len(s) => C[m] = F[m]}
  <2>1. 0 \in U
    BY <1>4, <1>7
  <2>2. ASSUME NEW m \in U PROVE m + 1 \in U
    <3>. SUFFICES ASSUME m + 1 <= Len(s) PROVE C[m + 1] = F[m + 1]
      OBVIOUS
    <3>1. m + 1 \in 1 .. Len(s) /\ (m + 1) - 1 = m /\ C[m] = F[m]
      OBVIOUS
    <3>2. /\ C[m + 1] = IF list[s[m + 1]] = l THEN Append(C[(m + 1) - 1], s[m + 1])
                        ELSE C[(m + 1) - 1]
          /\ F[m + 1] = IF list[s[m + 1]] = l THEN Append(F[(m + 1) - 1], s[m + 1])
                        ELSE F[(m + 1) - 1]
      BY <1>4, <1>7, <3>1
    <3>. QED BY <3>1, <3>2
  <2>3. Len(s) \in U
    <3>. HIDE DEF U
    <3>. QED BY <2>1, <2>2, SetInduction
  <2>. QED BY <2>3
<1>9. Staying(s, list, l) = C[Len(s)]
  BY DEF Staying, C
<1>. QED BY <1>4, <1>8, <1>9

LEMMA AppendIs ==
    ASSUME NEW s \in Seq(Task), NEW t \in Task
    PROVE  /\ Append(s, t) \in Seq(Task)
           /\ DOMAIN Append(s, t) = DOMAIN s \union {Len(s) + 1} /\ DOMAIN s = 1 .. Len(s)
           /\ Append(s, t)[Len(s) + 1] = t
           /\ \A i \in DOMAIN s : Append(s, t)[i] = s[i]
  OBVIOUS

\* What is left of the list is what was in it and is still said to be.
LEMMA StayingIs ==
    ASSUME NEW s \in Seq(Task), Distinct(s), NEW list, NEW l
    PROVE  /\ Staying(s, list, l) \in Seq(Task) /\ Distinct(Staying(s, list, l))
           /\ \A t \in Task : InList(Staying(s, list, l), t) <=> InList(s, t) /\ list[t] = l
<1>1. PICK F \in [0 .. Len(s) -> Seq(Task)] :
          Staying(s, list, l) = F[Len(s)] /\ Solves(F, s, list, l, Len(s))
  BY StayingIsDefined
<1>. USE DEF Solves
<1>. DEFINE Good(m) ==
                /\ Distinct(F[m])
                /\ \A t \in Task : InList(F[m], t) <=>
                       (\E i \in 1 .. m : s[i] = t) /\ list[t] = l
            S == {m \in Nat : m <= Len(s) => Good(m)}
<1>2. 0 \in S
  BY <1>1 DEF Distinct, InList
<1>3. ASSUME NEW m \in S PROVE m + 1 \in S
  <2>. SUFFICES ASSUME m + 1 <= Len(s) PROVE Good(m + 1)
    <3>. HIDE DEF Good
    <3>. QED OBVIOUS
  <2>1. /\ Good(m) /\ m + 1 \in 1 .. Len(s) /\ (m + 1) - 1 = m
        /\ F[m] \in Seq(Task) /\ s[m + 1] \in Task
    BY <1>1
  <2>2. F[m + 1] = IF list[s[m + 1]] = l THEN Append(F[m], s[m + 1]) ELSE F[m]
    BY <1>1, <2>1
  <2>3. \A i \in 1 .. m + 1 : i \in 1 .. m \/ i = m + 1
    BY <1>3
  <2>4. \A i \in 1 .. m : i \in 1 .. m + 1
    BY <1>3
  <2>5. m + 1 \in 1 .. m + 1
    BY <1>3
  <2>6. CASE list[s[m + 1]] # l
    BY <2>1, <2>2, <2>3, <2>4, <2>6
  <2>7. CASE list[s[m + 1]] = l
    <3>. DEFINE a == Append(F[m], s[m + 1])
    <3>1. /\ DOMAIN a = DOMAIN F[m] \union {Len(F[m]) + 1}
          /\ a[Len(F[m]) + 1] = s[m + 1]
          /\ \A i \in DOMAIN F[m] : a[i] = F[m][i]
      BY <2>1, AppendIs
    <3>2. F[m + 1] = a
      BY <2>2, <2>7
    <3>. HIDE DEF a
    <3>3. ~InList(F[m], s[m + 1])
      <4>1. \A i \in 1 .. m : i \in DOMAIN s /\ m + 1 \in DOMAIN s /\ i # m + 1
        BY <2>1
      <4>2. \A i \in 1 .. m : s[i] # s[m + 1]
        BY <4>1 DEF Distinct
      <4>. QED BY <2>1, <4>2
    <3>4. Distinct(a)
      BY <2>1, <3>1, <3>3 DEF Distinct, InList
    <3>5. \A t \in Task : InList(a, t) <=> InList(F[m], t) \/ t = s[m + 1]
      BY <2>1, <3>1 DEF InList
    <3>. QED BY <2>1, <2>3, <2>4, <2>5, <2>7, <3>2, <3>4, <3>5
  <2>. QED BY <2>6, <2>7
<1>4. Len(s) \in S
  <2>. HIDE DEF S
  <2>. QED BY <1>2, <1>3, SetInduction
<1>5. Good(Len(s)) /\ F[Len(s)] \in Seq(Task)
  BY <1>1, <1>4
<1>6. \A t \in Task : InList(s, t) <=> \E i \in 1 .. Len(s) : s[i] = t
  BY DEF InList
<1>. QED BY <1>1, <1>5, <1>6

\* A sequence with its first n elements taken off.
LEMMA DropIs ==
    ASSUME NEW s \in Seq(Task), Distinct(s), NEW n \in 0 .. Len(s)
    PROVE  /\ SubSeq(s, n + 1, Len(s)) \in Seq(Task) /\ Distinct(SubSeq(s, n + 1, Len(s)))
           /\ \A t \in Task : InList(SubSeq(s, n + 1, Len(s)), t) <=>
                                  InList(s, t) /\ t \notin {s[i] : i \in 1 .. n}
<1>. DEFINE r == SubSeq(s, n + 1, Len(s))
<1>1. /\ r \in Seq(Task) /\ Len(r) = Len(s) - n
      /\ \A i \in 1 .. Len(s) - n : r[i] = s[n + i]
  BY SubSeqProperties
<1>. HIDE DEF r
<1>2. DOMAIN r = 1 .. Len(s) - n /\ DOMAIN s = 1 .. Len(s) /\ Len(s) \in Nat
  BY <1>1
<1>3. \A i \in DOMAIN r : n + i \in DOMAIN s /\ n + i \notin 1 .. n
  BY <1>2
<1>4. Distinct(r)
  BY <1>1, <1>2, <1>3 DEF Distinct
<1>5. ASSUME NEW t \in Task, InList(r, t)
      PROVE  InList(s, t) /\ t \notin {s[i] : i \in 1 .. n}
  <2>1. PICK i \in DOMAIN r : s[n + i] = t
    BY <1>1, <1>2, <1>5 DEF InList
  <2>2. \A j \in 1 .. n : j \in DOMAIN s /\ j # n + i
    BY <1>2, <1>3, <2>1
  <2>. QED BY <1>3, <2>1, <2>2 DEF InList, Distinct
<1>6. ASSUME NEW t \in Task, InList(s, t), t \notin {s[i] : i \in 1 .. n}
      PROVE  InList(r, t)
  <2>1. PICK j \in DOMAIN s : s[j] = t
    BY <1>6 DEF InList
  <2>2. j - n \in DOMAIN r /\ n + (j - n) = j
    BY <1>2, <1>6, <2>1
  <2>. QED BY <1>1, <1>2, <2>1, <2>2 DEF InList
<1>. QED BY <1>1, <1>4, <1>5, <1>6 DEF r

\* A sequence with a new element behind the first n.
LEMMA InsertIs ==
    ASSUME NEW s \in Seq(Task), Distinct(s), NEW n \in 0 .. Len(s), NEW t \in Task, ~InList(s, t)
    PROVE  /\ InsertAt(s, n + 1, t) \in Seq(Task) /\ Distinct(InsertAt(s, n + 1, t))
           /\ Len(InsertAt(s, n + 1, t)) = Len(s) + 1
           /\ \A u \in Task : InList(InsertAt(s, n + 1, t), u) <=> InList(s, u) \/ u = t
<1>. DEFINE low == SubSeq(s, 1, n)
            high == SubSeq(s, n + 1, Len(s))
            r == low \o <<t>> \o high
<1>1. /\ low \in Seq(Task) /\ Len(low) = n
      /\ \A i \in 1 .. n : low[i] = s[i]
  BY SubSeqProperties
<1>2. /\ high \in Seq(Task) /\ Len(high) = Len(s) - n
      /\ \A i \in 1 .. Len(s) - n : high[i] = s[n + i]
  BY SubSeqProperties
<1>. DEFINE left == low \o <<t>>
<1>0. /\ left \in Seq(Task) /\ Len(left) = n + 1 /\ left[n + 1] = t
      /\ \A i \in 1 .. n : left[i] = s[i]
  <2>. HIDE DEF low
  <2>. QED BY <1>1
<1>3. r \in Seq(Task) /\ Len(r) = Len(s) + 1
  <2>. HIDE DEF left, high
  <2>1. left \o high \in Seq(Task) /\ Len(left \o high) = Len(s) + 1
    BY <1>0, <1>2
  <2>. QED BY <2>1 DEF left
<1>4. /\ \A i \in 1 .. n : r[i] = s[i]
      /\ r[n + 1] = t
      /\ \A i \in n + 2 .. Len(s) + 1 : r[i] = s[i - 1]
  <2>. HIDE DEF left, high
  <2>1. \A i \in 1 .. n + 1 : (left \o high)[i] = left[i]
    BY <1>0, <1>2
  <2>2. \A i \in n + 2 .. Len(s) + 1 : (left \o high)[i] = high[i - (n + 1)]
    BY <1>0, <1>2
  <2>3. \A i \in n + 2 .. Len(s) + 1 :
            i - (n + 1) \in 1 .. Len(s) - n /\ n + (i - (n + 1)) = i - 1
    BY <1>0
  <2>4. \A i \in n + 2 .. Len(s) + 1 : (left \o high)[i] = s[i - 1]
    BY <1>2, <2>2, <2>3
  <2>5. \A i \in 1 .. n : (left \o high)[i] = s[i]
    BY <1>0, <2>1
  <2>6. (left \o high)[n + 1] = t
    BY <1>0, <2>1
  <2>7. r = left \o high
    BY DEF left
  <2>. HIDE DEF r
  <2>. QED BY <2>4, <2>5, <2>6, <2>7
<1>5. InsertAt(s, n + 1, t) = r
  <2>1. (n + 1) - 1 = n
    OBVIOUS
  <2>. QED BY <2>1 DEF InsertAt
<1>. HIDE DEF r, low, high, left
<1>6. DOMAIN r = 1 .. Len(s) + 1 /\ DOMAIN s = 1 .. Len(s) /\ Len(s) \in Nat
  BY <1>3
<1>7. \A i \in DOMAIN s : s[i] # t
  BY DEF InList
<1>. DEFINE from(i) == IF i <= n THEN i ELSE i - 1
<1>8. /\ \A i \in DOMAIN r \ {n + 1} : from(i) \in DOMAIN s /\ r[i] = s[from(i)]
      /\ \A i, j \in DOMAIN r \ {n + 1} : i # j => from(i) # from(j)
  BY <1>4, <1>6
<1>. HIDE DEF from
<1>9. Distinct(r)
  BY <1>4, <1>7, <1>8 DEF Distinct
<1>10. ASSUME NEW u \in Task, InList(r, u) PROVE InList(s, u) \/ u = t
  BY <1>4, <1>8, <1>10 DEF InList
<1>11. ASSUME NEW u \in Task, InList(s, u) PROVE InList(r, u)
  <2>1. PICK j \in DOMAIN s : s[j] = u
    BY <1>11 DEF InList
  <2>2. CASE j <= n
    BY <1>4, <1>6, <2>1, <2>2 DEF InList
  <2>3. CASE ~(j <= n)
    <3>1. j + 1 \in n + 2 .. Len(s) + 1 /\ (j + 1) - 1 = j /\ j + 1 \in DOMAIN r
      BY <1>6, <2>1, <2>3
    <3>2. r[j + 1] = s[(j + 1) - 1]
      BY <1>4, <3>1
    <3>. QED BY <2>1, <3>1, <3>2 DEF InList
  <2>. QED BY <2>2, <2>3
<1>12. n + 1 \in DOMAIN r
  BY <1>6
<1>13. InList(r, t)
  BY <1>4, <1>12 DEF InList
<1>. QED BY <1>3, <1>5, <1>9, <1>10, <1>11, <1>13

\* The lists of waiters are the lists that the scheduler's eventList speaks of.
WaitersInv ==
    /\ waiters \in [ObjectLists -> Seq(Task)]
    /\ \A l \in ObjectLists :
           /\ Distinct(waiters[l])
           /\ \A t \in Task : InList(waiters[l], t) <=> eventList[t] = l

LEMMA FirstIs ==
    ASSUME WaitersInv, NEW l \in ObjectLists, SomebodyWaits(l)
    PROVE  /\ First(l) \in Task /\ eventList[First(l)] = l
           /\ First(l) = waiters[l][1] /\ 1 \in DOMAIN waiters[l] /\ 1 \in 0 .. Len(waiters[l])
<1>1. waiters[l] \in Seq(Task) /\ waiters[l] # <<>>
  BY DEF WaitersInv, SomebodyWaits
<1>2. /\ First(l) = waiters[l][1] /\ 1 \in DOMAIN waiters[l] /\ 1 \in 0 .. Len(waiters[l])
      /\ First(l) \in Task
  BY <1>1 DEF First
<1>3. InList(waiters[l], First(l))
  BY <1>2 DEF InList
<1>. QED BY <1>2, <1>3 DEF WaitersInv

LEMMA WakeFirstStep ==
    ASSUME WaitersInv, ListTypeOK, NEW l \in ObjectLists, NEW n \in 0 .. Len(waiters[l]),
           WakeFirst(l, n)
    PROVE  /\ WaitersInv'
           /\ stateList' \in [Task -> StateList] /\ eventList' \in [Task -> EventList]
           /\ \A i \in 1 .. n : waiters[l][i] \in Task /\ eventList[waiters[l][i]] = l
<1>. DEFINE woken == {waiters[l][i] : i \in 1 .. n}
<1>1. waiters[l] \in Seq(Task) /\ Distinct(waiters[l]) /\ "none" \notin ObjectLists
      /\ "pending" \notin ObjectLists
  BY TasksAssumption DEF WaitersInv
<1>2. \A i \in 1 .. n : i \in DOMAIN waiters[l] /\ waiters[l][i] \in Task
  BY <1>1
<1>3. \A i \in 1 .. n : eventList[waiters[l][i]] = l
  BY <1>2 DEF WaitersInv, InList
<1>4. stateList' \in [Task -> StateList] /\ eventList' \in [Task -> EventList]
  BY DEF WakeFirst, ListTypeOK, StateList, EventList
<1>5. ASSUME NEW t \in Task
      PROVE  /\ t \in woken => eventList'[t] \in {"none", "pending"}
             /\ t \notin woken => eventList'[t] = eventList[t]
  BY DEF WakeFirst
<1>6. \A t \in woken : eventList[t] = l
  BY <1>3
<1>7. waiters' = [waiters EXCEPT ![l] = SubSeq(waiters[l], n + 1, Len(waiters[l]))]
  BY DEF WakeFirst
<1>8. /\ SubSeq(waiters[l], n + 1, Len(waiters[l])) \in Seq(Task)
      /\ Distinct(SubSeq(waiters[l], n + 1, Len(waiters[l])))
      /\ \A t \in Task : InList(SubSeq(waiters[l], n + 1, Len(waiters[l])), t) <=>
                             InList(waiters[l], t) /\ t \notin woken
  BY <1>1, DropIs
<1>. HIDE DEF woken
<1>9. waiters' \in [ObjectLists -> Seq(Task)]
  BY <1>7, <1>8 DEF WaitersInv
<1>10. ASSUME NEW k \in ObjectLists
       PROVE  /\ Distinct(waiters'[k])
              /\ \A t \in Task : InList(waiters'[k], t) <=> eventList'[t] = k
  <2>1. CASE k = l
    <3>1. waiters'[k] = SubSeq(waiters[l], n + 1, Len(waiters[l]))
      BY <1>7, <2>1 DEF WaitersInv
    <3>. QED BY <1>1, <1>5, <1>8, <2>1, <3>1 DEF WaitersInv
  <2>2. CASE k # l
    <3>1. waiters'[k] = waiters[k]
      BY <1>7, <2>2 DEF WaitersInv
    <3>. QED BY <1>1, <1>5, <1>6, <2>2, <3>1 DEF WaitersInv
  <2>. QED BY <2>1, <2>2
<1>11. WaitersInv'
  BY <1>9, <1>10 DEF WaitersInv
<1>. QED BY <1>2, <1>3, <1>4, <1>11
---------------------------------------------------------------------------
(* The calls *)

\* The program points under the vTaskSuspendAll of a call.
LockedLabel == (QueueLabel \ {"suspendAll"}) \union {"resumeAll"}

\* The points where a task is not yet in the event list, and has not timed out.
TryingLabel == QueueLabel \ {"unlockTx", "unlockRx"}

(***************************************************************************)
(* A task in a call is at a point of its loop, or in the xTaskResumeAll    *)
(* and the yield that end one turn of it.  It has found nothing to do and  *)
(* noted the time before it leaves the top of the loop.  From prvLockQueue *)
(* to xTaskResumeAll it runs, alone, under a vTaskSuspendAll that is not   *)
(* nested, since a call that may wait is not made under another.           *)
(***************************************************************************)
CallOK(t) ==
    /\ t # Idle
    /\ pc[t] \in QueueLabel \union {"resumeAll", "replay", "exit", "yield", "run"}
    /\ after[t] \in {"run", "yield", "yieldUnless"}
    /\ pc[t] # "run" => call[t].timed /\ call[t].wait > 0
    /\ call[t].wait = 0 => ~call[t].timed /\ ~call[t].expired
    /\ pc[t] \in LockedLabel => t = pxCurrentTCB /\ uxSchedulerSuspended = 1
    /\ t = pxCurrentTCB /\ call[t].wait > 0 /\ pc[t] \notin LockedLabel =>
           uxSchedulerSuspended = 0
    /\ pc[t] \in TryingLabel => after[t] # "yieldUnless" /\ ~call[t].expired
    /\ pc[t] = "inherit" => call[t].q \in Mutex
    /\ call[t].op = "send" /\ call[t].q \in Sized => call[t].item \in Item
    /\ call[t].op = "receive" /\ call[t].q \in Mutex => call[t].mode = "receive"

\* What a task says of itself that is in no call of another kind.
OneCall(t) ==
    /\ after[t] \notin ObjectLabels
    /\ after[t] # "run" => pc[t] \in {"exit", "reset", "resumeAll", "replay"} \union ObjectLabels
    /\ pc[t] \in ObjectLabels => pc[t] \in QueueLabel /\ call[t] # NoCall
    /\ call[t] # NoCall => CallOK(t)

QueueCalls == \A t \in Task : OneCall(t)

\* The types of the queues' variables.
QueueTypes ==
    /\ pcWriteTo \in [Sized -> Nat] /\ pcReadFrom \in [Sized -> Nat]
    /\ \A q \in Sized : /\ pcWriteTo[q] \in 0 .. uxLength[q] - 1
                        /\ pcReadFrom[q] \in 0 .. uxLength[q] - 1
    /\ DOMAIN storage = Sized
    /\ \A q \in Sized : storage[q] \in [0 .. uxLength[q] - 1 -> Item]
    /\ uxMessagesWaiting \in [Queue -> Nat]
    /\ \A q \in Queue : uxMessagesWaiting[q] \in 0 .. uxLength[q]
    /\ cRxLock \in [Queue -> Int] /\ cTxLock \in [Queue -> Int]
    /\ pxMutexHolder \in [Mutex -> Task \union {"NULL"}]
    /\ uxMutexesHeld \in [Task -> Int]
    /\ eventPriority \in [Task -> Priority]
    /\ call \in [Task -> CallType]
    /\ due \in [Task -> Tick]

\* What holds of the queues whatever their kind, with what the scheduler keeps.
QInv == IInv /\ RInv /\ QueueTypes /\ WaitersInv /\ QueueCalls
---------------------------------------------------------------------------
(* The steps of the scheduler *)

LEMMA QueueLabels ==
    /\ QueueLabel \subseteq ObjectLabels
    /\ \A l \in QueueLabel : l \notin {"run", "userCritical", "delay", "delayUntil", "resumeAll",
                                       "replay", "exit", "yield", "reset", "createYield", "take",
                                       "wait", "reap", "yieldUnless"}
    /\ "none" \notin ObjectLists /\ "pending" \notin ObjectLists
    /\ 0 \in Tick /\ portMAX_DELAY \in Tick \ {0}
<1>1. QueueLabel \subseteq ObjectLabels
  BY QueueAssumption
<1>2. 0 \in Tick /\ portMAX_DELAY \in Tick \ {0}
  BY TasksAssumption DEF Tick, portMAX_DELAY
<1>. QED BY <1>1, <1>2, ApartFromObjects, TasksAssumption

\* What follows a call is left to be done only on the way there.
LEMMA AfterStep ==
    ASSUME IInv, NEW t \in Task, Continue(t) \/ Yield(t) \/ Call(t),
           after[t] # "run" =>
               pc[t] \in {"exit", "reset", "resumeAll", "replay"} \union ObjectLabels
    PROVE  after'[t] # "run" =>
               pc'[t] \in {"exit", "reset", "resumeAll", "replay"} \union ObjectLabels
<1>1. pc \in [Task -> Label] /\ after \in [Task -> Continuation]
  BY ListTypes
<1>. DEFINE Goal == after'[t] # "run" =>
                        pc'[t] \in {"exit", "reset", "resumeAll", "replay"} \union ObjectLabels
<1>2. CASE Continue(t)
  <2>1. CASE ExitCritical(t) \/ ResetUnblockTime(t)
    BY <1>1, <2>1 DEF ExitCritical, ResetUnblockTime
  <2>2. CASE \/ MovePendingReady(t) \/ ReplayTick(t) \/ FinishResumeAll(t) \/ DelayCurrent(t)
             \/ DelayCurrentUntil(t)
    BY <1>1, <2>2 DEF MovePendingReady, ReplayTick, FinishResumeAll, DelayCurrent,
       DelayCurrentUntil, Goto, controlVars, At
  <2>3. CASE CreateYield(t) \/ IdleReap(t) \/ TakeNotification(t) \/ FinishNotifyWait(t)
    BY <1>1, <2>3, ApartFromObjects DEF CreateYield, IdleReap, TakeNotification, FinishNotifyWait,
       Goto, controlVars, At
  <2>. QED BY <1>2, <2>1, <2>2, <2>3 DEF Continue
<1>3. CASE Yield(t)
  BY <1>1, <1>3, ApartFromObjects DEF Yield, Goto, At, Calls
<1>4. CASE Call(t)
  <2>1. pc[t] \in {"run", "userCritical"} /\ after[t] = "run"
    BY <1>4, ApartFromObjects DEF Call, UserEnterCritical, UserExitCritical, vTaskSuspendAll,
       UserResumeAll, vTaskDelay, vTaskDelayUntil, vTaskSuspend, vTaskResume,
       vTaskPrioritySet, xTaskCreate, vTaskDelete, IdleCheckTermination, ulTaskNotifyTake,
       xTaskNotifyWait, xTaskGenericNotify, xTaskNotifyStateClear, Calls, At
  <2>2. \/ after' = after
        \/ after' = [after EXCEPT ![t] = "run"]
        \/ /\ pc' = [pc EXCEPT ![t] = "exit"] \/ pc' = [pc EXCEPT ![t] = "reset"]
                 \/ pc' = [pc EXCEPT ![t] = "resumeAll"]
    BY <1>4 DEF Call, UserEnterCritical, UserExitCritical, vTaskSuspendAll,
       UserResumeAll, vTaskDelay, vTaskDelayUntil, vTaskSuspend, vTaskResume,
       vTaskPrioritySet, xTaskCreate, vTaskDelete, IdleCheckTermination, ulTaskNotifyTake,
       xTaskNotifyWait, xTaskGenericNotify, xTaskNotifyStateClear, YieldThenExit, Goto,
       controlVars
  <2>. QED BY <1>1, <2>1, <2>2
<1>. QED BY <1>2, <1>3, <1>4

\* No switch under vTaskSuspendAll, and none as it begins.
LEMMA SwitchesUnsuspended ==
    ASSUME IInv, Next, pxCurrentTCB' # pxCurrentTCB
    PROVE  uxSchedulerSuspended' = 0
<1>1. ASSUME NEW top, vTaskSwitchContext(top) \/ NoSwitch(top)
      PROVE  uxSchedulerSuspended = 0
  BY <1>1 DEF vTaskSwitchContext, NoSwitch
<1>2. CASE Interrupt
  BY <1>1, <1>2 DEF Interrupt, TimerTick, TimerTickPended, NotifyFromISR, xTaskResumeFromISR,
     suspendVars, switchVars
<1>3. ASSUME NEW t \in Task, Continue(t)
      PROVE  uxSchedulerSuspended' = 0
  BY <1>1, <1>3 DEF Continue, ExitCritical, MovePendingReady, ReplayTick, FinishResumeAll,
     DelayCurrent, DelayCurrentUntil, ResetUnblockTime, CreateYield, IdleReap,
     TakeNotification, FinishNotifyWait, suspendVars, switchVars
<1>4. ASSUME NEW t \in Task, Yield(t)
      PROVE  uxSchedulerSuspended' = 0
  BY <1>1, <1>4 DEF Yield, suspendVars
<1>5. ASSUME NEW t \in Task, Call(t)
      PROVE  uxSchedulerSuspended' = 0
  <2>1. ASSUME NEW yields, NEW next, NEW top, YieldThenExit(t, yields, next, top)
        PROVE  uxSchedulerSuspended = 0
    BY <1>1, <2>1 DEF YieldThenExit
  <2>. QED
    BY <1>1, <1>5, <2>1 DEF Call, UserEnterCritical, UserExitCritical, vTaskSuspendAll,
       UserResumeAll, vTaskDelay, vTaskDelayUntil, vTaskSuspend, vTaskResume,
       vTaskPrioritySet, xTaskCreate, vTaskDelete, IdleCheckTermination, ulTaskNotifyTake,
       xTaskNotifyWait, xTaskGenericNotify, xTaskNotifyStateClear, suspendVars, switchVars
<1>. QED BY <1>2, <1>3, <1>4, <1>5 DEF Next

\* On the way from xTaskResumeAll to the top of the loop.
LEMMA SuspensionStep ==
    ASSUME IInv, NEW t \in Task, Continue(t) \/ (Yield(t) /\ pc[t] = "yield"),
           pc[t] \in {"resumeAll", "replay", "exit", "yield", "run"}
    PROVE  /\ pc[t] = "resumeAll" => uxSchedulerSuspended' = uxSchedulerSuspended - 1
           /\ pc[t] # "resumeAll" => uxSchedulerSuspended' = uxSchedulerSuspended
           /\ pc[t] # "run"
  BY DEF Continue, ExitCritical, MovePendingReady, ReplayTick, FinishResumeAll,
     DelayCurrent, DelayCurrentUntil, ResetUnblockTime, CreateYield, IdleReap, TakeNotification,
     FinishNotifyWait, Yield, At, suspendVars, Calls

\* The two are one step of the scheduler.
LEMMA SchedulerStepIsNext == SchedulerStep => Next /\ KeepQueues
  BY DEF SchedulerStep, Next

LEMMA SchedulerKeepsCalls ==
    ASSUME QInv, SchedulerStep
    PROVE  QueueCalls'
<1>1. IInv /\ Next /\ KeepQueues /\ IInv'
  BY SchedulerStepIsNext, NextIInv DEF QInv
<1>2. UNCHANGED call
  BY <1>1 DEF KeepQueues
<1>. SUFFICES ASSUME NEW x \in Task PROVE OneCall(x)'
  BY DEF QueueCalls
<1>3. OneCall(x)
  BY DEF QInv, QueueCalls
<1>4. ASSUME pc'[x] = pc[x], after'[x] = after[x],
             \/ UNCHANGED <<pxCurrentTCB, uxSchedulerSuspended>>
             \/ x # pxCurrentTCB
      PROVE  OneCall(x)'
  <2>1. CASE UNCHANGED <<pxCurrentTCB, uxSchedulerSuspended>>
    BY <1>2, <1>3, <1>4, <2>1 DEF OneCall, CallOK
  <2>2. CASE x # pxCurrentTCB
    <3>1. pxCurrentTCB' = pxCurrentTCB \/ uxSchedulerSuspended' = 0
      BY <1>1, SwitchesUnsuspended
    <3>. QED BY <1>2, <1>3, <1>4, <2>2, <3>1 DEF OneCall, CallOK
  <2>. QED BY <1>4, <2>1, <2>2
<1>5. CASE Interrupt
  <2>1. /\ UNCHANGED <<pc, after, uxSchedulerSuspended>>
        /\ uxSchedulerSuspended > 0 => UNCHANGED pxCurrentTCB
    BY <1>1, <1>5, InterruptStep
  <2>2. uxSchedulerSuspended \in Nat
    BY <1>1, ListTypes
  <2>3. CASE UNCHANGED pxCurrentTCB
    BY <1>4, <2>1, <2>3
  <2>4. CASE uxSchedulerSuspended = 0
    BY <1>2, <1>3, <2>1, <2>4 DEF OneCall, CallOK
  <2>. QED BY <2>1, <2>2, <2>3, <2>4
<1>6. ASSUME NEW t \in Task,
             \/ Continue(t)
             \/ Yield(t) /\ (pc[t] = "yield" \/ call[t] = NoCall)
             \/ Call(t) /\ call[t] = NoCall
      PROVE  OneCall(x)'
  <2>1. /\ t = pxCurrentTCB /\ pc[t] \notin ObjectLabels
        /\ \A u \in Task \ {t} : pc'[u] = pc[u] /\ after'[u] = after[u]
        /\ \/ pc'[t] \notin ObjectLabels
           \/ pc'[t] = after[t] /\ after'[t] = "run"
        /\ \/ after'[t] \notin ObjectLabels
           \/ after'[t] = after[t] /\ pc'[t] \notin ObjectLabels
    BY <1>1, <1>6, TaskStep
  <2>2. CASE x # t
    BY <1>4, <2>1, <2>2
  <2>3. CASE x = t
    <3>1. after'[t] # "run" =>
              pc'[t] \in {"exit", "reset", "resumeAll", "replay"} \union ObjectLabels
      BY <1>1, <1>3, <1>6, <2>3, AfterStep DEF OneCall
    <3>2. pc'[t] \notin ObjectLabels /\ after'[t] \notin ObjectLabels
      BY <1>3, <2>1, <2>3 DEF OneCall
    <3>3. ASSUME call[t] # NoCall PROVE CallOK(t)'
      <4>1. Continue(t) \/ (Yield(t) /\ pc[t] = "yield")
        BY <1>6, <3>3
      <4>2. /\ CallOK(t) /\ pc[t] \in {"resumeAll", "replay", "exit", "yield", "run"}
            /\ after[t] \in {"run", "yield", "yieldUnless"}
        BY <1>3, <2>1, <2>3, <3>3, QueueLabels DEF OneCall, CallOK
      <4>3. /\ pc'[t] \in {"replay", "exit", "yield", "run"} \union ObjectLabels
            /\ after'[t] \in {"run", "yield", "yieldUnless"} \union ObjectLabels
        BY <1>1, <4>1, <4>2, CallGoesOn
      <4>4. /\ pc[t] = "resumeAll" => uxSchedulerSuspended' = uxSchedulerSuspended - 1
            /\ pc[t] # "resumeAll" => uxSchedulerSuspended' = uxSchedulerSuspended
            /\ pc[t] # "run"
        BY <1>1, <4>1, <4>2, SuspensionStep
      <4>5. uxSchedulerSuspended' = 0
        BY <2>1, <4>2, <4>4, QueueLabels DEF CallOK, LockedLabel
      <4>6. pc'[t] \notin QueueLabel /\ pc'[t] \notin LockedLabel /\ pc'[t] \notin TryingLabel
        BY <3>2, <4>3, QueueLabels DEF LockedLabel, TryingLabel
      <4>. QED BY <1>2, <3>2, <4>2, <4>3, <4>4, <4>5, <4>6 DEF CallOK
    <3>. QED BY <1>2, <2>3, <3>1, <3>2, <3>3 DEF OneCall
  <2>. QED BY <2>2, <2>3
<1>. QED BY <1>5, <1>6 DEF SchedulerStep

\* The scheduler takes tasks out of the lists of waiters, and the others stay in order.
LEMMA SchedulerKeepsWaiters ==
    ASSUME QInv, SchedulerStep
    PROVE  WaitersInv'
<1>1. IInv /\ Next /\ WaitersInv /\ IInv'
      /\ waiters' = [l \in ObjectLists |-> Staying(waiters[l], eventList', l)]
  BY SchedulerStepIsNext, NextIInv DEF QInv, KeepQueues
<1>2. ASSUME NEW l \in ObjectLists
      PROVE  /\ waiters'[l] \in Seq(Task) /\ Distinct(waiters'[l])
             /\ \A t \in Task : InList(waiters'[l], t) <=> eventList'[t] = l
  <2>1. waiters[l] \in Seq(Task) /\ Distinct(waiters[l])
        /\ \A t \in Task : InList(waiters[l], t) <=> eventList[t] = l
    BY <1>1 DEF WaitersInv
  <2>2. waiters'[l] = Staying(waiters[l], eventList', l)
    BY <1>1
  <2>3. /\ waiters'[l] \in Seq(Task) /\ Distinct(waiters'[l])
        /\ \A t \in Task : InList(waiters'[l], t) <=> InList(waiters[l], t) /\ eventList'[t] = l
    BY <2>1, <2>2, StayingIs
  <2>4. \A t \in Task : eventList'[t] = l => eventList[t] = l
    BY <1>1, NobodyEnters, QueueLabels
  <2>. QED BY <2>1, <2>3, <2>4
<1>3. DOMAIN waiters' = ObjectLists /\ waiters' = [l \in ObjectLists |-> waiters'[l]]
  BY <1>1
<1>4. waiters' \in [ObjectLists -> Seq(Task)]
  BY <1>2, <1>3
<1>. QED BY <1>2, <1>4 DEF WaitersInv

LEMMA SchedulerKeepsQueueTypes ==
    ASSUME QueueTypes, PriorityTypeOK', KeepQueues
    PROVE  QueueTypes'
<1>1. eventPriority' \in [Task -> Priority]
  BY DEF KeepQueues, QueueTypes, PriorityTypeOK
<1>2. due' \in [Task -> Tick]
  BY TasksAssumption DEF KeepQueues, QueueTypes, Tick
<1>3. UNCHANGED <<storage, pcWriteTo, pcReadFrom, uxMessagesWaiting, cRxLock, cTxLock,
                  pxMutexHolder, uxMutexesHeld, call>>
  BY DEF KeepQueues, dataVars, lockVars, mutexVars
<1>. QED BY <1>1, <1>2, <1>3 DEF QueueTypes

LEMMA SchedulerKeepsQInv ==
    ASSUME QInv, SchedulerStep
    PROVE  QInv'
<1>1. IInv /\ RInv /\ Next /\ KeepQueues /\ QueueTypes
  BY SchedulerStepIsNext DEF QInv
<1>2. IInv' /\ RInv'
  BY <1>1, NextIInv, StepRuns
<1>3. QueueTypes'
  BY <1>1, <1>2, SchedulerKeepsQueueTypes DEF IInv, TypeOK
<1>. QED BY <1>2, <1>3, SchedulerKeepsWaiters, SchedulerKeepsCalls DEF QInv
---------------------------------------------------------------------------
(* What a step of a call does to the scheduler *)

\* A step that puts no task into an event list, but the running task that blocks.
LEMMA ObjectBase ==
    ASSUME IInv, RInv, NEW t \in Task, NEW label, ObjectStep(t, label),
           after' \in [Task -> Continuation], uxSchedulerSuspended' \in Nat,
           SwitchTypeOK', TimeTypeOK', ListTypeOK', PriorityTypeOK',
           UNCHANGED <<uxPendedTicks, notifyVars, appVars>>,
           \A u \in Task : eventList'[u] \in ObjectLists =>
               \/ u = t /\ stateList'[t] \in Blocked
               \/ eventList'[u] = eventList[u] /\ stateList'[u] = stateList[u],
           \/ stateList'[t] = "ready"
           \/ /\ stateList'[t] = stateList[t] /\ label # "run"
              /\ UNCHANGED <<after, uxSchedulerSuspended>>
           \/ /\ label \in {"resumeAll"} \union ObjectLabels /\ after'[t] = "yieldUnless"
              /\ uxSchedulerSuspended' = 1
    PROVE  IInv' /\ RInv'
<1>1. t = pxCurrentTCB /\ UNCHANGED pxCurrentTCB /\ pc \in [Task -> Label]
      /\ pc' = [pc EXCEPT ![t] = label] /\ pc'[t] = label
  BY ListTypes DEF ObjectStep, Goto
<1>2. PortTypeOK' /\ ControlInv'
  BY ObjectStepControl
<1>3. NotifyTypeOK' /\ AppTypeOK'
  BY UnchangedTypes DEF IInv
<1>4. SuspendTypeOK'
  BY DEF IInv, TypeOK, SuspendTypeOK
<1>5. ControlTypeOK'
  BY <1>1 DEF IInv, TypeOK, ControlTypeOK, ObjectStep, Label, SchedulerLabel
<1>6. IInv'
  BY <1>2, <1>3, <1>4, <1>5 DEF IInv, TypeOK
<1>7. DelaysAtOnce' /\ NotifiedInWait' /\ ucNotifyState[t] # "WAITING"
  BY ObjectStepRuns DEF notifyVars
<1>8. OnObjects'
  BY <1>7 DEF RInv, OnObjects, notifyVars
<1>9. RunsOrLeaves'
  <2>1. CASE stateList'[t] = "ready"
    BY <1>1, <2>1 DEF RunsOrLeaves
  <2>2. CASE /\ stateList'[t] = stateList[t] /\ stateList[t] # "ready" /\ label # "run"
             /\ UNCHANGED <<after, uxSchedulerSuspended>>
    <3>1. after[t] = "yieldUnless" /\ uxSchedulerSuspended = 1
      BY <1>1, <2>2, ApartFromObjects DEF ObjectStep, RInv, RunsOrLeaves
    <3>2. label \in {"resumeAll"} \union ObjectLabels
      BY <2>2 DEF ObjectStep
    <3>. QED BY <1>1, <2>2, <3>1, <3>2 DEF RunsOrLeaves
  <2>3. CASE /\ label \in {"resumeAll"} \union ObjectLabels /\ after'[t] = "yieldUnless"
             /\ uxSchedulerSuspended' = 1
    BY <1>1, <2>3 DEF RunsOrLeaves
  <2>. QED BY <2>1, <2>2, <2>3
<1>. QED BY <1>6, <1>7, <1>8, <1>9 DEF RInv

\* A critical section of the running task, at the top of its loop, that may end in a yield.
LEMMA SectionBase ==
    ASSUME IInv, RInv, NEW t \in Task, Calls(t), NEW yields, NEW top \in Priority,
           YieldThenExit(t, yields, "run", top),
           ListTypeOK', PriorityTypeOK', stateList'[t] = "ready",
           UNCHANGED <<suspendVars, timeVars, notifyVars, arg, appVars>>,
           \A u \in Task : eventList'[u] \in ObjectLists =>
               eventList'[u] = eventList[u] /\ stateList'[u] = stateList[u]
    PROVE  IInv' /\ RInv'
<1>1. PortTypeOK' /\ SwitchTypeOK' /\ ControlTypeOK' /\ ControlInv'
  <2>1. PortTypeOK /\ SwitchTypeOK /\ ControlTypeOK /\ ControlInv
        /\ arg' = arg /\ uxSchedulerSuspended' = uxSchedulerSuspended
        /\ "run" \in Continuation
    BY DEF IInv, TypeOK, suspendVars, Continuation
  <2>. QED BY <2>1, YieldThenExitStep
<1>2. SuspendTypeOK' /\ TimeTypeOK' /\ NotifyTypeOK' /\ AppTypeOK'
  BY UnchangedTypes DEF IInv
<1>3. IInv'
  BY <1>1, <1>2 DEF IInv, TypeOK
<1>4. pxCurrentTCB = t /\ pc[t] = "run" /\ pc \in [Task -> Label]
      /\ uxSchedulerSuspended \in Nat
  BY ListTypes DEF Calls, At
<1>5. /\ pc'[t] \in {"run", "exit"} /\ \A u \in Task \ {t} : pc'[u] = pc[u]
      /\ \A u \in Task \ {t} : after'[u] = after[u]
  BY <1>4, ListTypes DEF YieldThenExit, Goto
<1>6. RunsOrLeaves'
  <2>1. stateList'[pxCurrentTCB'] = "ready"
    BY <1>4, SectionRuns DEF YieldThenExit
  <2>. QED BY <2>1 DEF RunsOrLeaves
<1>7. DelaysAtOnce'
  BY <1>5 DEF RInv, DelaysAtOnce, suspendVars
<1>8. NotifiedInWait' /\ OnObjects'
  BY <1>4, <1>5 DEF RInv, NotifiedInWait, OnObjects, notifyVars
<1>. QED BY <1>3, <1>6, <1>7, <1>8 DEF RInv

\* An interrupt that wakes tasks.
LEMMA InterruptBase ==
    ASSUME IInv, RInv, InterruptMaskSection, NEW top \in Priority,
           \/ vTaskSwitchContext(top) \/ NoSwitch(top)
           \/ xYieldPending' = TRUE /\ uxTopReadyPriority' = top /\ UNCHANGED pxCurrentTCB,
           ListTypeOK',
           \A u \in Task : stateList[u] = "ready" => stateList'[u] = "ready",
           stateList[pxCurrentTCB] # "ready" =>
               stateList'[pxCurrentTCB] \in {"ready", stateList[pxCurrentTCB]},
           UNCHANGED <<suspendVars, timeVars, priorityVars, notifyVars, controlVars, appVars>>,
           \A u \in Task : eventList'[u] \in ObjectLists =>
               eventList'[u] = eventList[u] /\ stateList'[u] = stateList[u]
    PROVE  IInv' /\ RInv'
<1>1. /\ PortTypeOK' /\ SuspendTypeOK' /\ TimeTypeOK' /\ NotifyTypeOK' /\ AppTypeOK'
      /\ PriorityTypeOK' /\ ControlTypeOK'
  BY UnchangedTypes DEF IInv, InterruptMaskSection
<1>2. SwitchTypeOK' /\ (pxCurrentTCB' = pxCurrentTCB \/ uxSchedulerSuspended = 0)
  <2>1. CASE vTaskSwitchContext(top) \/ NoSwitch(top)
    BY <1>1, <2>1, SwitchStep DEF IInv, TypeOK
  <2>2. CASE xYieldPending' = TRUE /\ uxTopReadyPriority' = top /\ UNCHANGED pxCurrentTCB
    BY <2>2 DEF SwitchTypeOK, IInv, TypeOK
  <2>. QED BY <2>1, <2>2
<1>3. ControlInv'
  BY <1>2, UnchangedControl DEF IInv, InterruptMaskSection, portVars, suspendVars
<1>4. IInv'
  BY <1>1, <1>2, <1>3 DEF IInv, TypeOK
<1>5. UNCHANGED <<pc, after, uxSchedulerSuspended, ucNotifyState>>
  BY DEF controlVars, suspendVars, notifyVars
<1>6. RunsOrLeaves'
  <2>1. CASE UNCHANGED pxCurrentTCB
    <3>1. pxCurrentTCB \in Task
      BY ListTypes
    <3>2. stateList'[pxCurrentTCB] \in {"ready", stateList[pxCurrentTCB]}
      BY <3>1
    <3>. QED BY <1>5, <2>1, <3>2 DEF RInv, RunsOrLeaves
  <2>2. CASE pxCurrentTCB' # pxCurrentTCB
    <3>1. stateList'[pxCurrentTCB'] = "ready"
      BY <2>2, SwitchRuns DEF NoSwitch
    <3>. QED BY <3>1 DEF RunsOrLeaves
  <2>. QED BY <2>1, <2>2
<1>7. DelaysAtOnce' /\ NotifiedInWait' /\ OnObjects'
  BY <1>5 DEF RInv, DelaysAtOnce, NotifiedInWait, OnObjects
<1>. QED BY <1>4, <1>6, <1>7 DEF RInv
---------------------------------------------------------------------------
(* The steps of the loop *)

\* The calls of the tasks that do not run.
LEMMA OthersStay ==
    ASSUME QueueCalls, NEW x \in Task, x # pxCurrentTCB,
           pc'[x] = pc[x], after'[x] = after[x], call'[x] = call[x],
           pxCurrentTCB' = pxCurrentTCB \/ uxSchedulerSuspended' = 0
    PROVE  OneCall(x)'
<1>1. OneCall(x)
  BY DEF QueueCalls
<1>. QED BY <1>1 DEF OneCall, CallOK

\* A task that is about to try, or to block, is ready and in no event list.
LEMMA ReadyInCall ==
    ASSUME QInv, NEW t \in Task, t = pxCurrentTCB, pc[t] \in {"run"} \union TryingLabel
    PROVE  /\ stateList[t] = "ready" /\ eventList[t] \notin ObjectLists
           /\ after[t] # "yieldUnless" /\ pc[t] \in {"run"} \union ObjectLabels
           /\ pc[t] = "run" => after[t] = "run"
<1>1. OneCall(t) /\ RInv
  BY DEF QInv, QueueCalls
<1>2. pc[t] \in {"run"} \union ObjectLabels
  BY QueueLabels DEF TryingLabel
<1>3. after[t] # "yieldUnless" /\ (pc[t] = "run" => after[t] = "run")
  BY <1>1, QueueLabels, ApartFromObjects DEF OneCall, CallOK, TryingLabel
<1>4. stateList[t] = "ready"
  BY <1>1, <1>2, <1>3, ApartFromObjects DEF RInv, RunsOrLeaves
<1>. QED BY <1>1, <1>2, <1>3, <1>4 DEF RInv, OnObjects, Blocked

\* A step of the running task that leaves the lists and the priorities alone.
LEMMA QuietLoopStep ==
    ASSUME QInv, NEW t \in Task, NEW label \in {"run", "resumeAll"} \union QueueLabel,
           t = pxCurrentTCB, pc[t] \in {"run"} \union QueueLabel, Goto(t, label),
           label = "run" => pc[t] = "run",
           label = "resumeAll" => uxSchedulerSuspended' > 0,
           pc[t] \in TryingLabel \union {"run"} \/ uxSchedulerSuspended' = uxSchedulerSuspended,
           uxSchedulerSuspended' \in Nat, WholeCriticalSection \/ UNCHANGED portVars,
           UNCHANGED <<switchVars, uxPendedTicks, timeVars, listVars, priorityVars, notifyVars,
                       after, arg, appVars, waiters>>,
           QueueTypes', \A x \in Task \ {t} : call'[x] = call[x],
           label \in QueueLabel => call'[t] # NoCall,
           call'[t] # NoCall => CallOK(t)'
    PROVE  QInv'
<1>1. IInv /\ RInv /\ OneCall(t) /\ UNCHANGED pxCurrentTCB
      /\ after \in [Task -> Continuation] /\ pc \in [Task -> Label]
  BY ListTypes DEF QInv, QueueCalls, switchVars
<1>2. after[t] = "yieldUnless" => pc[t] \in QueueLabel /\ pc[t] \notin TryingLabel
  BY <1>1, QueueLabels, ApartFromObjects DEF OneCall, CallOK
<1>3. label # "run" \/ after[t] = "run"
  BY <1>1, QueueLabels, ApartFromObjects DEF OneCall
<1>4. ObjectStep(t, label)
  BY <1>1, <1>3, QueueLabels DEF ObjectStep
<1>5. IInv' /\ RInv'
  <2>1. SwitchTypeOK' /\ TimeTypeOK' /\ ListTypeOK' /\ PriorityTypeOK'
    BY <1>1, UnchangedTypes DEF IInv
  <2>2. after' \in [Task -> Continuation] /\ UNCHANGED after
    BY <1>1
  <2>3. \/ stateList'[t] = "ready"
        \/ /\ stateList'[t] = stateList[t] /\ label # "run"
           /\ UNCHANGED <<after, uxSchedulerSuspended>>
    <3>1. CASE pc[t] \in TryingLabel \union {"run"}
      BY <3>1, ReadyInCall DEF listVars
    <3>2. CASE pc[t] \notin TryingLabel \union {"run"}
      BY <3>2 DEF listVars
    <3>. QED BY <3>1, <3>2
  <2>4. \A u \in Task : eventList'[u] = eventList[u] /\ stateList'[u] = stateList[u]
    BY DEF listVars
  <2>. QED BY <1>1, <1>4, <2>1, <2>2, <2>3, <2>4, ObjectBase
<1>6. WaitersInv'
  BY DEF QInv, WaitersInv, listVars
<1>7. ASSUME NEW x \in Task, x # t PROVE OneCall(x)'
  <2>1. pc'[x] = pc[x]
    BY <1>1, <1>7 DEF Goto
  <2>. QED BY <1>1, <1>7, <2>1, OthersStay DEF QInv
<1>8. OneCall(t)'
  <2>1. pc'[t] = label /\ after'[t] = after[t]
    BY <1>1 DEF Goto
  <2>2. after'[t] # "run" => label \in {"exit", "reset", "resumeAll", "replay"} \union ObjectLabels
    BY <1>3, <2>1, QueueLabels
  <2>3. label \in ObjectLabels => label \in QueueLabel /\ call'[t] # NoCall
    BY ApartFromObjects
  <2>. QED BY <1>1, <2>1, <2>2, <2>3 DEF OneCall
<1>9. QueueCalls'
  BY <1>7, <1>8 DEF QueueCalls
<1>. QED BY <1>5, <1>6, <1>9 DEF QInv

LEMMA BeginStep ==
    ASSUME QInv, NEW t \in Task, NEW n \in Tick, NEW args \in CallType, Begin(t, args, n),
           args # NoCall, args.wait = n, ~args.timed, ~args.expired,
           args.op = "send" /\ args.q \in Sized => args.item \in Item,
           args.op = "receive" /\ args.q \in Mutex => args.mode = "receive"
    PROVE  QInv'
<1>1. /\ t = pxCurrentTCB /\ pc[t] = "run" /\ t # Idle /\ call[t] = NoCall
      /\ n # 0 => uxSchedulerSuspended = 0
      /\ call' = [call EXCEPT ![t] = args] /\ due' = [due EXCEPT ![t] = n]
      /\ UNCHANGED <<vars, dataVars, lockVars, mutexVars, waiters, eventPriority>>
  BY DEF Begin, Calls, At
<1>2. /\ UNCHANGED <<portVars, switchVars, suspendVars, timeVars, listVars, priorityVars,
                     notifyVars, pc, after, arg, appVars>>
  BY <1>1 DEF vars, controlVars
<1>3. QueueTypes'
  <2>1. call' \in [Task -> CallType] /\ due' \in [Task -> Tick]
    BY <1>1 DEF QInv, QueueTypes
  <2>. QED BY <1>1, <2>1 DEF QInv, QueueTypes, dataVars, lockVars, mutexVars
<1>4. call'[t] = args /\ \A x \in Task \ {t} : call'[x] = call[x]
  BY <1>1 DEF QInv, QueueTypes
<1>5. OneCall(t) /\ after[t] = "run"
  BY <1>1, ReadyInCall DEF QInv, QueueCalls
<1>6. CallOK(t)'
  <2>1. pc'[t] = "run" /\ after'[t] = "run" /\ UNCHANGED <<pxCurrentTCB, uxSchedulerSuspended>>
    BY <1>1, <1>2, <1>5 DEF switchVars, suspendVars
  <2>2. "run" \notin LockedLabel /\ "run" \notin TryingLabel
    BY QueueLabels DEF LockedLabel, TryingLabel
  <2>. QED BY <1>1, <1>4, <2>1, <2>2 DEF CallOK, Tick
<1>7. Goto(t, "run") /\ uxSchedulerSuspended' \in Nat /\ "run" \notin QueueLabel
  <2>1. pc \in [Task -> Label] /\ uxSchedulerSuspended \in Nat
    BY ListTypes DEF QInv
  <2>. QED BY <1>1, <1>2, <2>1, QueueLabels DEF Goto, suspendVars
<1>. QED BY <1>1, <1>2, <1>3, <1>4, <1>6, <1>7, QuietLoopStep DEF suspendVars

LEMMA SendStep ==
    ASSUME QInv, NEW t \in Task, NEW q \in Queue, NEW item \in Item \union {"nothing"},
           item \in Contents(q), NEW position \in CopyPositions, NEW n \in SendWaits,
           xQueueGenericSend(t, q, item, position, n)
    PROVE  QInv'
<1>. DEFINE args == [op |-> "send", q |-> q, item |-> item, position |-> position, wait |-> n,
                     timed |-> FALSE, overflows |-> 0, entered |-> 0, expired |-> FALSE]
<1>1. n \in Tick /\ position \in CopyPosition /\ 0 \in Tick
  BY QueueAssumption, QueueLabels
<1>2. args \in CallType
  BY <1>1 DEF CallType, SendCall
<1>3. args # NoCall /\ (args.op = "send" /\ args.q \in Sized => args.item \in Item)
  BY DEF NoCall, Contents
<1>4. Begin(t, args, n)
  BY DEF xQueueGenericSend
<1>5. /\ args.wait = n /\ ~args.timed /\ ~args.expired
      /\ args.op # "receive"
  OBVIOUS
<1>. HIDE DEF args
<1>. QED BY <1>1, <1>2, <1>3, <1>4, <1>5, BeginStep

LEMMA ReceiveStep ==
    ASSUME QInv, NEW t \in Task, NEW q \in Queue, NEW mode \in ReceiveModes[t],
           NEW n \in ReceiveWaits, xQueueGenericReceive(t, q, mode, n)
    PROVE  QInv'
<1>. DEFINE args == [op |-> "receive", q |-> q, mode |-> mode, wait |-> n,
                     timed |-> FALSE, overflows |-> 0, entered |-> 0, expired |-> FALSE]
<1>1. n \in Tick /\ mode \in ReceiveMode /\ 0 \in Tick
  BY QueueAssumption, QueueLabels
<1>2. args \in CallType
  BY <1>1 DEF CallType, ReceiveCall
<1>3. args # NoCall /\ args.op # "send"
  BY DEF NoCall
<1>4. Begin(t, args, n)
  BY DEF xQueueGenericReceive
<1>5. /\ args.wait = n /\ ~args.timed /\ ~args.expired
      /\ args.q \in Mutex => args.mode = "receive"
  BY DEF xQueueGenericReceive
<1>. HIDE DEF args
<1>. QED BY <1>1, <1>2, <1>3, <1>4, <1>5, BeginStep

\* The call of the running task, with its types.
LEMMA ItsCall ==
    ASSUME QInv, NEW t \in Task, call[t] # NoCall
    PROVE  /\ CallOK(t) /\ call[t] \in CallType /\ call \in [Task -> CallType]
           /\ call[t].op \in {"send", "receive"} /\ call[t].q \in Queue
           /\ call[t].wait \in Tick /\ call[t].timed \in BOOLEAN
           /\ call[t].overflows \in Nat /\ call[t].entered \in Tick
           /\ call[t].expired \in BOOLEAN
           /\ uxSchedulerSuspended \in Nat /\ pc \in [Task -> Label]
<1>1. call \in [Task -> CallType] /\ CallOK(t)
  BY DEF QInv, QueueTypes, QueueCalls, OneCall
<1>2. uxSchedulerSuspended \in Nat /\ pc \in [Task -> Label]
  BY ListTypes DEF QInv
<1>3. call[t] \in CallType
  BY <1>1
<1>. QED BY <1>1, <1>2, <1>3, CallTypes

\* A step that only ends the call.
LEMMA ReturnTypes ==
    ASSUME QueueTypes, NEW t \in Task, Return(t)
    PROVE  /\ call' \in [Task -> CallType] /\ due' \in [Task -> Tick] /\ call'[t] = NoCall
           /\ \A x \in Task \ {t} : call'[x] = call[x]
  BY QueueLabels DEF Return, QueueTypes, CallType

LEMMA FailOrWaitStep ==
    ASSUME QInv, NEW t \in Task, At(t, "run"), call[t] # NoCall, ~call[t].expired, FailOrWait(t)
    PROVE  QInv'
<1>1. /\ t = pxCurrentTCB /\ pc[t] = "run" /\ WholeCriticalSection
      /\ UNCHANGED <<switchVars, suspendVars, timeVars, listVars, priorityVars, notifyVars,
                     after, arg, appVars, dataVars, lockVars, mutexVars, waiters, eventPriority>>
  BY DEF At, FailOrWait
<1>2. CallOK(t) /\ call[t] \in CallType /\ call \in [Task -> CallType] /\ call[t].wait \in Tick
      /\ uxSchedulerSuspended \in Nat /\ pc \in [Task -> Label]
  BY ItsCall
<1>3. uxSchedulerSuspended' = uxSchedulerSuspended /\ pxCurrentTCB' = pxCurrentTCB
  BY <1>1 DEF suspendVars, switchVars
<1>4. CASE Return(t) /\ UNCHANGED pc
  <2>1. /\ call' \in [Task -> CallType] /\ due' \in [Task -> Tick] /\ call'[t] = NoCall
        /\ \A x \in Task \ {t} : call'[x] = call[x]
    BY <1>4, ReturnTypes DEF QInv
  <2>2. QueueTypes'
    BY <1>1, <2>1 DEF QInv, QueueTypes, dataVars, lockVars, mutexVars
  <2>3. Goto(t, "run") /\ "run" \notin QueueLabel
    BY <1>1, <1>2, <1>4, QueueLabels DEF Goto
  <2>. QED BY <1>1, <1>2, <1>3, <2>1, <2>2, <2>3, QuietLoopStep DEF suspendVars
<1>5. CASE /\ call[t].wait > 0
           /\ call' = [call EXCEPT ![t] =
                  IF @.timed THEN @
                  ELSE [@ EXCEPT !.timed = TRUE, !.overflows = xNumOfOverflows,
                                 !.entered = xTickCount]]
           /\ Goto(t, "suspendAll")
           /\ UNCHANGED due
  <2>. DEFINE c == IF call[t].timed THEN call[t]
                   ELSE [call[t] EXCEPT !.timed = TRUE, !.overflows = xNumOfOverflows,
                                        !.entered = xTickCount]
  <2>1. xTickCount \in Tick /\ xNumOfOverflows \in Nat
    BY DEF QInv, IInv, TypeOK, TimeTypeOK
  <2>2. c \in CallType
    BY <1>2, <2>1, CallFields
  <2>3. /\ c.timed /\ c.wait = call[t].wait /\ c.expired = call[t].expired /\ c.op = call[t].op
        /\ c.q = call[t].q /\ c # NoCall
        /\ call[t].op = "send" => c.item = call[t].item
        /\ call[t].op = "receive" => c.mode = call[t].mode
    <3>1. CASE call[t] \in SendCall
      BY <3>1 DEF SendCall, NoCall
    <3>2. CASE call[t] \in ReceiveCall
      BY <3>2 DEF ReceiveCall, NoCall
    <3>. QED BY <1>2, <3>1, <3>2 DEF CallType
  <2>4. call' = [call EXCEPT ![t] = c]
    BY <1>5
  <2>. HIDE DEF c
  <2>5. call'[t] = c /\ call' \in [Task -> CallType] /\ \A x \in Task \ {t} : call'[x] = call[x]
    BY <1>2, <2>2, <2>4
  <2>6. QueueTypes'
    BY <1>1, <1>5, <2>5 DEF QInv, QueueTypes, dataVars, lockVars, mutexVars
  <2>7. after[t] = "run" /\ pc'[t] = "suspendAll" /\ UNCHANGED after
    BY <1>1, <1>2, <1>5, ReadyInCall DEF Goto
  <2>8. uxSchedulerSuspended = 0
    <3>1. "run" \notin LockedLabel
      BY QueueLabels DEF LockedLabel
    <3>. QED BY <1>1, <1>2, <1>5, <3>1 DEF CallOK
  <2>9. CallOK(t)'
    <3>1. "suspendAll" \notin LockedLabel /\ "suspendAll" \in QueueLabel
      BY DEF LockedLabel, QueueLabel
    <3>. QED BY <1>1, <1>2, <1>3, <1>5, <2>3, <2>5, <2>7, <2>8, <3>1 DEF CallOK, Tick
  <2>10. "suspendAll" \in QueueLabel
    BY DEF QueueLabel
  <2>. QED BY <1>1, <1>2, <1>3, <1>5, <2>3, <2>5, <2>6, <2>9, <2>10, QuietLoopStep DEF suspendVars
<1>. QED BY <1>4, <1>5 DEF FailOrWait

LEMMA ReturnExpiredStep ==
    ASSUME QInv, NEW t \in Task, ReturnExpired(t)
    PROVE  QInv'
<1>1. /\ t = pxCurrentTCB /\ pc[t] = "run" /\ call[t] # NoCall /\ call[t].expired
      /\ UNCHANGED <<switchVars, suspendVars, timeVars, listVars, priorityVars, notifyVars,
                     pc, after, arg, appVars, dataVars, lockVars, mutexVars, waiters,
                     eventPriority>>
      /\ WholeCriticalSection \/ UNCHANGED portVars
  BY DEF At, ReturnExpired, controlVars
<1>2. CallOK(t) /\ call[t] \in CallType /\ call \in [Task -> CallType] /\ call[t].wait \in Tick
      /\ uxSchedulerSuspended \in Nat /\ pc \in [Task -> Label]
  BY <1>1, ItsCall
<1>3. uxSchedulerSuspended' = uxSchedulerSuspended /\ pxCurrentTCB' = pxCurrentTCB
      /\ Goto(t, "run") /\ "run" \notin QueueLabel
  BY <1>1, <1>2, QueueLabels DEF suspendVars, switchVars, Goto
<1>4. CASE Return(t)
  <2>1. /\ call' \in [Task -> CallType] /\ due' \in [Task -> Tick] /\ call'[t] = NoCall
        /\ \A x \in Task \ {t} : call'[x] = call[x]
    BY <1>4, ReturnTypes DEF QInv
  <2>2. QueueTypes'
    BY <1>1, <2>1 DEF QInv, QueueTypes, dataVars, lockVars, mutexVars
  <2>. QED BY <1>1, <1>2, <1>3, <2>1, <2>2, QuietLoopStep DEF suspendVars
<1>5. CASE call' = [call EXCEPT ![t].expired = FALSE] /\ UNCHANGED due
  <2>. DEFINE c == [call[t] EXCEPT !.expired = FALSE]
  <2>1. call[t].timed \in BOOLEAN /\ call[t].overflows \in Nat /\ call[t].entered \in Tick
    BY <1>1, ItsCall
  <2>2. c \in CallType
    BY <1>1, <1>2, <2>1, CallFields
  <2>3. /\ c.timed = call[t].timed /\ c.wait = call[t].wait /\ ~c.expired /\ c.op = call[t].op
        /\ c.q = call[t].q /\ c # NoCall
        /\ call[t].op = "send" => c.item = call[t].item
        /\ call[t].op = "receive" => c.mode = call[t].mode
    <3>1. CASE call[t] \in SendCall
      BY <3>1 DEF SendCall, NoCall
    <3>2. CASE call[t] \in ReceiveCall
      BY <3>2 DEF ReceiveCall, NoCall
    <3>. QED BY <1>1, <1>2, <3>1, <3>2 DEF CallType
  <2>4. call' = [call EXCEPT ![t] = c]
    BY <1>5
  <2>. HIDE DEF c
  <2>5. call'[t] = c /\ call' \in [Task -> CallType] /\ \A x \in Task \ {t} : call'[x] = call[x]
    BY <1>2, <2>2, <2>4
  <2>6. QueueTypes'
    BY <1>1, <1>5, <2>5 DEF QInv, QueueTypes, dataVars, lockVars, mutexVars
  <2>7. CallOK(t)'
    <3>1. "run" \notin LockedLabel /\ "run" \notin TryingLabel /\ "run" # "inherit"
      BY QueueLabels DEF LockedLabel, TryingLabel
    <3>. QED BY <1>1, <1>2, <1>3, <2>3, <2>5, <3>1 DEF CallOK
  <2>. QED BY <1>1, <1>2, <1>3, <2>5, <2>6, <2>7, QuietLoopStep DEF suspendVars
<1>. QED BY <1>4, <1>5 DEF ReturnExpired

\* A point of the loop that is in a call.
LEMMA InLoop ==
    ASSUME QInv, NEW t \in Task, pc[t] \in QueueLabel
    PROVE  call[t] # NoCall /\ CallOK(t) /\ call[t].timed /\ call[t].wait > 0
  BY QueueLabels DEF QInv, QueueCalls, OneCall, CallOK

LEMMA SuspendAllStep ==
    ASSUME QInv, NEW t \in Task, SuspendAllToWait(t)
    PROVE  QInv'
<1>1. /\ t = pxCurrentTCB /\ pc[t] = "suspendAll" /\ Goto(t, "lockQueue")
      /\ uxSchedulerSuspended' = uxSchedulerSuspended + 1
      /\ UNCHANGED <<portVars, switchVars, uxPendedTicks, timeVars, listVars, priorityVars,
                     notifyVars, after, arg, appVars, dataVars, lockVars, mutexVars, waiters,
                     eventPriority, call, due>>
  BY DEF At, SuspendAllToWait, queueVars
<1>2. "suspendAll" \in TryingLabel /\ "suspendAll" \in QueueLabel /\ "lockQueue" \in QueueLabel
      /\ "suspendAll" \notin LockedLabel
  BY QueueLabels DEF QueueLabel, TryingLabel, LockedLabel
<1>3. call[t] # NoCall /\ CallOK(t) /\ call[t].timed /\ call[t].wait > 0
  BY <1>1, <1>2, InLoop
<1>4. uxSchedulerSuspended \in Nat /\ pc \in [Task -> Label]
  BY <1>3, ItsCall
<1>5. uxSchedulerSuspended = 0 /\ pxCurrentTCB' = pxCurrentTCB /\ pc'[t] = "lockQueue"
  BY <1>1, <1>2, <1>3, <1>4 DEF CallOK, switchVars, Goto
<1>6. CallOK(t)'
  <2>1. uxSchedulerSuspended' = 1 /\ UNCHANGED <<call, after>>
    BY <1>1, <1>5
  <2>2. "lockQueue" \in LockedLabel
    BY <1>2, QueueLabels DEF LockedLabel, QueueLabel
  <2>. QED BY <1>1, <1>2, <1>3, <1>5, <2>1, <2>2 DEF CallOK
<1>7. QueueTypes'
  BY <1>1 DEF QInv, QueueTypes, dataVars, lockVars, mutexVars
<1>8. "lockQueue" \notin {"run", "resumeAll"}
  BY QueueLabels
<1>9. uxSchedulerSuspended' \in Nat /\ UNCHANGED call
  BY <1>1, <1>4
<1>. QED BY <1>1, <1>2, <1>3, <1>6, <1>7, <1>8, <1>9, QuietLoopStep

\* A step of the loop under vTaskSuspendAll, before the task is in the event list.
LEMMA LockedStep ==
    ASSUME QInv, NEW t \in Task, NEW label \in QueueLabel, At(t, pc[t]),
           pc[t] \in LockedLabel \intersect TryingLabel,
           WholeCriticalSection, Goto(t, label), label # "suspendAll",
           UNCHANGED <<switchVars, suspendVars, timeVars, listVars, priorityVars, notifyVars,
                       after, arg, appVars, dataVars, mutexVars, waiters, eventPriority, due>>,
           cRxLock' \in [Queue -> Int], cTxLock' \in [Queue -> Int],
           NEW c \in CallType, call' = [call EXCEPT ![t] = c],
           c.timed, c.wait > 0, c.op = call[t].op, c.q = call[t].q, c # NoCall,
           call[t].op = "send" => c.item = call[t].item,
           call[t].op = "receive" => c.mode = call[t].mode,
           label \in TryingLabel => ~c.expired, label = "inherit" => c.q \in Mutex
    PROVE  QInv'
<1>1. t = pxCurrentTCB /\ pc[t] \in QueueLabel
  BY QueueLabels DEF At, TryingLabel
<1>2. call[t] # NoCall /\ CallOK(t) /\ uxSchedulerSuspended \in Nat /\ pc \in [Task -> Label]
      /\ call \in [Task -> CallType]
  BY <1>1, InLoop, ItsCall
<1>3. uxSchedulerSuspended = 1 /\ pxCurrentTCB' = pxCurrentTCB
      /\ uxSchedulerSuspended' = uxSchedulerSuspended /\ pc'[t] = label /\ after'[t] = after[t]
  BY <1>2 DEF CallOK, switchVars, suspendVars, Goto
<1>4. call'[t] = c /\ call' \in [Task -> CallType] /\ \A x \in Task \ {t} : call'[x] = call[x]
  BY <1>2
<1>5. label \in LockedLabel /\ label \notin {"run", "resumeAll"}
  BY QueueLabels DEF LockedLabel
<1>6. CallOK(t)'
  BY <1>2, <1>3, <1>4, <1>5 DEF CallOK
<1>7. QueueTypes'
  BY <1>4 DEF QInv, QueueTypes, dataVars, mutexVars
<1>. QED BY <1>1, <1>2, <1>3, <1>4, <1>5, <1>6, <1>7, QuietLoopStep DEF suspendVars

LEMMA LockQueueStep ==
    ASSUME QInv, NEW t \in Task, prvLockQueue(t)
    PROVE  QInv'
<1>1. /\ pc[t] = "lockQueue" /\ WholeCriticalSection /\ Goto(t, "check") /\ At(t, pc[t])
      /\ cRxLock' = [cRxLock EXCEPT ![call[t].q] = Locked(@)]
      /\ cTxLock' = [cTxLock EXCEPT ![call[t].q] = Locked(@)]
      /\ UNCHANGED <<switchVars, suspendVars, timeVars, listVars, priorityVars, notifyVars,
                     after, arg, appVars, dataVars, mutexVars, waiters, eventPriority, call, due>>
  BY DEF At, prvLockQueue
<1>2. pc[t] \in QueueLabel /\ pc[t] \in LockedLabel \intersect TryingLabel
      /\ "check" \in QueueLabel /\ "check" \notin {"suspendAll", "inherit"}
  BY <1>1 DEF QueueLabel, LockedLabel, TryingLabel
<1>3. call[t] # NoCall /\ CallOK(t) /\ call[t].timed /\ call[t].wait > 0
      /\ call[t] \in CallType /\ call \in [Task -> CallType]
  BY <1>2, InLoop, ItsCall
<1>4. cRxLock' \in [Queue -> Int] /\ cTxLock' \in [Queue -> Int]
  <2>1. \A n \in Int : Locked(n) \in Int
    BY DEF Locked
  <2>2. cRxLock \in [Queue -> Int] /\ cTxLock \in [Queue -> Int]
    BY DEF QInv, QueueTypes
  <2>. QED BY <1>1, <2>1, <2>2
<1>5. call' = [call EXCEPT ![t] = call[t]]
  BY <1>1, <1>3
<1>6. ~call[t].expired
  BY <1>2, <1>3 DEF CallOK
<1>. QED BY <1>1, <1>2, <1>3, <1>4, <1>5, <1>6, LockedStep

\* The ticks since a time, as the code subtracts them.
LEMMA TicksSinceType ==
    ASSUME NEW n \in Tick, xTickCount \in Tick
    PROVE  /\ TicksSince(n) \in Tick
           /\ xTickCount >= n => TicksSince(n) = xTickCount - n
           /\ xTickCount < n => TicksSince(n) = xTickCount + TickMod - n
<1>1. /\ xTickCount + TickMod - n \in Nat /\ xTickCount + TickMod - n <= 2 * TickMod - 1
      /\ TickMod \in Nat /\ xTickCount \in Nat /\ n \in Nat /\ n < TickMod /\ xTickCount < TickMod
  BY TasksAssumption DEF Tick
<1>2. CASE xTickCount >= n
  <2>1. xTickCount + TickMod - n >= TickMod
    BY <1>1, <1>2
  <2>2. Wrap(xTickCount + TickMod - n) = xTickCount + TickMod - n - TickMod
    BY <1>1, <2>1 DEF Wrap
  <2>. QED BY <1>1, <1>2, <2>2 DEF TicksSince, Tick
<1>3. CASE xTickCount < n
  <2>1. xTickCount + TickMod - n < TickMod
    BY <1>1, <1>3
  <2>2. Wrap(xTickCount + TickMod - n) = xTickCount + TickMod - n
    BY <1>1, <2>1 DEF Wrap
  <2>. QED BY <1>1, <1>3, <2>2 DEF TicksSince, Tick
<1>. QED BY <1>1, <1>2, <1>3

LEMMA CheckTypes ==
    ASSUME QInv, NEW t \in Task, call[t] # NoCall, call[t].wait > 0, call[t].timed
    PROVE  /\ xTaskCheckForTimeOut(t) \in CallType
           /\ xTaskCheckForTimeOut(t).timed /\ xTaskCheckForTimeOut(t).wait > 0
           /\ xTaskCheckForTimeOut(t).op = call[t].op /\ xTaskCheckForTimeOut(t).q = call[t].q
           /\ xTaskCheckForTimeOut(t) # NoCall
           /\ call[t].op = "send" => xTaskCheckForTimeOut(t).item = call[t].item
           /\ call[t].op = "receive" => xTaskCheckForTimeOut(t).mode = call[t].mode
<1>1. /\ call[t] \in CallType /\ call[t].entered \in Tick /\ call[t].wait \in Tick
      /\ call[t].overflows \in Nat
  BY ItsCall
<1>2. xTickCount \in Tick /\ xNumOfOverflows \in Nat
  BY DEF QInv, IInv, TypeOK, TimeTypeOK
<1>. DEFINE w == call[t].wait - TicksSince(call[t].entered)
<1>3. CASE /\ call[t].wait # portMAX_DELAY
           /\ ~ (\/ xNumOfOverflows # call[t].overflows /\ xTickCount >= call[t].entered
                 \/ TicksSince(call[t].entered) >= call[t].wait)
  <2>1. w \in Tick /\ w > 0
    <3>1. TicksSince(call[t].entered) \in Tick
      BY <1>1, <1>2, TicksSinceType
    <3>2. call[t].wait \in Nat /\ TicksSince(call[t].entered) \in Nat /\ TickMod \in Nat
          /\ call[t].wait < TickMod /\ TicksSince(call[t].entered) < call[t].wait
      BY <1>1, <1>3, <3>1, TasksAssumption DEF Tick
    <3>. QED BY <3>2 DEF Tick
  <2>2. xTaskCheckForTimeOut(t) = [call[t] EXCEPT !.wait = w, !.overflows = xNumOfOverflows,
                                                  !.entered = xTickCount]
    BY <1>3 DEF xTaskCheckForTimeOut
  <2>. HIDE DEF w
  <2>3. [call[t] EXCEPT !.wait = w, !.overflows = xNumOfOverflows, !.entered = xTickCount]
            \in CallType
    BY <1>1, <1>2, <2>1, CallFields
  <2>4. CASE call[t] \in SendCall
    BY <2>1, <2>2, <2>3, <2>4 DEF SendCall, NoCall
  <2>5. CASE call[t] \in ReceiveCall
    BY <2>1, <2>2, <2>3, <2>5 DEF ReceiveCall, NoCall
  <2>. QED BY <1>1, <2>4, <2>5 DEF CallType
<1>4. CASE /\ call[t].wait # portMAX_DELAY
           /\ \/ xNumOfOverflows # call[t].overflows /\ xTickCount >= call[t].entered
              \/ TicksSince(call[t].entered) >= call[t].wait
  <2>1. xTaskCheckForTimeOut(t) = [call[t] EXCEPT !.expired = TRUE]
    BY <1>4 DEF xTaskCheckForTimeOut
  <2>2. [call[t] EXCEPT !.expired = TRUE] \in CallType
    BY <1>1, CallFields
  <2>3. CASE call[t] \in SendCall
    BY <2>1, <2>2, <2>3 DEF SendCall, NoCall
  <2>4. CASE call[t] \in ReceiveCall
    BY <2>1, <2>2, <2>4 DEF ReceiveCall, NoCall
  <2>. QED BY <1>1, <2>3, <2>4 DEF CallType
<1>5. CASE call[t].wait = portMAX_DELAY
  BY <1>1, <1>5 DEF xTaskCheckForTimeOut
<1>. QED BY <1>3, <1>4, <1>5

LEMMA CheckStep ==
    ASSUME QInv, NEW t \in Task, CheckForTimeOut(t)
    PROVE  QInv'
<1>. DEFINE c == xTaskCheckForTimeOut(t)
<1>1. /\ pc[t] = "check" /\ WholeCriticalSection /\ At(t, pc[t])
      /\ call' = [call EXCEPT ![t] = c]
      /\ Goto(t, IF call'[t].expired THEN "unlockTx" ELSE "test")
      /\ UNCHANGED <<switchVars, suspendVars, timeVars, listVars, priorityVars, notifyVars,
                     after, arg, appVars, dataVars, lockVars, mutexVars, waiters, eventPriority,
                     due>>
  BY DEF At, CheckForTimeOut
<1>2. pc[t] \in QueueLabel /\ pc[t] \in LockedLabel \intersect TryingLabel
  BY <1>1 DEF QueueLabel, LockedLabel, TryingLabel
<1>3. call[t] # NoCall /\ CallOK(t) /\ call[t].timed /\ call[t].wait > 0
      /\ call[t] \in CallType /\ call \in [Task -> CallType]
  BY <1>2, InLoop, ItsCall
<1>4. cRxLock' \in [Queue -> Int] /\ cTxLock' \in [Queue -> Int]
  BY <1>1 DEF QInv, QueueTypes, lockVars
<1>5. /\ c \in CallType /\ c.timed /\ c.wait > 0 /\ c.op = call[t].op /\ c.q = call[t].q
      /\ c # NoCall
      /\ call[t].op = "send" => c.item = call[t].item
      /\ call[t].op = "receive" => c.mode = call[t].mode
  BY <1>3, CheckTypes
<1>. HIDE DEF c
<1>6. call'[t] = c
  BY <1>1, <1>3
<1>. DEFINE label == IF c.expired THEN "unlockTx" ELSE "test"
<1>7. /\ label \in QueueLabel /\ label # "suspendAll" /\ (label \in TryingLabel => ~c.expired)
      /\ Goto(t, label)
  BY <1>1, <1>6 DEF QueueLabel, TryingLabel
<1>8. label = "inherit" => c.q \in Mutex
  OBVIOUS
<1>. HIDE DEF label
<1>9. UNCHANGED <<switchVars, suspendVars, timeVars, listVars, priorityVars, notifyVars,
                  after, arg, appVars, dataVars, mutexVars, waiters, eventPriority, due>>
  BY <1>1
<1>. QED BY <1>1, <1>2, <1>4, <1>5, <1>7, <1>8, <1>9, LockedStep

LEMMA TestStep ==
    ASSUME QInv, NEW t \in Task, TestQueue(t)
    PROVE  QInv'
<1>1. PICK label \in {"unlockTx", "inherit", "place"} :
          /\ label = "inherit" => call[t].q \in Mutex
          /\ pc[t] = "test" /\ WholeCriticalSection /\ Goto(t, label) /\ At(t, pc[t])
          /\ UNCHANGED <<switchVars, suspendVars, timeVars, listVars, priorityVars, notifyVars,
                         after, arg, appVars, dataVars, lockVars, mutexVars, waiters,
                         eventPriority, call, due>>
  BY DEF At, TestQueue, queueVars
<1>2. pc[t] \in QueueLabel /\ pc[t] \in LockedLabel \intersect TryingLabel
      /\ label \in QueueLabel /\ label # "suspendAll"
  BY <1>1 DEF QueueLabel, LockedLabel, TryingLabel
<1>3. call[t] # NoCall /\ CallOK(t) /\ call[t].timed /\ call[t].wait > 0
      /\ call[t] \in CallType /\ call \in [Task -> CallType]
  BY <1>2, InLoop, ItsCall
<1>4. cRxLock' \in [Queue -> Int] /\ cTxLock' \in [Queue -> Int]
  BY <1>1 DEF QInv, QueueTypes, lockVars
<1>5. call' = [call EXCEPT ![t] = call[t]]
  BY <1>1, <1>3
<1>6. ~call[t].expired
  BY <1>2, <1>3 DEF CallOK
<1>. QED BY <1>1, <1>2, <1>3, <1>4, <1>5, <1>6, LockedStep

\* A step under the vTaskSuspendAll keeps what is said of the calls.
LEMMA LockedCalls ==
    ASSUME QInv, NEW t \in Task, t = pxCurrentTCB,
           NEW label \in (QueueLabel \union {"resumeAll"}) \ {"suspendAll", "inherit"},
           pc[t] \in QueueLabel, pc[t] \in LockedLabel, Goto(t, label),
           UNCHANGED <<pxCurrentTCB, uxSchedulerSuspended, call>>,
           \A x \in Task \ {t} : after'[x] = after[x],
           after'[t] \in {"run", "yield", "yieldUnless"},
           label \in TryingLabel => after'[t] # "yieldUnless" /\ ~call[t].expired
    PROVE  QueueCalls'
<1>1. /\ call[t] # NoCall /\ CallOK(t) /\ call[t].timed /\ call[t].wait > 0
      /\ pc \in [Task -> Label] /\ uxSchedulerSuspended = 1
  BY InLoop, ItsCall DEF CallOK
<1>2. pc'[t] = label /\ \A x \in Task \ {t} : pc'[x] = pc[x]
  BY <1>1 DEF Goto
<1>3. label \in LockedLabel /\ label # "run" /\ label \in ObjectLabels \union {"resumeAll"}
  BY QueueLabels DEF LockedLabel
<1>4. CallOK(t)'
  BY <1>1, <1>2, <1>3 DEF CallOK
<1>5. OneCall(t)'
  <2>1. after'[t] \notin ObjectLabels
    BY ApartFromObjects
  <2>2. "resumeAll" \notin ObjectLabels
    BY ApartFromObjects
  <2>. QED BY <1>1, <1>2, <1>3, <1>4, <2>1, <2>2 DEF OneCall
<1>6. ASSUME NEW x \in Task, x # t PROVE OneCall(x)'
  BY <1>2, <1>6, OthersStay DEF QInv
<1>. QED BY <1>5, <1>6 DEF QueueCalls

LEMMA InheritStep ==
    ASSUME QInv, NEW t \in Task, vTaskPriorityInherit(t)
    PROVE  QInv'
<1>. DEFINE priority == Inherited(t, call[t].q)
            raised == {u \in Task : priority[u] # uxPriority[u]}
            top == TopWith(raised \intersect Ready, priority)
<1>1. /\ t = pxCurrentTCB /\ pc[t] = "inherit" /\ WholeCriticalSection /\ Goto(t, "place")
      /\ uxPriority' = priority
      /\ eventPriority' = [u \in Task |-> IF u \in raised THEN priority[u] ELSE eventPriority[u]]
      /\ NoSwitch(top)
      /\ UNCHANGED <<suspendVars, timeVars, listVars, uxBasePriority, notifyVars, after, arg,
                     appVars, dataVars, lockVars, mutexVars, waiters, call, due>>
  BY DEF At, vTaskPriorityInherit
<1>2. IInv /\ RInv /\ uxPriority \in [Task -> Priority] /\ uxTopReadyPriority \in Priority
      /\ SwitchTypeOK /\ uxBasePriority \in [Task -> Priority]
  BY DEF QInv, IInv, TypeOK, PriorityTypeOK, SwitchTypeOK
<1>3. priority \in [Task -> Priority]
  BY <1>2 DEF Inherited
<1>. HIDE DEF priority
<1>4. raised \intersect Ready \in SUBSET Task
  OBVIOUS
<1>. HIDE DEF raised
<1>5. top \in Priority
  BY <1>2, <1>3, <1>4, TopWithType
<1>. HIDE DEF top
<1>6. PriorityTypeOK'
  BY <1>1, <1>2, <1>3 DEF PriorityTypeOK
<1>7. SwitchTypeOK' /\ UNCHANGED <<pxCurrentTCB, uxSchedulerSuspended>>
  BY <1>1, <1>2, <1>5, <1>6, SwitchStep DEF NoSwitch, suspendVars
<1>8. TimeTypeOK' /\ ListTypeOK'
  BY <1>1, <1>2, UnchangedTypes DEF IInv
<1>9. /\ pc[t] \in QueueLabel /\ pc[t] \in LockedLabel /\ pc[t] \in TryingLabel
      /\ "place" \in QueueLabel /\ "place" \notin {"suspendAll", "inherit"} /\ "place" # "run"
      /\ "place" # "resumeAll" /\ "place" \in ObjectLabels /\ pc[t] \in ObjectLabels
  BY <1>1, QueueLabels DEF QueueLabel, LockedLabel, TryingLabel
<1>10. /\ call[t] # NoCall /\ CallOK(t) /\ call[t].wait > 0 /\ uxSchedulerSuspended \in Nat
       /\ stateList[t] = "ready" /\ after[t] # "yieldUnless" /\ ~call[t].expired
       /\ after[t] \in {"run", "yield", "yieldUnless"}
  BY <1>1, <1>9, InLoop, ItsCall, ReadyInCall DEF CallOK
<1>11. ObjectStep(t, "place")
  BY <1>1, <1>7, <1>9 DEF ObjectStep
<1>12. IInv' /\ RInv'
  <2>1. after' \in [Task -> Continuation] /\ uxSchedulerSuspended' \in Nat
    BY <1>1, <1>2, <1>7, <1>10, ListTypes
  <2>2. \A u \in Task : eventList'[u] = eventList[u] /\ stateList'[u] = stateList[u]
    BY <1>1 DEF listVars
  <2>3. UNCHANGED <<uxPendedTicks, notifyVars, appVars>> /\ stateList'[t] = "ready"
    BY <1>1, <1>10 DEF suspendVars, listVars
  <2>. QED BY <1>2, <1>6, <1>7, <1>8, <1>11, <2>1, <2>2, <2>3, ObjectBase
<1>13. WaitersInv'
  BY <1>1 DEF QInv, WaitersInv, listVars
<1>14. QueueTypes'
  <2>1. eventPriority' \in [Task -> Priority]
    BY <1>1, <1>3 DEF QInv, QueueTypes
  <2>. QED BY <1>1, <2>1 DEF QInv, QueueTypes, dataVars, lockVars, mutexVars
<1>15. QueueCalls'
  BY <1>1, <1>7, <1>9, <1>10, LockedCalls
<1>. QED BY <1>12, <1>13, <1>14, <1>15 DEF QInv

\* vListInsert finds a place.
LEMMA QueuedIs ==
    ASSUME NEW s \in Seq(Task), Distinct(s), NEW t \in Task, ~InList(s, t),
           eventPriority \in [Task -> Priority]
    PROVE  /\ Queued(s, t) \in Seq(Task) /\ Distinct(Queued(s, t))
           /\ \A u \in Task : InList(Queued(s, t), u) <=> InList(s, u) \/ u = t
<1>. DEFINE Before(k) == \A i \in 1 .. k : eventPriority[s[i]] >= eventPriority[t]
            Place(k) == Before(k) /\ (k < Len(s) => eventPriority[s[k + 1]] < eventPriority[t])
            n == CHOOSE k \in 0 .. Len(s) : Place(k)
<1>1. \E k \in 0 .. Len(s) : Place(k)
  <2>. SUFFICES ASSUME \A k \in 0 .. Len(s) : ~Place(k) PROVE FALSE
    OBVIOUS
  <2>. DEFINE S == {k \in Nat : k <= Len(s) => Before(k)}
  <2>1. 0 \in S
    OBVIOUS
  <2>2. ASSUME NEW k \in S PROVE k + 1 \in S
    <3>. SUFFICES ASSUME k + 1 <= Len(s) PROVE Before(k + 1)
      BY <2>2
    <3>1. Before(k) /\ k \in 0 .. Len(s) /\ k < Len(s) /\ k \in Nat
      BY <2>2
    <3>2. ~(eventPriority[s[k + 1]] < eventPriority[t])
      BY <3>1
    <3>3. eventPriority[s[k + 1]] \in Priority /\ eventPriority[t] \in Priority
      BY <3>1
    <3>4. eventPriority[s[k + 1]] >= eventPriority[t]
      BY <3>2, <3>3, TasksAssumption DEF Priority
    <3>5. \A i \in 1 .. k + 1 : i \in 1 .. k \/ i = k + 1
      BY <3>1
    <3>. QED BY <3>1, <3>4, <3>5
  <2>3. Len(s) \in S
    <3>1. S \in SUBSET Nat /\ Len(s) \in Nat
      OBVIOUS
    <3>. HIDE DEF S
    <3>. QED BY <2>1, <2>2, <3>1, SetInduction
  <2>4. Place(Len(s)) /\ Len(s) \in 0 .. Len(s)
    BY <2>3
  <2>. HIDE DEF Place
  <2>. QED BY <2>4
<1>2. n \in 0 .. Len(s)
  <2>. HIDE DEF Place
  <2>. QED BY <1>1
<1>3. Queued(s, t) = InsertAt(s, n + 1, t)
  BY DEF Queued
<1>. HIDE DEF n
<1>. QED BY <1>2, <1>3, InsertIs

LEMMA PlaceInListStep ==
    ASSUME QInv, NEW t \in Task, vTaskPlaceOnEventList(t)
    PROVE  QInv'
<1>. DEFINE l == ListOf(t)
            n == call[t].wait
<1>1. /\ t = pxCurrentTCB /\ pc[t] = "place" /\ Goto(t, "unlockTx")
      /\ waiters' = [waiters EXCEPT ![l] = Queued(waiters[l], t)]
      /\ eventList' = [eventList EXCEPT ![t] = l]
      /\ prvAddCurrentTaskToDelayedList(t, n, TRUE)
      /\ after' = [after EXCEPT ![t] = "yieldUnless"]
      /\ UNCHANGED <<portVars, switchVars, suspendVars, xTickCount, xNumOfOverflows,
                     priorityVars, notifyVars, arg, appVars, dataVars, lockVars, mutexVars,
                     eventPriority, call, due>>
  BY DEF At, vTaskPlaceOnEventList
<1>2. /\ pc[t] \in QueueLabel /\ pc[t] \in LockedLabel /\ pc[t] \in TryingLabel
      /\ "unlockTx" \in QueueLabel /\ "unlockTx" \notin {"suspendAll", "inherit", "run"}
      /\ "unlockTx" # "resumeAll" /\ "unlockTx" \in ObjectLabels /\ pc[t] \in ObjectLabels
      /\ "unlockTx" \notin TryingLabel
  BY <1>1, QueueLabels DEF QueueLabel, LockedLabel, TryingLabel
<1>3. /\ call[t] # NoCall /\ CallOK(t) /\ call[t].wait > 0 /\ uxSchedulerSuspended = 1
      /\ eventList[t] \notin ObjectLists /\ call[t].q \in Queue /\ n \in Tick
      /\ n # 0
  BY <1>1, <1>2, InLoop, ItsCall, ReadyInCall DEF CallOK
<1>4. l \in ObjectLists
  BY <1>3, QueueAssumption DEF ListOf
<1>5. IInv /\ RInv /\ WaitersInv /\ QueueTypes
  BY DEF QInv
<1>. HIDE DEF l, n
<1>6. TimeTypeOK' /\ ListTypeOK'
  BY <1>1, <1>3, <1>4, <1>5, DelayedListStep DEF IInv, TypeOK, TimeTypeOK, ListTypeOK, EventList
<1>7. SwitchTypeOK' /\ PriorityTypeOK' /\ UNCHANGED <<pxCurrentTCB, uxSchedulerSuspended>>
  BY <1>1, <1>5, UnchangedTypes DEF IInv, switchVars, suspendVars
<1>8. /\ \A u \in Task \ {t} : stateList'[u] = stateList[u]
      /\ stateList'[t] \in Blocked
  BY <1>1, <1>5, ListTypes DEF prvAddCurrentTaskToDelayedList, Blocked
<1>9. /\ after' \in [Task -> Continuation] /\ after'[t] = "yieldUnless"
      /\ \A x \in Task \ {t} : after'[x] = after[x]
      /\ eventList'[t] = l /\ \A x \in Task \ {t} : eventList'[x] = eventList[x]
  BY <1>1, <1>5, ListTypes DEF Continuation
<1>10. ObjectStep(t, "unlockTx")
  BY <1>1, <1>2, <1>7, <1>9 DEF ObjectStep
<1>11. IInv' /\ RInv'
  <2>1. UNCHANGED <<uxPendedTicks, notifyVars, appVars>> /\ uxSchedulerSuspended' = 1
    BY <1>1, <1>3 DEF suspendVars
  <2>2. \A u \in Task : eventList'[u] \in ObjectLists =>
            \/ u = t /\ stateList'[t] \in Blocked
            \/ eventList'[u] = eventList[u] /\ stateList'[u] = stateList[u]
    BY <1>8, <1>9
  <2>. QED BY <1>2, <1>5, <1>6, <1>7, <1>9, <1>10, <2>1, <2>2, ObjectBase
<1>12. WaitersInv'
  <2>1. waiters[l] \in Seq(Task) /\ Distinct(waiters[l]) /\ ~InList(waiters[l], t)
    BY <1>3, <1>4, <1>5 DEF WaitersInv
  <2>. DEFINE s == Queued(waiters[l], t)
  <2>2. /\ s \in Seq(Task) /\ Distinct(s)
        /\ \A u \in Task : InList(s, u) <=> InList(waiters[l], u) \/ u = t
    BY <1>5, <2>1, QueuedIs DEF QueueTypes
  <2>3. waiters' = [waiters EXCEPT ![l] = s]
    BY <1>1
  <2>. HIDE DEF s
  <2>4. waiters' \in [ObjectLists -> Seq(Task)]
    BY <1>5, <2>2, <2>3 DEF WaitersInv
  <2>5. ASSUME NEW k \in ObjectLists
        PROVE  /\ Distinct(waiters'[k])
               /\ \A x \in Task : InList(waiters'[k], x) <=> eventList'[x] = k
    <3>1. CASE k = l
      <4>1. waiters'[k] = s
        BY <1>5, <2>3, <3>1 DEF WaitersInv
      <4>. QED BY <1>5, <1>9, <2>2, <3>1, <4>1 DEF WaitersInv
    <3>2. CASE k # l
      <4>1. waiters'[k] = waiters[k]
        BY <1>5, <2>3, <3>2 DEF WaitersInv
      <4>2. eventList'[t] # k /\ eventList[t] # k
        BY <1>3, <1>9, <3>2
      <4>. QED BY <1>5, <1>9, <4>1, <4>2 DEF WaitersInv
    <3>. QED BY <3>1, <3>2
  <2>. QED BY <2>4, <2>5 DEF WaitersInv
<1>13. QueueTypes'
  BY <1>1, <1>5 DEF QueueTypes, dataVars, lockVars, mutexVars
<1>14. QueueCalls'
  BY <1>1, <1>2, <1>7, <1>9, LockedCalls
<1>. QED BY <1>11, <1>12, <1>13, <1>14 DEF QInv

\* prvUnlockQueue wakes tasks into the pending list, since the scheduler is suspended.
LEMMA UnlockStep ==
    ASSUME QInv, NEW t \in Task, NEW label \in {"unlockRx", "resumeAll"},
           At(t, pc[t]), pc[t] \in {"unlockTx", "unlockRx"}, WholeCriticalSection,
           Goto(t, label), NEW count \in Int, NEW l \in ObjectLists, Unlock(t, count, l),
           cRxLock' \in [Queue -> Int], cTxLock' \in [Queue -> Int],
           UNCHANGED <<pxCurrentTCB, uxTopReadyPriority, suspendVars, timeVars, xItemValue,
                       priorityVars, notifyVars, after, arg, appVars, dataVars, mutexVars,
                       eventPriority, call, due>>
    PROVE  QInv'
<1>. DEFINE n == ToWake(count, l)
<1>1. IInv /\ RInv /\ WaitersInv /\ QueueTypes /\ ListTypeOK /\ t = pxCurrentTCB
      /\ SwitchTypeOK
  BY DEF QInv, IInv, TypeOK, At
<1>2. n \in 0 .. Len(waiters[l])
  <2>1. Len(waiters[l]) \in Nat
    BY <1>1 DEF WaitersInv
  <2>. QED BY <2>1 DEF ToWake
<1>3. WakeFirst(l, n) /\ xYieldPending' \in BOOLEAN
  BY DEF Unlock
<1>. HIDE DEF n
<1>4. /\ WaitersInv' /\ stateList' \in [Task -> StateList] /\ eventList' \in [Task -> EventList]
  BY <1>1, <1>2, <1>3, WakeFirstStep
<1>5. /\ pc[t] \in QueueLabel /\ pc[t] \in LockedLabel /\ pc[t] \in ObjectLabels
      /\ label \in (QueueLabel \union {"resumeAll"}) \ {"suspendAll", "inherit"} /\ label # "run"
      /\ label \in {"resumeAll"} \union ObjectLabels /\ label \notin TryingLabel
  BY QueueLabels DEF QueueLabel, LockedLabel, TryingLabel
<1>6. /\ call[t] # NoCall /\ CallOK(t) /\ uxSchedulerSuspended = 1
      /\ after[t] \in {"run", "yield", "yieldUnless"}
  BY <1>1, <1>5, InLoop DEF CallOK
<1>7. /\ stateList' = stateList
      /\ \A u \in Task : eventList'[u] \in {"pending", eventList[u]}
  BY <1>3, <1>6 DEF WakeFirst
<1>8. /\ SwitchTypeOK' /\ UNCHANGED <<pxCurrentTCB, uxSchedulerSuspended>>
      /\ uxSchedulerSuspended' = 1 /\ UNCHANGED uxPendedTicks
  BY <1>1, <1>3, <1>6 DEF SwitchTypeOK, suspendVars
<1>9. TimeTypeOK' /\ PriorityTypeOK'
  BY <1>1, UnchangedTypes DEF IInv
<1>10. ListTypeOK'
  BY <1>1, <1>4 DEF ListTypeOK
<1>11. ObjectStep(t, label)
  BY <1>1, <1>5, <1>8 DEF ObjectStep
<1>12. IInv' /\ RInv'
  <2>1. after' \in [Task -> Continuation] /\ UNCHANGED after
    BY <1>1, ListTypes
  <2>2. \A u \in Task : eventList'[u] \in ObjectLists =>
            eventList'[u] = eventList[u] /\ stateList'[u] = stateList[u]
    BY <1>7, QueueLabels
  <2>3. stateList'[t] = stateList[t]
    BY <1>7
  <2>. QED BY <1>1, <1>5, <1>8, <1>9, <1>10, <1>11, <2>1, <2>2, <2>3, ObjectBase
<1>13. QueueTypes'
  BY <1>1 DEF QueueTypes, dataVars, mutexVars
<1>14. QueueCalls'
  BY <1>1, <1>5, <1>6, <1>8, LockedCalls
<1>. QED BY <1>4, <1>12, <1>13, <1>14 DEF QInv

LEMMA UnlockTxStep ==
    ASSUME QInv, NEW t \in Task, UnlockTx(t)
    PROVE  QInv'
<1>1. "unlockTx" \in QueueLabel /\ pc[t] = "unlockTx" /\ At(t, pc[t])
  BY DEF UnlockTx, At, QueueLabel
<1>2. call[t] # NoCall /\ call[t].q \in Queue
  BY <1>1, InLoop, ItsCall
<1>3. /\ cTxLock[call[t].q] \in Int /\ xTasksWaitingToReceive[call[t].q] \in ObjectLists
      /\ [cTxLock EXCEPT ![call[t].q] = queueUNLOCKED] \in [Queue -> Int]
      /\ cRxLock \in [Queue -> Int]
  BY <1>2, QueueAssumption DEF QInv, QueueTypes, queueUNLOCKED
<1>. QED BY <1>1, <1>3, UnlockStep DEF UnlockTx

LEMMA UnlockRxStep ==
    ASSUME QInv, NEW t \in Task, UnlockRx(t)
    PROVE  QInv'
<1>1. "unlockRx" \in QueueLabel /\ pc[t] = "unlockRx" /\ At(t, pc[t])
  BY DEF UnlockRx, At, QueueLabel
<1>2. call[t] # NoCall /\ call[t].q \in Queue
  BY <1>1, InLoop, ItsCall
<1>3. /\ cRxLock[call[t].q] \in Int /\ xTasksWaitingToSend[call[t].q] \in ObjectLists
      /\ [cRxLock EXCEPT ![call[t].q] = queueUNLOCKED] \in [Queue -> Int]
      /\ cTxLock \in [Queue -> Int]
  BY <1>2, QueueAssumption DEF QInv, QueueTypes, queueUNLOCKED
<1>. QED BY <1>1, <1>3, UnlockStep DEF UnlockRx
---------------------------------------------------------------------------
(* The steps that move an item *)

LEMMA WakeOneStep ==
    ASSUME WaitersInv, ListTypeOK, NEW l \in ObjectLists, WakeOne(l)
    PROVE  /\ WaitersInv'
           /\ stateList' \in [Task -> StateList] /\ eventList' \in [Task -> EventList]
           /\ \A u \in Task : stateList'[u] \in {"ready", stateList[u]}
           /\ \A u \in Task : eventList'[u] \in ObjectLists =>
                  eventList'[u] = eventList[u] /\ stateList'[u] = stateList[u]
<1>1. CASE SomebodyWaits(l)
  <2>1. 1 \in 0 .. Len(waiters[l]) /\ WakeFirst(l, 1)
    BY <1>1, FirstIs DEF WakeOne
  <2>2. /\ WaitersInv'
        /\ stateList' \in [Task -> StateList] /\ eventList' \in [Task -> EventList]
    BY <2>1, WakeFirstStep
  <2>. DEFINE woken == {waiters[l][i] : i \in 1 .. 1}
  <2>3. \/ /\ stateList' = [t \in Task |-> IF t \in woken THEN "ready" ELSE stateList[t]]
           /\ eventList' = [t \in Task |-> IF t \in woken THEN "none" ELSE eventList[t]]
        \/ /\ eventList' = [t \in Task |-> IF t \in woken THEN "pending" ELSE eventList[t]]
           /\ UNCHANGED stateList
    BY <2>1 DEF WakeFirst
  <2>. HIDE DEF woken
  <2>. QED BY <2>2, <2>3, QueueLabels
<1>2. CASE ~SomebodyWaits(l)
  <2>1. UNCHANGED <<waiters, stateList, eventList>>
    BY <1>2 DEF WakeOne
  <2>. QED BY <2>1 DEF WaitersInv, ListTypeOK
<1>. QED BY <1>1, <1>2

LEMMA TopWithFirstType ==
    ASSUME WaitersInv, NEW l \in ObjectLists, NEW S \in SUBSET Task,
           NEW priority \in [Task -> Priority], uxTopReadyPriority \in Priority
    PROVE  TopWithFirst(l, S, priority) \in Priority
<1>1. SomebodyWaits(l) => {First(l)} \union S \in SUBSET Task
  BY FirstIs
<1>. QED BY <1>1, TopWithType DEF TopWithFirst

\* The ring of storage.
LEMMA RingIs ==
    ASSUME NEW q \in Sized, NEW i \in 0 .. uxLength[q] - 1
    PROVE  /\ Forward(q, i) \in 0 .. uxLength[q] - 1 /\ Back(q, i) \in 0 .. uxLength[q] - 1
           /\ Forward(q, i) = IF i + 1 = uxLength[q] THEN 0 ELSE i + 1
           /\ uxLength[q] \in Nat \ {0}
<1>1. uxLength[q] \in Nat \ {0}
  BY QueueAssumption
<1>2. CASE i + 1 = uxLength[q]
  BY <1>1, <1>2 DEF Forward, Back
<1>3. CASE i + 1 # uxLength[q]
  BY <1>1, <1>3 DEF Forward, Back
<1>. QED BY <1>1, <1>2, <1>3

\* What prvCopyDataToQueue writes.
LEMMA CopyToTypes ==
    ASSUME QueueTypes, NEW q \in Queue, NEW item, q \in Sized => item \in Item,
           NEW position \in CopyPosition, MayCopy(q, position),
           CopyToStorage(q, item, position), CountOneMore(q, position)
    PROVE  /\ pcWriteTo' \in [Sized -> Nat] /\ pcReadFrom' \in [Sized -> Nat]
           /\ \A r \in Sized : /\ pcWriteTo'[r] \in 0 .. uxLength[r] - 1
                               /\ pcReadFrom'[r] \in 0 .. uxLength[r] - 1
           /\ DOMAIN storage' = Sized
           /\ \A r \in Sized : storage'[r] \in [0 .. uxLength[r] - 1 -> Item]
           /\ uxMessagesWaiting' \in [Queue -> Nat]
           /\ \A r \in Queue : uxMessagesWaiting'[r] \in 0 .. uxLength[r]
<1>1. /\ uxMessagesWaiting' \in [Queue -> Nat]
      /\ \A r \in Queue : uxMessagesWaiting'[r] \in 0 .. uxLength[r]
  <2>1. uxLength[q] \in Nat \ {0} /\ uxMessagesWaiting[q] \in 0 .. uxLength[q]
    BY QueueAssumption DEF QueueTypes
  <2>2. CASE UNCHANGED uxMessagesWaiting
    BY <2>2 DEF QueueTypes
  <2>3. CASE /\ ~(q \in Sized /\ position = "queueOVERWRITE" /\ uxMessagesWaiting[q] > 0)
             /\ uxMessagesWaiting' = [uxMessagesWaiting EXCEPT ![q] = @ + 1]
    <3>1. uxMessagesWaiting[q] + 1 \in 0 .. uxLength[q]
      BY <2>1, <2>3 DEF MayCopy
    <3>. QED BY <2>3, <3>1 DEF QueueTypes
  <2>. QED BY <2>2, <2>3 DEF CountOneMore
<1>2. CASE q \notin Sized
  BY <1>1, <1>2 DEF CopyToStorage, QueueTypes
<1>3. CASE q \in Sized
  <2>1. /\ pcWriteTo[q] \in 0 .. uxLength[q] - 1 /\ pcReadFrom[q] \in 0 .. uxLength[q] - 1
        /\ storage[q] \in [0 .. uxLength[q] - 1 -> Item]
    BY <1>3 DEF QueueTypes
  <2>2. /\ Forward(q, pcWriteTo[q]) \in 0 .. uxLength[q] - 1
        /\ Back(q, pcReadFrom[q]) \in 0 .. uxLength[q] - 1
        /\ Forward(q, pcWriteTo[q]) \in Nat /\ Back(q, pcReadFrom[q]) \in Nat
    BY <1>3, <2>1, RingIs
  <2>3. ASSUME NEW i \in 0 .. uxLength[q] - 1, storage' = [storage EXCEPT ![q][i] = item]
        PROVE  /\ DOMAIN storage' = Sized
               /\ \A r \in Sized : storage'[r] \in [0 .. uxLength[r] - 1 -> Item]
    <3>1. [storage[q] EXCEPT ![i] = item] \in [0 .. uxLength[q] - 1 -> Item]
      BY <1>3, <2>1
    <3>2. storage' = [storage EXCEPT ![q] = [storage[q] EXCEPT ![i] = item]]
      BY <2>3
    <3>. QED BY <1>3, <3>1, <3>2 DEF QueueTypes
  <2>4. CASE position = "queueSEND_TO_BACK"
    <3>1. /\ storage' = [storage EXCEPT ![q][pcWriteTo[q]] = item] /\ UNCHANGED pcReadFrom
          /\ pcWriteTo' = [pcWriteTo EXCEPT ![q] = Forward(q, pcWriteTo[q])]
      BY <1>3, <2>4 DEF CopyToStorage
    <3>2. /\ pcWriteTo' \in [Sized -> Nat]
          /\ \A r \in Sized : pcWriteTo'[r] \in 0 .. uxLength[r] - 1
      BY <2>2, <3>1 DEF QueueTypes
    <3>3. /\ pcReadFrom' \in [Sized -> Nat]
          /\ \A r \in Sized : pcReadFrom'[r] \in 0 .. uxLength[r] - 1
      BY <3>1 DEF QueueTypes
    <3>4. /\ DOMAIN storage' = Sized
          /\ \A r \in Sized : storage'[r] \in [0 .. uxLength[r] - 1 -> Item]
      BY <2>1, <2>3, <3>1
    <3>. QED BY <1>1, <3>2, <3>3, <3>4
  <2>5. CASE position # "queueSEND_TO_BACK"
    <3>1. /\ storage' = [storage EXCEPT ![q][pcReadFrom[q]] = item] /\ UNCHANGED pcWriteTo
          /\ pcReadFrom' = [pcReadFrom EXCEPT ![q] = Back(q, pcReadFrom[q])]
      BY <1>3, <2>5 DEF CopyToStorage
    <3>2. /\ pcReadFrom' \in [Sized -> Nat]
          /\ \A r \in Sized : pcReadFrom'[r] \in 0 .. uxLength[r] - 1
      BY <2>2, <3>1 DEF QueueTypes
    <3>3. /\ pcWriteTo' \in [Sized -> Nat]
          /\ \A r \in Sized : pcWriteTo'[r] \in 0 .. uxLength[r] - 1
      BY <3>1 DEF QueueTypes
    <3>4. /\ DOMAIN storage' = Sized
          /\ \A r \in Sized : storage'[r] \in [0 .. uxLength[r] - 1 -> Item]
      BY <2>1, <2>3, <3>1
    <3>. QED BY <1>1, <3>2, <3>3, <3>4
  <2>. QED BY <2>4, <2>5
<1>. QED BY <1>2, <1>3

LEMMA CopyFromTypes ==
    ASSUME QueueTypes, NEW q \in Queue, NEW mode, uxMessagesWaiting[q] > 0,
           CopyFromStorage(q, mode)
    PROVE  /\ pcReadFrom' \in [Sized -> Nat]
           /\ \A r \in Sized : pcReadFrom'[r] \in 0 .. uxLength[r] - 1
           /\ UNCHANGED <<storage, pcWriteTo>>
           /\ uxMessagesWaiting' \in [Queue -> Nat]
           /\ \A r \in Queue : uxMessagesWaiting'[r] \in 0 .. uxLength[r]
<1>1. /\ uxMessagesWaiting' \in [Queue -> Nat]
      /\ \A r \in Queue : uxMessagesWaiting'[r] \in 0 .. uxLength[r]
  <2>1. uxLength[q] \in Nat \ {0} /\ uxMessagesWaiting[q] \in 0 .. uxLength[q]
    BY QueueAssumption DEF QueueTypes
  <2>2. CASE UNCHANGED uxMessagesWaiting
    BY <2>2 DEF QueueTypes
  <2>3. CASE uxMessagesWaiting' = [uxMessagesWaiting EXCEPT ![q] = @ - 1]
    <3>1. uxMessagesWaiting[q] - 1 \in 0 .. uxLength[q]
      BY <2>1
    <3>. QED BY <2>3, <3>1 DEF QueueTypes
  <2>. QED BY <2>2, <2>3 DEF CopyFromStorage
<1>2. /\ pcReadFrom' \in [Sized -> Nat]
      /\ \A r \in Sized : pcReadFrom'[r] \in 0 .. uxLength[r] - 1
  <2>1. CASE UNCHANGED pcReadFrom
    BY <2>1 DEF QueueTypes
  <2>2. CASE q \in Sized /\ pcReadFrom' = [pcReadFrom EXCEPT ![q] = Forward(q, pcReadFrom[q])]
    <3>1. pcReadFrom[q] \in 0 .. uxLength[q] - 1
      BY <2>2 DEF QueueTypes
    <3>2. Forward(q, pcReadFrom[q]) \in 0 .. uxLength[q] - 1 /\ Forward(q, pcReadFrom[q]) \in Nat
      BY <2>2, <3>1, RingIs
    <3>. QED BY <2>2, <3>2 DEF QueueTypes
  <2>. QED BY <2>1, <2>2 DEF CopyFromStorage
<1>. QED BY <1>1, <1>2 DEF CopyFromStorage

LEMMA GiveTypes ==
    ASSUME QueueTypes, PriorityTypeOK, NEW t \in Task, NEW q \in Queue, GiveMutex(t, q)
    PROVE  /\ PriorityTypeOK' /\ eventPriority' \in [Task -> Priority]
           /\ pxMutexHolder' \in [Mutex -> Task \union {"NULL"}]
           /\ uxMutexesHeld' \in [Task -> Int]
<1>. DEFINE back == IF Disinherits(t, q) THEN {t} ELSE {}
<1>1. /\ uxPriority' = [u \in Task |-> IF u \in back THEN uxBasePriority[u] ELSE uxPriority[u]]
      /\ eventPriority' = [u \in Task |-> IF u \in back THEN uxBasePriority[u]
                                          ELSE eventPriority[u]]
      /\ UNCHANGED uxBasePriority
  BY DEF GiveMutex
<1>. HIDE DEF back
<1>2. PriorityTypeOK' /\ eventPriority' \in [Task -> Priority]
  BY <1>1 DEF PriorityTypeOK, QueueTypes
<1>3. pxMutexHolder' \in [Mutex -> Task \union {"NULL"}]
  BY DEF GiveMutex, QueueTypes
<1>4. uxMutexesHeld' \in [Task -> Int]
  BY DEF GiveMutex, QueueTypes
<1>. QED BY <1>2, <1>3, <1>4

LEMMA TakeTypes ==
    ASSUME QueueTypes, NEW t \in Task, NEW q \in Queue, NEW mode, TakeMutex(t, q, mode)
    PROVE  /\ pxMutexHolder' \in [Mutex -> Task \union {"NULL"}]
           /\ uxMutexesHeld' \in [Task -> Int]
<1>1. CASE q \in Mutex /\ mode = "receive"
  <2>1. /\ pxMutexHolder' = [pxMutexHolder EXCEPT ![q] = t]
        /\ uxMutexesHeld' = [uxMutexesHeld EXCEPT ![t] = uxMutexesHeld[t] + 1]
    BY <1>1 DEF TakeMutex
  <2>. QED BY <1>1, <2>1 DEF QueueTypes
<1>2. CASE ~(q \in Mutex /\ mode = "receive")
  <2>1. UNCHANGED <<pxMutexHolder, uxMutexesHeld>>
    BY <1>2 DEF TakeMutex, mutexVars
  <2>. QED BY <2>1 DEF QueueTypes
<1>. QED BY <1>1, <1>2

\* The running task is at the top of a loop, or in no call, and ends in a critical section.
LEMMA SectionCalls ==
    ASSUME QInv, NEW t \in Task, t = pxCurrentTCB, pc[t] = "run", NEW yields, NEW top,
           YieldThenExit(t, yields, "run", top), UNCHANGED uxSchedulerSuspended,
           \A x \in Task \ {t} : call'[x] = call[x], call'[t] = NoCall
    PROVE  QueueCalls'
<1>1. pc \in [Task -> Label] /\ after \in [Task -> Continuation]
  BY ListTypes DEF QInv
<1>2. after[t] = "run"
  BY ReadyInCall
<1>3. /\ pc'[t] \in {"run", "exit"} /\ after'[t] = "run"
      /\ \A x \in Task \ {t} : pc'[x] = pc[x] /\ after'[x] = after[x]
  BY <1>1, <1>2 DEF YieldThenExit, Goto
<1>4. pxCurrentTCB' = pxCurrentTCB \/ uxSchedulerSuspended' = 0
  BY DEF YieldThenExit, vTaskSwitchContext, NoSwitch
<1>5. OneCall(t)'
  BY <1>3, ApartFromObjects DEF OneCall
<1>6. ASSUME NEW x \in Task, x # t PROVE OneCall(x)'
  BY <1>3, <1>4, <1>6, OthersStay DEF QInv
<1>. QED BY <1>5, <1>6 DEF QueueCalls

LEMMA SendItemStep ==
    ASSUME QInv, NEW t \in Task, SendItem(t)
    PROVE  QInv'
<1>. DEFINE q == call[t].q
            l == xTasksWaitingToReceive[q]
            back == IF Disinherits(t, q) THEN {t} ELSE {}
            top == TopWithFirst(l, back, uxPriority')
<1>1. /\ pc[t] = "run" /\ t = pxCurrentTCB /\ call[t].op = "send"
      /\ MayCopy(q, call[t].position) /\ CopyToStorage(q, call[t].item, call[t].position)
      /\ CountOneMore(q, call[t].position) /\ GiveMutex(t, q) /\ WakeOne(l) /\ Return(t)
      /\ UNCHANGED <<suspendVars, timeVars, xItemValue, notifyVars, arg, appVars,
                     lockVars, pvBuffer>>
      /\ YieldThenExit(t, YieldsForSend(t, q), "run", top)
  BY DEF SendItem, InCall, At
<1>2. call[t] # NoCall /\ Calls(t)
  <2>1. call[t] # NoCall
    BY <1>1 DEF NoCall
  <2>2. t # Idle
    BY <2>1, ItsCall DEF CallOK
  <2>. QED BY <1>1, <2>1, <2>2 DEF Calls, At
<1>3. /\ CallOK(t) /\ call[t] \in SendCall /\ q \in Queue /\ call[t].position \in CopyPosition
      /\ q \in Sized => call[t].item \in Item
  <2>1. CallOK(t) /\ call[t] \in CallType /\ q \in Queue
    BY <1>2, ItsCall
  <2>2. call[t] \in SendCall
    BY <1>1, <2>1, CallTypes
  <2>. QED BY <1>1, <2>1, <2>2 DEF CallOK, SendCall
<1>4. l \in ObjectLists
  BY <1>3, QueueAssumption
<1>5. /\ IInv /\ RInv /\ WaitersInv /\ QueueTypes /\ ListTypeOK /\ PriorityTypeOK
      /\ uxTopReadyPriority \in Priority
  BY DEF QInv, IInv, TypeOK, SwitchTypeOK
<1>6. back \in SUBSET Task
  OBVIOUS
<1>. HIDE DEF l, q, back
<1>7. /\ PriorityTypeOK' /\ eventPriority' \in [Task -> Priority]
      /\ pxMutexHolder' \in [Mutex -> Task \union {"NULL"}] /\ uxMutexesHeld' \in [Task -> Int]
  BY <1>1, <1>3, <1>5, GiveTypes
<1>8. top \in Priority
  <2>1. uxPriority' \in [Task -> Priority]
    BY <1>7 DEF PriorityTypeOK
  <2>. QED BY <1>4, <1>5, <1>6, <2>1, TopWithFirstType
<1>. HIDE DEF top
<1>9. /\ WaitersInv'
      /\ stateList' \in [Task -> StateList] /\ eventList' \in [Task -> EventList]
      /\ \A u \in Task : stateList'[u] \in {"ready", stateList[u]}
      /\ \A u \in Task : eventList'[u] \in ObjectLists =>
             eventList'[u] = eventList[u] /\ stateList'[u] = stateList[u]
  BY <1>1, <1>4, <1>5, WakeOneStep
<1>10. IInv' /\ RInv'
  <2>1. ListTypeOK'
    BY <1>1, <1>5, <1>9 DEF ListTypeOK
  <2>2. stateList'[t] = "ready"
    BY <1>1, <1>9, ReadyInCall
  <2>. QED BY <1>1, <1>2, <1>5, <1>7, <1>8, <1>9, <2>1, <2>2, SectionBase
<1>11. /\ call' \in [Task -> CallType] /\ due' \in [Task -> Tick] /\ call'[t] = NoCall
       /\ \A x \in Task \ {t} : call'[x] = call[x]
  BY <1>1, <1>5, ReturnTypes
<1>12. QueueTypes'
  <2>1. /\ pcWriteTo' \in [Sized -> Nat] /\ pcReadFrom' \in [Sized -> Nat]
        /\ \A r \in Sized : /\ pcWriteTo'[r] \in 0 .. uxLength[r] - 1
                            /\ pcReadFrom'[r] \in 0 .. uxLength[r] - 1
        /\ DOMAIN storage' = Sized
        /\ \A r \in Sized : storage'[r] \in [0 .. uxLength[r] - 1 -> Item]
        /\ uxMessagesWaiting' \in [Queue -> Nat]
        /\ \A r \in Queue : uxMessagesWaiting'[r] \in 0 .. uxLength[r]
    BY <1>1, <1>3, <1>5, CopyToTypes
  <2>2. cRxLock' \in [Queue -> Int] /\ cTxLock' \in [Queue -> Int]
    BY <1>1, <1>5 DEF QueueTypes, lockVars
  <2>. QED BY <1>7, <1>11, <2>1, <2>2 DEF QueueTypes
<1>13. QueueCalls'
  BY <1>1, <1>11, SectionCalls DEF suspendVars
<1>. QED BY <1>9, <1>10, <1>12, <1>13 DEF QInv

LEMMA ReceiveItemStep ==
    ASSUME QInv, NEW t \in Task, ReceiveItem(t)
    PROVE  QInv'
<1>. DEFINE q == call[t].q
            l == IF call[t].mode = "peek" THEN xTasksWaitingToReceive[q]
                 ELSE xTasksWaitingToSend[q]
            top == TopWithFirst(l, {}, uxPriority)
<1>1. /\ pc[t] = "run" /\ t = pxCurrentTCB /\ call[t].op = "receive"
      /\ uxMessagesWaiting[q] > 0 /\ CopyFromStorage(q, call[t].mode)
      /\ TakeMutex(t, q, call[t].mode) /\ WakeOne(l) /\ Return(t)
      /\ UNCHANGED <<suspendVars, timeVars, xItemValue, priorityVars, notifyVars, arg, appVars,
                     lockVars, eventPriority>>
      /\ YieldThenExit(t, WokeMoreUrgent(l, uxPriority, t), "run", top)
  BY DEF ReceiveItem, InCall, At
<1>2. call[t] # NoCall /\ Calls(t)
  <2>1. call[t] # NoCall
    BY <1>1 DEF NoCall
  <2>2. t # Idle
    BY <2>1, ItsCall DEF CallOK
  <2>. QED BY <1>1, <2>1, <2>2 DEF Calls, At
<1>3. q \in Queue
  BY <1>2, ItsCall
<1>4. l \in ObjectLists
  BY <1>3, QueueAssumption
<1>5. /\ IInv /\ RInv /\ WaitersInv /\ QueueTypes /\ ListTypeOK /\ PriorityTypeOK
      /\ uxTopReadyPriority \in Priority /\ uxPriority \in [Task -> Priority]
  BY DEF QInv, IInv, TypeOK, SwitchTypeOK, PriorityTypeOK
<1>. HIDE DEF l, q
<1>6. top \in Priority
  BY <1>4, <1>5, TopWithFirstType
<1>. HIDE DEF top
<1>7. /\ WaitersInv'
      /\ stateList' \in [Task -> StateList] /\ eventList' \in [Task -> EventList]
      /\ \A u \in Task : stateList'[u] \in {"ready", stateList[u]}
      /\ \A u \in Task : eventList'[u] \in ObjectLists =>
             eventList'[u] = eventList[u] /\ stateList'[u] = stateList[u]
  BY <1>1, <1>4, <1>5, WakeOneStep
<1>8. IInv' /\ RInv'
  <2>1. ListTypeOK' /\ PriorityTypeOK'
    BY <1>1, <1>5, <1>7, UnchangedTypes DEF ListTypeOK, IInv
  <2>2. stateList'[t] = "ready"
    BY <1>1, <1>7, ReadyInCall
  <2>. QED BY <1>1, <1>2, <1>5, <1>6, <1>7, <2>1, <2>2, SectionBase
<1>9. /\ call' \in [Task -> CallType] /\ due' \in [Task -> Tick] /\ call'[t] = NoCall
      /\ \A x \in Task \ {t} : call'[x] = call[x]
  BY <1>1, <1>5, ReturnTypes
<1>10. QueueTypes'
  <2>1. /\ pcReadFrom' \in [Sized -> Nat]
        /\ \A r \in Sized : pcReadFrom'[r] \in 0 .. uxLength[r] - 1
        /\ UNCHANGED <<storage, pcWriteTo>>
        /\ uxMessagesWaiting' \in [Queue -> Nat]
        /\ \A r \in Queue : uxMessagesWaiting'[r] \in 0 .. uxLength[r]
    BY <1>1, <1>3, <1>5, CopyFromTypes
  <2>2. cRxLock' \in [Queue -> Int] /\ cTxLock' \in [Queue -> Int]
    BY <1>1, <1>5 DEF QueueTypes, lockVars
  <2>3. pxMutexHolder' \in [Mutex -> Task \union {"NULL"}] /\ uxMutexesHeld' \in [Task -> Int]
    BY <1>1, <1>3, <1>5, TakeTypes
  <2>. QED BY <1>1, <1>5, <1>9, <2>1, <2>2, <2>3 DEF QueueTypes
<1>11. QueueCalls'
  BY <1>1, <1>9, SectionCalls DEF suspendVars
<1>. QED BY <1>7, <1>8, <1>10, <1>11 DEF QInv

\* xQueueReset, of a task that is in no call.
LEMMA ResetStep ==
    ASSUME QInv, NEW t \in Task, NEW q \in Queue, xQueueReset(t, q)
    PROVE  QInv'
<1>. DEFINE l == xTasksWaitingToSend[q]
            top == TopWithFirst(l, {}, uxPriority)
<1>1. /\ Calls(t) /\ pc[t] = "run" /\ t = pxCurrentTCB /\ call[t] = NoCall /\ WakeOne(l)
      /\ pcWriteTo' = [pcWriteTo EXCEPT ![q] = 0]
      /\ pcReadFrom' = [pcReadFrom EXCEPT ![q] = uxLength[q] - 1]
      /\ uxMessagesWaiting' = [uxMessagesWaiting EXCEPT ![q] = 0]
      /\ cRxLock' = [cRxLock EXCEPT ![q] = queueUNLOCKED]
      /\ cTxLock' = [cTxLock EXCEPT ![q] = queueUNLOCKED]
      /\ UNCHANGED <<suspendVars, timeVars, xItemValue, priorityVars, notifyVars, arg, appVars,
                     storage, pvBuffer, sent, mutexVars, eventPriority, call, due>>
      /\ YieldThenExit(t, WokeMoreUrgent(l, uxPriority, t), "run", top)
  BY DEF xQueueReset, Calls, At
<1>2. l \in ObjectLists /\ uxLength[q] \in Nat \ {0}
  BY QueueAssumption
<1>3. /\ IInv /\ RInv /\ WaitersInv /\ QueueTypes /\ ListTypeOK
      /\ uxTopReadyPriority \in Priority /\ uxPriority \in [Task -> Priority]
  BY DEF QInv, IInv, TypeOK, SwitchTypeOK, PriorityTypeOK
<1>. HIDE DEF l
<1>4. top \in Priority
  BY <1>2, <1>3, TopWithFirstType
<1>. HIDE DEF top
<1>5. /\ WaitersInv'
      /\ stateList' \in [Task -> StateList] /\ eventList' \in [Task -> EventList]
      /\ \A u \in Task : stateList'[u] \in {"ready", stateList[u]}
      /\ \A u \in Task : eventList'[u] \in ObjectLists =>
             eventList'[u] = eventList[u] /\ stateList'[u] = stateList[u]
  BY <1>1, <1>2, <1>3, WakeOneStep
<1>6. IInv' /\ RInv'
  <2>1. ListTypeOK' /\ PriorityTypeOK'
    BY <1>1, <1>3, <1>5, UnchangedTypes DEF ListTypeOK, IInv
  <2>2. stateList'[t] = "ready"
    BY <1>1, <1>5, ReadyInCall
  <2>. QED BY <1>1, <1>3, <1>4, <1>5, <2>1, <2>2, SectionBase
<1>7. QueueTypes'
  <2>1. /\ pcWriteTo' \in [Sized -> Nat] /\ pcReadFrom' \in [Sized -> Nat]
        /\ \A r \in Sized : /\ pcWriteTo'[r] \in 0 .. uxLength[r] - 1
                            /\ pcReadFrom'[r] \in 0 .. uxLength[r] - 1
    <3>1. 0 \in 0 .. uxLength[q] - 1 /\ uxLength[q] - 1 \in 0 .. uxLength[q] - 1
          /\ uxLength[q] - 1 \in Nat
      BY <1>2
    <3>2. /\ pcWriteTo' \in [Sized -> Nat]
          /\ \A r \in Sized : pcWriteTo'[r] \in 0 .. uxLength[r] - 1
      BY <1>1, <1>3, <3>1 DEF QueueTypes
    <3>3. /\ pcReadFrom' \in [Sized -> Nat]
          /\ \A r \in Sized : pcReadFrom'[r] \in 0 .. uxLength[r] - 1
      BY <1>1, <1>3, <3>1 DEF QueueTypes
    <3>. QED BY <3>2, <3>3
  <2>2. /\ uxMessagesWaiting' \in [Queue -> Nat]
        /\ \A r \in Queue : uxMessagesWaiting'[r] \in 0 .. uxLength[r]
    BY <1>1, <1>2, <1>3 DEF QueueTypes
  <2>3. cRxLock' \in [Queue -> Int] /\ cTxLock' \in [Queue -> Int]
    BY <1>1, <1>3 DEF QueueTypes, queueUNLOCKED
  <2>. QED BY <1>1, <1>3, <2>1, <2>2, <2>3 DEF QueueTypes, mutexVars
<1>8. QueueCalls'
  BY <1>1, SectionCalls DEF suspendVars
<1>. QED BY <1>5, <1>6, <1>7, <1>8 DEF QInv

\* What an interrupt says of the calls, whatever it switches to.
LEMMA InterruptCalls ==
    ASSUME QInv, UNCHANGED <<controlVars, uxSchedulerSuspended, call>>,
           pxCurrentTCB' = pxCurrentTCB \/ uxSchedulerSuspended = 0
    PROVE  QueueCalls'
<1>1. UNCHANGED <<pc, after>>
  BY DEF controlVars
<1>2. ASSUME NEW x \in Task PROVE OneCall(x)'
  <2>1. OneCall(x)
    BY DEF QInv, QueueCalls
  <2>. QED BY <1>1, <2>1 DEF OneCall, CallOK
<1>. QED BY <1>2 DEF QueueCalls

\* The end of a call from an interrupt that finds the queue unlocked.
LEMMA LeaveInterruptStep ==
    ASSUME QInv, InterruptMaskSection, NEW l \in ObjectLists, WakeOne(l), LeaveInterrupt(l),
           UNCHANGED <<suspendVars, timeVars, xItemValue, priorityVars, notifyVars, controlVars,
                       appVars, call>>
    PROVE  IInv' /\ RInv' /\ WaitersInv' /\ QueueCalls'
<1>. DEFINE top == TopWithFirst(l, {}, uxPriority)
<1>1. \/ vTaskSwitchContext(top) \/ NoSwitch(top)
      \/ xYieldPending' = TRUE /\ uxTopReadyPriority' = top /\ UNCHANGED pxCurrentTCB
  BY DEF LeaveInterrupt
<1>2. /\ IInv /\ RInv /\ WaitersInv /\ ListTypeOK
      /\ uxTopReadyPriority \in Priority /\ uxPriority \in [Task -> Priority]
  BY DEF QInv, IInv, TypeOK, SwitchTypeOK, PriorityTypeOK
<1>3. top \in Priority
  BY <1>2, TopWithFirstType
<1>. HIDE DEF top
<1>4. /\ WaitersInv'
      /\ stateList' \in [Task -> StateList] /\ eventList' \in [Task -> EventList]
      /\ \A u \in Task : stateList'[u] \in {"ready", stateList[u]}
      /\ \A u \in Task : eventList'[u] \in ObjectLists =>
             eventList'[u] = eventList[u] /\ stateList'[u] = stateList[u]
  BY <1>2, WakeOneStep
<1>5. ListTypeOK' /\ pxCurrentTCB \in Task
  BY <1>2, <1>4, ListTypes DEF ListTypeOK
<1>6. IInv' /\ RInv'
  <2>1. \A u \in Task : stateList[u] = "ready" => stateList'[u] = "ready"
    BY <1>4
  <2>2. stateList'[pxCurrentTCB] \in {"ready", stateList[pxCurrentTCB]}
    BY <1>4, <1>5
  <2>. QED BY <1>1, <1>2, <1>3, <1>4, <1>5, <2>1, <2>2, InterruptBase
<1>7. pxCurrentTCB' = pxCurrentTCB \/ uxSchedulerSuspended = 0
  BY <1>1 DEF vTaskSwitchContext, NoSwitch
<1>8. QueueCalls'
  BY <1>7, InterruptCalls DEF suspendVars
<1>. QED BY <1>4, <1>6, <1>8

\* One that finds it locked counts.
LEMMA CountInterruptStep ==
    ASSUME QInv, InterruptMaskSection,
           UNCHANGED <<suspendVars, timeVars, xItemValue, priorityVars, notifyVars, controlVars,
                       appVars, call, switchVars, stateList, eventList, waiters>>
    PROVE  IInv' /\ RInv' /\ WaitersInv' /\ QueueCalls'
<1>1. IInv /\ RInv /\ WaitersInv /\ SwitchTypeOK
  BY DEF QInv, IInv, TypeOK
<1>2. /\ uxTopReadyPriority \in Priority /\ NoSwitch(uxTopReadyPriority)
      /\ UNCHANGED pxCurrentTCB
  BY <1>1 DEF SwitchTypeOK, NoSwitch, switchVars
<1>3. ListTypeOK'
  BY <1>1 DEF IInv, TypeOK, ListTypeOK
<1>4. IInv' /\ RInv'
  BY <1>1, <1>2, <1>3, InterruptBase
<1>5. QueueCalls'
  BY <1>2, InterruptCalls DEF suspendVars
<1>6. WaitersInv'
  BY <1>1 DEF WaitersInv
<1>. QED BY <1>4, <1>5, <1>6

LEMMA IncrementType ==
    ASSUME NEW n \in Int
    PROVE  Increment(n) \in Int
  BY QueueAssumption DEF Increment

LEMMA SendFromISRStep ==
    ASSUME QInv, NEW q \in IsrSends, NEW position \in CopyPositions, NEW item,
           item \in Contents(q), xQueueGenericSendFromISR(q, item, position)
    PROVE  QInv'
<1>. DEFINE l == xTasksWaitingToReceive[q]
<1>1. /\ q \in Queue /\ position \in CopyPosition /\ l \in ObjectLists
      /\ q \in Sized => item \in Item
  BY QueueAssumption DEF Contents
<1>2. /\ InterruptMaskSection /\ MayCopy(q, position) /\ CopyToStorage(q, item, position)
      /\ CountOneMore(q, position)
      /\ UNCHANGED <<suspendVars, timeVars, xItemValue, priorityVars, notifyVars, controlVars,
                     appVars, pvBuffer, cRxLock, mutexVars, eventPriority, call, due>>
  BY DEF xQueueGenericSendFromISR
<1>3. \/ WakeOne(l) /\ UNCHANGED cTxLock /\ LeaveInterrupt(l)
      \/ /\ cTxLock' = [cTxLock EXCEPT ![q] = Increment(cTxLock[q])]
         /\ UNCHANGED <<switchVars, stateList, eventList, waiters>>
  BY DEF xQueueGenericSendFromISR
<1>. HIDE DEF l
<1>4. IInv' /\ RInv' /\ WaitersInv' /\ QueueCalls'
  BY <1>1, <1>2, <1>3, LeaveInterruptStep, CountInterruptStep
<1>5. QueueTypes'
  <2>1. QueueTypes
    BY DEF QInv
  <2>2. /\ pcWriteTo' \in [Sized -> Nat] /\ pcReadFrom' \in [Sized -> Nat]
        /\ \A r \in Sized : /\ pcWriteTo'[r] \in 0 .. uxLength[r] - 1
                            /\ pcReadFrom'[r] \in 0 .. uxLength[r] - 1
        /\ DOMAIN storage' = Sized
        /\ \A r \in Sized : storage'[r] \in [0 .. uxLength[r] - 1 -> Item]
        /\ uxMessagesWaiting' \in [Queue -> Nat]
        /\ \A r \in Queue : uxMessagesWaiting'[r] \in 0 .. uxLength[r]
    BY <1>1, <1>2, <2>1, CopyToTypes
  <2>3. cTxLock' \in [Queue -> Int]
    <3>1. Increment(cTxLock[q]) \in Int
      BY <1>1, <2>1, IncrementType DEF QueueTypes
    <3>. QED BY <1>3, <2>1, <3>1 DEF QueueTypes
  <2>. QED BY <1>2, <2>1, <2>2, <2>3 DEF QueueTypes, mutexVars
<1>. QED BY <1>4, <1>5 DEF QInv

LEMMA ReceiveFromISRStep ==
    ASSUME QInv, NEW q \in IsrReceives, xQueueReceiveFromISR(q)
    PROVE  QInv'
<1>. DEFINE l == xTasksWaitingToSend[q]
<1>1. q \in Queue /\ l \in ObjectLists
  BY QueueAssumption
<1>2. /\ InterruptMaskSection /\ uxMessagesWaiting[q] > 0 /\ CopyFromStorage(q, "receive")
      /\ UNCHANGED <<suspendVars, timeVars, xItemValue, priorityVars, notifyVars, controlVars,
                     appVars, cTxLock, mutexVars, eventPriority, call, due>>
  BY DEF xQueueReceiveFromISR
<1>3. \/ WakeOne(l) /\ UNCHANGED cRxLock /\ LeaveInterrupt(l)
      \/ /\ cRxLock' = [cRxLock EXCEPT ![q] = Increment(cRxLock[q])]
         /\ UNCHANGED <<switchVars, stateList, eventList, waiters>>
  BY DEF xQueueReceiveFromISR
<1>. HIDE DEF l
<1>4. IInv' /\ RInv' /\ WaitersInv' /\ QueueCalls'
  BY <1>1, <1>2, <1>3, LeaveInterruptStep, CountInterruptStep
<1>5. QueueTypes'
  <2>1. QueueTypes
    BY DEF QInv
  <2>2. /\ pcReadFrom' \in [Sized -> Nat]
        /\ \A r \in Sized : pcReadFrom'[r] \in 0 .. uxLength[r] - 1
        /\ UNCHANGED <<storage, pcWriteTo>>
        /\ uxMessagesWaiting' \in [Queue -> Nat]
        /\ \A r \in Queue : uxMessagesWaiting'[r] \in 0 .. uxLength[r]
    BY <1>1, <1>2, <2>1, CopyFromTypes
  <2>3. cRxLock' \in [Queue -> Int]
    <3>1. Increment(cRxLock[q]) \in Int
      BY <1>1, <2>1, IncrementType DEF QueueTypes
    <3>. QED BY <1>3, <2>1, <3>1 DEF QueueTypes
  <2>. QED BY <1>2, <2>1, <2>2, <2>3 DEF QueueTypes, mutexVars
<1>. QED BY <1>4, <1>5 DEF QInv

LEMMA ContinueQInv ==
    ASSUME QInv, NEW t \in Task, QueueContinue(t)
    PROVE  QInv'
<1>1. CASE SendFailsOrWaits(t) \/ ReceiveFailsOrWaits(t)
  <2>1. At(t, "run") /\ call[t] # NoCall /\ ~call[t].expired /\ FailOrWait(t)
    BY <1>1 DEF SendFailsOrWaits, ReceiveFailsOrWaits, InCall, NoCall
  <2>. QED BY <2>1, FailOrWaitStep
<1>2. CASE ~(SendFailsOrWaits(t) \/ ReceiveFailsOrWaits(t))
  BY <1>2, SendItemStep, ReceiveItemStep, ReturnExpiredStep, SuspendAllStep, LockQueueStep,
     CheckStep, TestStep, InheritStep, PlaceInListStep, UnlockTxStep, UnlockRxStep
     DEF QueueContinue
<1>. QED BY <1>1, <1>2

LEMMA CallQInv ==
    ASSUME QInv, NEW t \in Task, QueueCall(t)
    PROVE  QInv'
<1>1. Resettable \subseteq Queue
  BY QueueAssumption
<1>. QED BY <1>1, SendStep, ReceiveStep, ResetStep DEF QueueCall

LEMMA InterruptQInv ==
    ASSUME QInv, QueueInterrupt
    PROVE  QInv'
  BY SendFromISRStep, ReceiveFromISRStep DEF QueueInterrupt

LEMMA UnchangedQInv ==
    ASSUME QInv, UNCHANGED allVars
    PROVE  QInv'
<1>1. UNCHANGED vars /\ UNCHANGED <<dataVars, lockVars, mutexVars, waiters, eventPriority, call,
                                    due>>
  BY DEF allVars, queueVars
<1>2. IInv' /\ RInv'
  BY <1>1, NextIInv, StepRuns DEF QInv
<1>3. UNCHANGED <<pc, after, eventList, pxCurrentTCB, uxSchedulerSuspended>>
  BY <1>1 DEF vars, controlVars, listVars, switchVars, suspendVars
<1>4. QueueTypes'
  BY <1>1 DEF QInv, QueueTypes, dataVars, lockVars, mutexVars
<1>5. WaitersInv'
  BY <1>1, <1>3 DEF QInv, WaitersInv
<1>6. QueueCalls'
  BY <1>1, <1>3 DEF QInv, QueueCalls, OneCall, CallOK
<1>. QED BY <1>2, <1>4, <1>5, <1>6 DEF QInv

LEMMA NextQInv == QInv /\ [QueueNext]_allVars => QInv'
  BY SchedulerKeepsQInv, InterruptQInv, CallQInv, ContinueQInv, UnchangedQInv DEF QueueNext

LEMMA InitQInv == QueueInit => QInv
<1>. SUFFICES ASSUME QueueInit PROVE QInv
  OBVIOUS
<1>1. Init /\ IInv /\ RInv
  BY InitIInv, RunsAtStart DEF QueueInit
<1>2. /\ eventList = [t \in Task |-> "none"] /\ pc = [t \in Task |-> "run"]
      /\ after = [t \in Task |-> "run"]
  BY <1>1 DEF Init
<1>3. QueueTypes
  <2>1. \A q \in Sized : (CHOOSE x \in Item : TRUE) \in Item
    BY QueueAssumption
  <2>2. \A q \in Queue : uxLength[q] \in Nat \ {0}
    BY QueueAssumption
  <2>3. Sized \subseteq Queue /\ Mutex \subseteq Queue
    BY QueueAssumption
  <2>4. /\ DOMAIN storage = Sized
        /\ \A q \in Sized : storage[q] \in [0 .. uxLength[q] - 1 -> Item]
    BY <2>1 DEF QueueInit
  <2>5. /\ pcWriteTo \in [Sized -> Nat] /\ pcReadFrom \in [Sized -> Nat]
        /\ \A q \in Sized : /\ pcWriteTo[q] \in 0 .. uxLength[q] - 1
                            /\ pcReadFrom[q] \in 0 .. uxLength[q] - 1
    BY <2>2, <2>3 DEF QueueInit
  <2>6. /\ uxMessagesWaiting \in [Queue -> Nat]
        /\ \A q \in Queue : uxMessagesWaiting[q] \in 0 .. uxLength[q]
    BY <2>2 DEF QueueInit
  <2>7. eventPriority \in [Task -> Priority]
    BY TasksAssumption DEF QueueInit
  <2>8. /\ cRxLock \in [Queue -> Int] /\ cTxLock \in [Queue -> Int]
        /\ pxMutexHolder \in [Mutex -> Task \union {"NULL"}] /\ uxMutexesHeld \in [Task -> Int]
    BY DEF QueueInit, queueUNLOCKED
  <2>9. call \in [Task -> CallType] /\ due \in [Task -> Tick]
    BY QueueLabels DEF QueueInit, CallType
  <2>. QED BY <2>4, <2>5, <2>6, <2>7, <2>8, <2>9 DEF QueueTypes
<1>4. WaitersInv
  <2>1. waiters = [l \in ObjectLists |-> <<>>] /\ "none" \notin ObjectLists
    BY QueueLabels DEF QueueInit
  <2>2. waiters \in [ObjectLists -> Seq(Task)]
    BY <2>1
  <2>. QED BY <1>2, <2>1, <2>2 DEF WaitersInv, Distinct, InList
<1>5. QueueCalls
  <2>1. call = [t \in Task |-> NoCall]
    BY DEF QueueInit
  <2>. QED BY <1>2, <2>1, ApartFromObjects DEF QueueCalls, OneCall
<1>. QED BY <1>1, <1>3, <1>4, <1>5 DEF QInv

\* The invariant that the theorems rest on.
LEMMA AlwaysQInv == QueueSpec => []QInv
<1>1. QueueInit => QInv
  BY InitQInv
<1>2. QInv /\ [QueueNext]_allVars => QInv'
  BY NextQInv
<1>. QED BY <1>1, <1>2, PTL DEF QueueSpec
---------------------------------------------------------------------------
(* Time: no call gives up early *)

\* The count goes on by one, or stays; the number of its wraps changes only with one.
LEMMA TimeStep ==
    ASSUME Next
    PROVE  \/ UNCHANGED <<xTickCount, xNumOfOverflows>>
           \/ /\ xTickCount' = Wrap(xTickCount + 1)
              /\ xTickCount' # 0 => UNCHANGED xNumOfOverflows
<1>. DEFINE Goal == \/ UNCHANGED <<xTickCount, xNumOfOverflows>>
                    \/ /\ xTickCount' = Wrap(xTickCount + 1)
                       /\ xTickCount' # 0 => UNCHANGED xNumOfOverflows
<1>1. ASSUME xTaskIncrementTick PROVE Goal
  BY <1>1 DEF xTaskIncrementTick
<1>2. CASE Interrupt
  <2>. HIDE DEF Goal
  <2>1. Goal \/ UNCHANGED timeVars
    BY <1>1, <1>2 DEF Interrupt, TimerTick, TimerTickPended, NotifyFromISR, xTaskResumeFromISR
  <2>. QED BY <2>1 DEF Goal, timeVars
<1>3. ASSUME NEW t \in Task, Continue(t) PROVE Goal
  <2>. HIDE DEF Goal
  <2>1. CASE ReplayTick(t)
    <3>1. CASE xTaskIncrementTick
      BY <1>1, <3>1
    <3>2. CASE UNCHANGED <<xTickCount, xNumOfOverflows>>
      BY <3>2 DEF Goal
    <3>. QED BY <2>1, <3>1, <3>2 DEF ReplayTick, timeVars
  <2>2. CASE ~ReplayTick(t)
    <3>1. UNCHANGED <<xTickCount, xNumOfOverflows>>
      BY <1>3, <2>2 DEF Continue, ExitCritical, MovePendingReady, FinishResumeAll, DelayCurrent,
         DelayCurrentUntil, ResetUnblockTime, CreateYield, IdleReap, TakeNotification,
         FinishNotifyWait, timeVars
    <3>. QED BY <3>1 DEF Goal
  <2>. QED BY <2>1, <2>2
<1>4. ASSUME NEW t \in Task, Yield(t) PROVE Goal
  BY <1>4 DEF Yield, timeVars
<1>5. ASSUME NEW t \in Task, Call(t) PROVE Goal
  <2>1. UNCHANGED <<xTickCount, xNumOfOverflows>>
    BY <1>5 DEF Call, UserEnterCritical, UserExitCritical, vTaskSuspendAll,
       UserResumeAll, vTaskDelay, vTaskDelayUntil, vTaskSuspend, vTaskResume,
       vTaskPrioritySet, xTaskCreate, vTaskDelete, IdleCheckTermination, ulTaskNotifyTake,
       xTaskNotifyWait, xTaskGenericNotify, xTaskNotifyStateClear, timeVars
  <2>. QED BY <2>1
<1>. QED BY <1>2, <1>3, <1>4, <1>5 DEF Next

(***************************************************************************)
(* The ticks until the call c, with d of them left, may time out are those *)
(* that the code will still count: from the time noted, or from now.  That *)
(* time was less than a round of the count ago, so that a wrap has passed  *)
(* if and only if the count is below it.                                   *)
(***************************************************************************)
OnTime(c, d) ==
    c # NoCall =>
        /\ c.expired => d = 0
        /\ d > 0 => IF c.timed
                    THEN /\ d + TicksSince(c.entered) <= c.wait
                         /\ xTickCount >= c.entered => c.overflows = xNumOfOverflows
                    ELSE d <= c.wait

CallsOnTime == \A t \in Task : OnTime(call[t], due[t])

\* A tick, or none.
LEMMA TickOnTime ==
    ASSUME NEW c \in CallType, NEW d \in Tick, OnTime(c, d), TimeTypeOK, TimeTypeOK',
           \/ UNCHANGED <<xTickCount, xNumOfOverflows>>
           \/ /\ xTickCount' = Wrap(xTickCount + 1)
              /\ xTickCount' # 0 => UNCHANGED xNumOfOverflows,
           NEW e, e = IF xTickCount' # xTickCount /\ d > 0 THEN d - 1 ELSE d
    PROVE  (c # NoCall =>
               /\ c.expired => e = 0
               /\ e > 0 => IF c.timed
                           THEN /\ e + Wrap(xTickCount' + TickMod - c.entered) <= c.wait
                                /\ xTickCount' >= c.entered => c.overflows = xNumOfOverflows'
                           ELSE e <= c.wait)
<1>1. CASE UNCHANGED <<xTickCount, xNumOfOverflows>>
  BY <1>1 DEF OnTime, TicksSince
<1>2. CASE /\ xTickCount' = Wrap(xTickCount + 1) /\ xTickCount' # xTickCount
           /\ xTickCount' # 0 => UNCHANGED xNumOfOverflows
  <2>. SUFFICES ASSUME c # NoCall
                PROVE  /\ c.expired => e = 0
                       /\ e > 0 => IF c.timed
                                   THEN /\ e + Wrap(xTickCount' + TickMod - c.entered) <= c.wait
                                        /\ xTickCount' >= c.entered =>
                                               c.overflows = xNumOfOverflows'
                                   ELSE e <= c.wait
    OBVIOUS
  <2>1. /\ c.entered \in Tick /\ c.wait \in Tick /\ c.timed \in BOOLEAN
        /\ xTickCount \in Tick /\ xTickCount' \in Tick
    BY CallTypes DEF TimeTypeOK
  <2>2. TickMod \in Nat /\ TickMod > 1
    BY TasksAssumption
  <2>3. d \in Nat /\ (d > 0 => e = d - 1) /\ (d = 0 => e = 0)
    BY <1>2, <2>2 DEF Tick
  <2>4. c.expired => e = 0
    BY <2>3 DEF OnTime
  <2>5. CASE ~c.timed
    <3>1. e > 0 => e <= c.wait
      BY <2>1, <2>2, <2>3, <2>5 DEF OnTime, Tick
    <3>. QED BY <2>4, <2>5, <3>1
  <2>6. CASE c.timed
    <3>. SUFFICES ASSUME e > 0
                  PROVE  /\ e + Wrap(xTickCount' + TickMod - c.entered) <= c.wait
                         /\ xTickCount' >= c.entered => c.overflows = xNumOfOverflows'
      BY <2>4, <2>6
    <3>. DEFINE n == c.entered
                w == c.wait
                k == xTickCount
                m == xTickCount'
    <3>1. d + TicksSince(n) <= w /\ (k >= n => c.overflows = xNumOfOverflows)
      BY <2>3, <2>6 DEF OnTime
    <3>2. /\ n \in Nat /\ w \in Nat /\ k \in Nat /\ m \in Nat
          /\ n < TickMod /\ w < TickMod /\ k < TickMod /\ m < TickMod
      BY <2>1, <2>2 DEF Tick
    <3>3. /\ k >= n => TicksSince(n) = k - n
          /\ k < n => TicksSince(n) = k + TickMod - n
      BY <2>1, TicksSinceType
    <3>4. m = IF k + 1 < TickMod THEN k + 1 ELSE k + 1 - TickMod
      BY <1>2, <2>2, <3>2 DEF Wrap
    <3>5. Wrap(m + TickMod - n) = IF m + TickMod - n < TickMod THEN m + TickMod - n
                                  ELSE m + TickMod - n - TickMod
      BY <2>2, <3>2 DEF Wrap
    <3>6. m # 0 => xNumOfOverflows' = xNumOfOverflows
      BY <1>2
    <3>. HIDE DEF n, w, k, m
    <3>7. d > 1 /\ e = d - 1
      BY <2>3
    <3>8. e + Wrap(m + TickMod - n) <= w
      BY <2>2, <2>3, <3>1, <3>2, <3>3, <3>4, <3>5, <3>7
    <3>9. m >= n => k >= n /\ m # 0
      BY <2>2, <2>3, <3>1, <3>2, <3>3, <3>4, <3>7
    <3>. QED BY <3>1, <3>6, <3>8, <3>9 DEF n, w, k, m
  <2>. QED BY <2>1, <2>5, <2>6
<1>3. Wrap(xTickCount + 1) # xTickCount
  BY TasksAssumption DEF Wrap, TimeTypeOK, Tick
<1>. QED BY <1>1, <1>2, <1>3

\* A step of a call, which takes no time.
LEMMA StillOnTime ==
    ASSUME CallsOnTime, NEW t \in Task, UNCHANGED <<xTickCount, xNumOfOverflows>>,
           \A x \in Task \ {t} : call'[x] = call[x] /\ due'[x] = due[x],
           OnTime(call[t], due[t])
               => OnTime(call'[t], due'[t])
    PROVE  CallsOnTime'
<1>1. ASSUME NEW c, NEW d
      PROVE  OnTime(c, d)' <=>
                 (c # NoCall =>
                     /\ c.expired => d = 0
                     /\ d > 0 => IF c.timed
                                 THEN /\ d + TicksSince(c.entered) <= c.wait
                                      /\ xTickCount >= c.entered =>
                                             c.overflows = xNumOfOverflows
                                 ELSE d <= c.wait)
  BY DEF OnTime, TicksSince
<1>. QED BY <1>1 DEF CallsOnTime, OnTime, TicksSince

LEMMA QuietOnTime ==
    ASSUME CallsOnTime, UNCHANGED <<xTickCount, xNumOfOverflows, call, due>>
    PROVE  CallsOnTime'
  BY DEF CallsOnTime, OnTime, TicksSince

LEMMA ReturnOnTime ==
    ASSUME QInv, CallsOnTime, NEW t \in Task, Return(t), UNCHANGED <<xTickCount, xNumOfOverflows>>
    PROVE  CallsOnTime'
<1>1. /\ call'[t] = NoCall /\ \A x \in Task \ {t} : call'[x] = call[x] /\ due'[x] = due[x]
  BY DEF Return, QInv, QueueTypes
<1>2. OnTime(call'[t], due'[t])
  BY <1>1 DEF OnTime
<1>. QED BY <1>1, <1>2, StillOnTime

\* The time is noted, and nothing of the wait is lost by it.
LEMMA WaitOnTime ==
    ASSUME QInv, CallsOnTime, NEW t \in Task, call[t] # NoCall, ~call[t].expired, FailOrWait(t)
    PROVE  CallsOnTime'
<1>1. UNCHANGED <<xTickCount, xNumOfOverflows>>
  BY DEF FailOrWait, timeVars
<1>2. CASE Return(t)
  BY <1>1, <1>2, ReturnOnTime
<1>3. CASE /\ call[t].wait > 0
           /\ call' = [call EXCEPT ![t] =
                  IF @.timed THEN @
                  ELSE [@ EXCEPT !.timed = TRUE, !.overflows = xNumOfOverflows,
                                 !.entered = xTickCount]]
           /\ UNCHANGED due
  <2>1. /\ call[t] \in CallType /\ call \in [Task -> CallType] /\ call[t].wait \in Tick
        /\ OnTime(call[t], due[t]) /\ xTickCount \in Tick /\ due[t] \in Tick
    BY ItsCall DEF QInv, QueueTypes, CallsOnTime, IInv, TypeOK, TimeTypeOK
  <2>2. \A x \in Task \ {t} : call'[x] = call[x] /\ due'[x] = due[x]
    BY <1>3, <2>1
  <2>3. CASE call[t].timed
    <3>1. call'[t] = call[t] /\ due'[t] = due[t]
      BY <1>3, <2>1, <2>3
    <3>. QED BY <1>1, <2>1, <2>2, <3>1, StillOnTime
  <2>4. CASE ~call[t].timed
    <3>. DEFINE c == [call[t] EXCEPT !.timed = TRUE, !.overflows = xNumOfOverflows,
                                     !.entered = xTickCount]
    <3>1. call'[t] = c /\ due'[t] = due[t]
      BY <1>3, <2>1, <2>4
    <3>2. /\ c.timed /\ c.wait = call[t].wait /\ c.expired = call[t].expired
          /\ c.entered = xTickCount /\ c.overflows = xNumOfOverflows
      <4>1. CASE call[t] \in SendCall
        BY <4>1 DEF SendCall
      <4>2. CASE call[t] \in ReceiveCall
        BY <4>2 DEF ReceiveCall
      <4>. QED BY <2>1, <4>1, <4>2 DEF CallType
    <3>. HIDE DEF c
    <3>3. TicksSince(xTickCount) = 0
      BY <2>1, TicksSinceType, TasksAssumption DEF Tick
    <3>4. due[t] \in Nat /\ call[t].wait \in Nat /\ (due[t] > 0 => due[t] <= call[t].wait)
      BY <2>1, <2>4 DEF OnTime, Tick
    <3>5. OnTime(c, due[t])
      BY <2>1, <3>2, <3>3, <3>4 DEF OnTime
    <3>. QED BY <1>1, <2>2, <3>1, <3>5, StillOnTime
  <2>. QED BY <2>3, <2>4
<1>. QED BY <1>2, <1>3 DEF FailOrWait

\* xTaskCheckForTimeOut ends the wait at its time, and otherwise counts what has passed of it.
LEMMA CheckOnTime ==
    ASSUME QInv, CallsOnTime, NEW t \in Task, CheckForTimeOut(t)
    PROVE  CallsOnTime'
<1>1. /\ UNCHANGED <<xTickCount, xNumOfOverflows, due>>
      /\ call' = [call EXCEPT ![t] = xTaskCheckForTimeOut(t)]
  BY DEF CheckForTimeOut, timeVars
<1>2. call[t] # NoCall /\ call[t].timed /\ call[t].wait > 0 /\ ~call[t].expired
  <2>1. pc[t] = "check" /\ "check" \in QueueLabel /\ "check" \in TryingLabel
    BY DEF CheckForTimeOut, At, QueueLabel, TryingLabel
  <2>. QED BY <2>1, InLoop DEF CallOK
<1>3. /\ call[t] \in CallType /\ call \in [Task -> CallType] /\ call[t].wait \in Tick
      /\ OnTime(call[t], due[t]) /\ xTickCount \in Tick /\ due[t] \in Tick
      /\ call[t].entered \in Tick
  BY <1>2, ItsCall DEF QInv, QueueTypes, CallsOnTime, IInv, TypeOK, TimeTypeOK
<1>4. \A x \in Task \ {t} : call'[x] = call[x] /\ due'[x] = due[x]
  BY <1>1, <1>3
<1>5. call'[t] = xTaskCheckForTimeOut(t) /\ due'[t] = due[t]
  BY <1>1, <1>3
<1>6. /\ TicksSince(call[t].entered) \in Nat /\ due[t] \in Nat /\ call[t].wait \in Nat
      /\ TicksSince(xTickCount) = 0
  BY <1>3, TicksSinceType, TasksAssumption DEF Tick
<1>7. OnTime(xTaskCheckForTimeOut(t), due[t])
  <2>. DEFINE since == TicksSince(call[t].entered)
              past == \/ xNumOfOverflows # call[t].overflows /\ xTickCount >= call[t].entered
                      \/ since >= call[t].wait
  <2>1. CASE call[t].wait = portMAX_DELAY
    BY <1>3, <2>1 DEF xTaskCheckForTimeOut
  <2>2. CASE call[t].wait # portMAX_DELAY /\ past
    <3>1. xTaskCheckForTimeOut(t) = [call[t] EXCEPT !.expired = TRUE]
      BY <2>2 DEF xTaskCheckForTimeOut
    <3>2. due[t] = 0
      BY <1>2, <1>3, <1>6, <2>2 DEF OnTime
    <3>. QED BY <3>2 DEF OnTime
  <2>3. CASE call[t].wait # portMAX_DELAY /\ ~past
    <3>. DEFINE c == [call[t] EXCEPT !.wait = call[t].wait - since,
                                     !.overflows = xNumOfOverflows, !.entered = xTickCount]
    <3>1. xTaskCheckForTimeOut(t) = c
      BY <2>3 DEF xTaskCheckForTimeOut
    <3>2. /\ c.timed /\ c.wait = call[t].wait - since /\ ~c.expired
          /\ c.entered = xTickCount /\ c.overflows = xNumOfOverflows
      <4>1. CASE call[t] \in SendCall
        BY <1>2, <4>1 DEF SendCall
      <4>2. CASE call[t] \in ReceiveCall
        BY <1>2, <4>2 DEF ReceiveCall
      <4>. QED BY <1>2, <1>3, <4>1, <4>2 DEF CallType
    <3>3. due[t] > 0 => due[t] + since <= call[t].wait
      BY <1>2, <1>3 DEF OnTime
    <3>. HIDE DEF c
    <3>4. due[t] > 0 => due[t] + TicksSince(c.entered) <= c.wait
      BY <1>6, <3>2, <3>3
    <3>. QED BY <3>1, <3>2, <3>4 DEF OnTime
  <2>. QED BY <2>1, <2>2, <2>3
<1>. QED BY <1>1, <1>4, <1>5, <1>7, StillOnTime

LEMMA SchedulerOnTime ==
    ASSUME QInv, CallsOnTime, SchedulerStep
    PROVE  CallsOnTime'
<1>1. IInv /\ Next /\ KeepQueues /\ IInv'
  BY SchedulerStepIsNext, NextIInv DEF QInv
<1>2. TimeTypeOK /\ TimeTypeOK'
  BY <1>1 DEF IInv, TypeOK
<1>3. \/ UNCHANGED <<xTickCount, xNumOfOverflows>>
      \/ /\ xTickCount' = Wrap(xTickCount + 1)
         /\ xTickCount' # 0 => UNCHANGED xNumOfOverflows
  BY <1>1, TimeStep
<1>4. ASSUME NEW t \in Task PROVE OnTime(call[t], due[t])'
  <2>1. /\ call[t] \in CallType /\ due[t] \in Tick /\ OnTime(call[t], due[t])
    BY DEF QInv, QueueTypes, CallsOnTime
  <2>2. /\ call' = call
        /\ due'[t] = IF xTickCount' # xTickCount /\ due[t] > 0 THEN due[t] - 1 ELSE due[t]
    BY <1>1 DEF KeepQueues
  <2>3. call[t] # NoCall =>
            /\ call[t].expired => due'[t] = 0
            /\ due'[t] > 0 =>
                   IF call[t].timed
                   THEN /\ due'[t] + Wrap(xTickCount' + TickMod - call[t].entered) <= call[t].wait
                        /\ xTickCount' >= call[t].entered =>
                               call[t].overflows = xNumOfOverflows'
                   ELSE due'[t] <= call[t].wait
    BY <1>2, <1>3, <2>1, <2>2, TickOnTime
  <2>. QED BY <2>2, <2>3 DEF OnTime, TicksSince
<1>. QED BY <1>4 DEF CallsOnTime

LEMMA BeginOnTime ==
    ASSUME QInv, CallsOnTime, NEW t \in Task, NEW args, NEW n, Begin(t, args, n),
           args.wait = n, ~args.timed, ~args.expired, n \in Nat
    PROVE  CallsOnTime'
<1>1. /\ call' = [call EXCEPT ![t] = args] /\ due' = [due EXCEPT ![t] = n]
      /\ UNCHANGED <<xTickCount, xNumOfOverflows>>
  BY DEF Begin, vars, timeVars
<1>2. /\ call'[t] = args /\ due'[t] = n
      /\ \A x \in Task \ {t} : call'[x] = call[x] /\ due'[x] = due[x]
  BY <1>1 DEF QInv, QueueTypes
<1>3. OnTime(args, n)
  BY DEF OnTime
<1>. QED BY <1>1, <1>2, <1>3, StillOnTime

LEMMA NextOnTime == QInv /\ CallsOnTime /\ [QueueNext]_allVars => CallsOnTime'
<1>. SUFFICES ASSUME QInv, CallsOnTime, [QueueNext]_allVars PROVE CallsOnTime'
  OBVIOUS
<1>1. CASE UNCHANGED allVars
  BY <1>1, QuietOnTime DEF allVars, queueVars, vars, timeVars
<1>2. CASE SchedulerStep
  BY <1>2, SchedulerOnTime
<1>3. CASE QueueInterrupt
  BY <1>3, QuietOnTime DEF QueueInterrupt, xQueueGenericSendFromISR, xQueueReceiveFromISR, timeVars
<1>4. ASSUME NEW t \in Task, QueueCall(t) PROVE CallsOnTime'
  <2>1. \A n \in SendWaits \union ReceiveWaits : n \in Nat
    BY QueueAssumption DEF Tick
  <2>2. ASSUME NEW q \in Queue, NEW position, NEW n \in SendWaits, NEW item,
               xQueueGenericSend(t, q, item, position, n)
        PROVE  CallsOnTime'
    <3>. DEFINE args == [op |-> "send", q |-> q, item |-> item, position |-> position, wait |-> n,
                         timed |-> FALSE, overflows |-> 0, entered |-> 0, expired |-> FALSE]
    <3>1. Begin(t, args, n) /\ args.wait = n /\ ~args.timed /\ ~args.expired
      BY <2>2 DEF xQueueGenericSend
    <3>. HIDE DEF args
    <3>. QED BY <2>1, <3>1, BeginOnTime
  <2>3. ASSUME NEW q \in Queue, NEW mode, NEW n \in ReceiveWaits,
               xQueueGenericReceive(t, q, mode, n)
        PROVE  CallsOnTime'
    <3>. DEFINE args == [op |-> "receive", q |-> q, mode |-> mode, wait |-> n,
                         timed |-> FALSE, overflows |-> 0, entered |-> 0, expired |-> FALSE]
    <3>1. Begin(t, args, n) /\ args.wait = n /\ ~args.timed /\ ~args.expired
      BY <2>3 DEF xQueueGenericReceive
    <3>. HIDE DEF args
    <3>. QED BY <2>1, <3>1, BeginOnTime
  <2>4. ASSUME NEW q, xQueueReset(t, q) PROVE CallsOnTime'
    BY <2>4, QuietOnTime DEF xQueueReset, timeVars
  <2>. QED BY <1>4, <2>2, <2>3, <2>4 DEF QueueCall
<1>5. ASSUME NEW t \in Task, QueueContinue(t) PROVE CallsOnTime'
  <2>1. CASE SendFailsOrWaits(t) \/ ReceiveFailsOrWaits(t)
    <3>1. call[t] # NoCall /\ ~call[t].expired /\ FailOrWait(t)
      BY <2>1 DEF SendFailsOrWaits, ReceiveFailsOrWaits, InCall, NoCall
    <3>. QED BY <3>1, WaitOnTime
  <2>2. CASE SendItem(t) \/ ReceiveItem(t)
    <3>1. Return(t) /\ UNCHANGED <<xTickCount, xNumOfOverflows>>
      BY <2>2 DEF SendItem, ReceiveItem, timeVars
    <3>. QED BY <3>1, ReturnOnTime
  <2>3. CASE ReturnExpired(t)
    <3>0. UNCHANGED <<xTickCount, xNumOfOverflows>> /\ call[t] # NoCall
      BY <2>3 DEF ReturnExpired, timeVars
    <3>1. CASE Return(t)
      BY <3>0, <3>1, ReturnOnTime
    <3>2. CASE call' = [call EXCEPT ![t].expired = FALSE] /\ UNCHANGED due
      <4>. DEFINE c == [call[t] EXCEPT !.expired = FALSE]
      <4>1. call[t] \in CallType /\ call \in [Task -> CallType] /\ OnTime(call[t], due[t])
        BY DEF QInv, QueueTypes, CallsOnTime
      <4>2. /\ call'[t] = c
            /\ \A x \in Task \ {t} : call'[x] = call[x] /\ due'[x] = due[x]
        BY <3>2, <4>1
      <4>3. /\ c.timed = call[t].timed /\ c.wait = call[t].wait /\ ~c.expired
            /\ c.entered = call[t].entered /\ c.overflows = call[t].overflows
        <5>1. CASE call[t] \in SendCall
          BY <5>1 DEF SendCall
        <5>2. CASE call[t] \in ReceiveCall
          BY <5>2 DEF ReceiveCall
        <5>. QED BY <3>0, <4>1, <5>1, <5>2 DEF CallType
      <4>. HIDE DEF c
      <4>4. OnTime(c, due[t])
        BY <3>0, <4>1, <4>3 DEF OnTime
      <4>. QED BY <3>0, <3>2, <4>2, <4>4, StillOnTime
    <3>. QED BY <2>3, <3>1, <3>2 DEF ReturnExpired
  <2>4. CASE CheckForTimeOut(t)
    BY <2>4, CheckOnTime
  <2>5. CASE \/ SuspendAllToWait(t) \/ prvLockQueue(t) \/ TestQueue(t) \/ vTaskPriorityInherit(t)
             \/ vTaskPlaceOnEventList(t) \/ UnlockTx(t) \/ UnlockRx(t)
    <3>1. UNCHANGED <<xTickCount, xNumOfOverflows, call, due>>
      BY <2>5 DEF SuspendAllToWait, prvLockQueue, TestQueue, vTaskPriorityInherit,
         vTaskPlaceOnEventList, UnlockTx, UnlockRx, timeVars, queueVars
    <3>. QED BY <3>1, QuietOnTime
  <2>. QED BY <1>5, <2>1, <2>2, <2>3, <2>4, <2>5 DEF QueueContinue
<1>. QED BY <1>1, <1>2, <1>3, <1>4, <1>5 DEF QueueNext

(***************************************************************************)
(* A call on a queue that gives up has waited as many ticks as it was told *)
(* to: whatever wakes it for nothing, whoever takes the item first, however*)
(* often the tick count wraps in between (xQueueGenericSend,               *)
(* xQueueGenericReceive and xTaskCheckForTimeOut).                         *)
(***************************************************************************)
THEOREM CallsNeverTimeOutEarly == QueueSpec => []NeverTimesOutEarly
<1>1. QueueInit => CallsOnTime
  <2>1. QueueInit => \A t \in Task : call[t] = NoCall
    BY DEF QueueInit
  <2>. QED BY <2>1 DEF CallsOnTime, OnTime
<1>2. QInv /\ CallsOnTime /\ [QueueNext]_allVars => CallsOnTime'
  BY NextOnTime
<1>3. CallsOnTime => NeverTimesOutEarly
  BY DEF CallsOnTime, OnTime, NeverTimesOutEarly
<1>. QED BY <1>1, <1>2, <1>3, AlwaysQInv, PTL DEF QueueSpec
---------------------------------------------------------------------------
(* Mutexes: an inherited priority is that of a holder *)

\* No step of the scheduler parts a priority from its base.
LEMMA PriorityFrame ==
    ASSUME IInv, Next, NEW u \in Task, uxPriority[u] = uxBasePriority[u]
    PROVE  uxPriority'[u] = uxBasePriority'[u]
<1>1. PriorityTypeOK
  BY DEF IInv, TypeOK
<1>2. ASSUME UNCHANGED priorityVars PROVE uxPriority'[u] = uxBasePriority'[u]
  BY <1>2 DEF priorityVars
<1>3. CASE Interrupt
  <2>1. UNCHANGED priorityVars
    BY <1>3 DEF Interrupt, TimerTick, TimerTickPended, NotifyFromISR, xTaskResumeFromISR
  <2>. QED BY <1>2, <2>1
<1>4. ASSUME NEW t \in Task, Continue(t) \/ Yield(t)
      PROVE  uxPriority'[u] = uxBasePriority'[u]
  <2>1. UNCHANGED priorityVars
    BY <1>4 DEF Continue, ExitCritical, MovePendingReady, ReplayTick, FinishResumeAll,
       DelayCurrent, DelayCurrentUntil, ResetUnblockTime, CreateYield, IdleReap,
       TakeNotification, FinishNotifyWait, Yield
  <2>. QED BY <1>2, <2>1
<1>5. ASSUME NEW t \in Task, Call(t) PROVE uxPriority'[u] = uxBasePriority'[u]
  <2>1. ASSUME NEW x \in Task, NEW p \in Priority, vTaskPrioritySet(t, x, p)
        PROVE  uxPriority'[u] = uxBasePriority'[u]
    <3>1. CASE uxBasePriority[x] = uxPriority[x]
      <4>1. /\ uxPriority' = [uxPriority EXCEPT ![x] = p]
            /\ uxBasePriority' = [uxBasePriority EXCEPT ![x] = p]
        BY <2>1, <3>1 DEF vTaskPrioritySet
      <4>. QED BY <1>1, <4>1 DEF PriorityTypeOK
    <3>2. CASE uxBasePriority[x] # uxPriority[x]
      <4>1. /\ uxPriority' = uxPriority
            /\ uxBasePriority' = [uxBasePriority EXCEPT ![x] = p]
        BY <2>1, <3>2 DEF vTaskPrioritySet
      <4>. QED BY <1>1, <3>2, <4>1 DEF PriorityTypeOK
    <3>. QED BY <3>1, <3>2
  <2>2. CASE \E x \in Task \ {Idle}, p \in NewPriorities : vTaskPrioritySet(t, x, p)
    BY <2>1, <2>2, TasksAssumption
  <2>3. CASE \/ UserEnterCritical(t) \/ UserExitCritical(t) \/ vTaskSuspendAll(t)
             \/ UserResumeAll(t) \/ vTaskDelay(t) \/ vTaskDelayUntil(t)
             \/ IdleCheckTermination(t)
    <3>1. UNCHANGED priorityVars
      BY <2>3 DEF UserEnterCritical, UserExitCritical, vTaskSuspendAll, UserResumeAll,
         vTaskDelay, vTaskDelayUntil, IdleCheckTermination
    <3>. QED BY <1>2, <3>1
  <2>4. ASSUME NEW x, vTaskSuspend(t, x) \/ vTaskResume(t, x)
        PROVE  uxPriority'[u] = uxBasePriority'[u]
    <3>1. UNCHANGED priorityVars
      BY <2>4 DEF vTaskSuspend, vTaskResume
    <3>. QED BY <1>2, <3>1
  <2>5. ASSUME NEW x, xTaskCreate(t, x) \/ vTaskDelete(t, x)
        PROVE  uxPriority'[u] = uxBasePriority'[u]
    <3>1. UNCHANGED priorityVars
      BY <2>5 DEF xTaskCreate, vTaskDelete
    <3>. QED BY <1>2, <3>1
  <2>6. ASSUME NEW n, ulTaskNotifyTake(t, n) \/ xTaskNotifyWait(t, n)
        PROVE  uxPriority'[u] = uxBasePriority'[u]
    <3>1. UNCHANGED priorityVars
      BY <2>6 DEF ulTaskNotifyTake, xTaskNotifyWait
    <3>. QED BY <1>2, <3>1
  <2>7. ASSUME NEW x, NEW action, xTaskGenericNotify(t, x, action) \/ xTaskNotifyStateClear(t, x)
        PROVE  uxPriority'[u] = uxBasePriority'[u]
    <3>1. UNCHANGED priorityVars
      BY <2>7 DEF xTaskGenericNotify, xTaskNotifyStateClear
    <3>. QED BY <1>2, <3>1
  <2>. QED BY <1>5, <2>2, <2>3, <2>4, <2>5, <2>6, <2>7 DEF Call
<1>. QED BY <1>3, <1>4, <1>5 DEF Next

\* The mutexes of t.
Held(t) == {q \in Mutex : pxMutexHolder[q] = t}

\* With InheritedOnlyByHolders: who is about to give a mutex holds it.
HoldersInv ==
    /\ \A q \in Mutex : uxMessagesWaiting[q] = 0 <=> pxMutexHolder[q] # "NULL"
    /\ \A t \in Task :
           /\ uxMutexesHeld[t] = Cardinality(Held(t))
           /\ uxPriority[t] # uxBasePriority[t] => uxMutexesHeld[t] > 0
           /\ call[t].op = "send" /\ call[t].q \in Mutex => pxMutexHolder[call[t].q] = t

LEMMA HeldIsFinite ==
    ASSUME NEW t
    PROVE  IsFiniteSet(Held(t)) /\ Cardinality(Held(t)) \in Nat
<1>1. IsFiniteSet(Queue) /\ Held(t) \in SUBSET Queue
  BY QueueAssumption DEF Held
<1>. QED BY <1>1, FS_Subset, FS_CardinalityType

\* A step that takes and gives no mutex.
LEMMA QuietHolders ==
    ASSUME HoldersInv, UNCHANGED <<pxMutexHolder, uxMutexesHeld>>,
           \A q \in Mutex : uxMessagesWaiting'[q] = uxMessagesWaiting[q],
           \A u \in Task : uxPriority[u] = uxBasePriority[u] =>
                               uxPriority'[u] = uxBasePriority'[u],
           \A u \in Task : /\ call'[u].op = "send"
                           /\ call'[u].q \in Mutex
                           => \/ call[u].op = "send" /\ call[u].q = call'[u].q
                              \/ pxMutexHolder[call'[u].q] = u
    PROVE  HoldersInv'
<1>1. \A t \in Task : Held(t)' = Held(t)
  BY DEF Held
<1>. QED BY <1>1 DEF HoldersInv

LEMMA GiveHolders ==
    ASSUME QInv, HoldersInv, NEW t \in Task, SendItem(t)
    PROVE  HoldersInv'
<1>. DEFINE q == call[t].q
<1>1. /\ call[t].op = "send" /\ CountOneMore(q, call[t].position) /\ GiveMutex(t, q)
      /\ Return(t)
  BY DEF SendItem, InCall
<1>2. /\ q \in Queue /\ call \in [Task -> CallType] /\ uxMessagesWaiting \in [Queue -> Nat]
      /\ pxMutexHolder \in [Mutex -> Task \union {"NULL"}] /\ uxMutexesHeld \in [Task -> Int]
      /\ Mutex \subseteq Queue \ Sized /\ "NULL" \notin Task
  <2>1. call[t] # NoCall
    BY <1>1 DEF NoCall
  <2>. QED BY <2>1, ItsCall, QueueAssumption DEF QInv, QueueTypes
<1>3. call'[t] = NoCall /\ \A x \in Task \ {t} : call'[x] = call[x]
  BY <1>1, <1>2 DEF Return
<1>. HIDE DEF q
<1>4. CASE q \notin Mutex
  <2>1. UNCHANGED <<pxMutexHolder, uxMutexesHeld>>
    BY <1>1, <1>4 DEF GiveMutex
  <2>2. \A m \in Mutex : uxMessagesWaiting'[m] = uxMessagesWaiting[m]
    BY <1>1, <1>2, <1>4 DEF CountOneMore
  <2>3. ~Disinherits(t, q)
    BY <1>4 DEF Disinherits, Holds
  <2>4. \A u \in Task : uxPriority[u] = uxBasePriority[u] => uxPriority'[u] = uxBasePriority'[u]
    BY <1>1, <2>3 DEF GiveMutex
  <2>. QED BY <1>3, <2>1, <2>2, <2>4, QuietHolders DEF NoCall
<1>5. CASE q \in Mutex
  <2>1. pxMutexHolder[q] = t /\ t # "NULL" /\ uxMessagesWaiting[q] = 0
    BY <1>1, <1>2, <1>5 DEF HoldersInv, q
  <2>2. /\ pxMutexHolder' = [pxMutexHolder EXCEPT ![q] = "NULL"]
        /\ uxMutexesHeld' = [uxMutexesHeld EXCEPT ![t] = uxMutexesHeld[t] - 1]
    BY <1>1, <1>5 DEF GiveMutex
  <2>3. uxMessagesWaiting' = [uxMessagesWaiting EXCEPT ![q] = 1]
    BY <1>1, <1>2, <1>5, <2>1 DEF CountOneMore
  <2>4. \A m \in Mutex : uxMessagesWaiting'[m] = 0 <=> pxMutexHolder'[m] # "NULL"
    BY <1>2, <1>5, <2>2, <2>3 DEF HoldersInv
  <2>5. /\ Held(t)' = Held(t) \ {q} /\ q \in Held(t)
        /\ \A x \in Task \ {t} : Held(x)' = Held(x)
    BY <1>2, <1>5, <2>1, <2>2 DEF Held
  <2>6. Cardinality(Held(t) \ {q}) = Cardinality(Held(t)) - 1
    BY <2>5, HeldIsFinite, FS_RemoveElement
  <2>7. /\ uxMutexesHeld'[t] = uxMutexesHeld[t] - 1
        /\ \A x \in Task \ {t} : uxMutexesHeld'[x] = uxMutexesHeld[x]
    BY <1>2, <2>2
  <2>8. \A x \in Task : uxMutexesHeld'[x] = Cardinality(Held(x)')
    BY <2>5, <2>6, <2>7 DEF HoldersInv
  <2>9. ASSUME NEW x \in Task, uxPriority'[x] # uxBasePriority'[x]
        PROVE  uxMutexesHeld'[x] > 0
    <3>1. CASE x # t
      <4>1. uxPriority'[x] = uxPriority[x] /\ uxBasePriority'[x] = uxBasePriority[x]
        BY <1>1, <3>1 DEF GiveMutex
      <4>. QED BY <2>7, <2>9, <3>1, <4>1 DEF HoldersInv
    <3>2. CASE x = t
      <4>1. ~Disinherits(t, q) /\ uxPriority[t] # uxBasePriority[t]
        BY <1>1, <2>9, <3>2 DEF GiveMutex
      <4>2. uxMutexesHeld[t] # 1 /\ uxMutexesHeld[t] > 0 /\ uxMutexesHeld[t] \in Int
        BY <1>2, <1>5, <2>1, <4>1 DEF HoldersInv, Disinherits, Holds
      <4>. QED BY <2>7, <3>2, <4>2
    <3>. QED BY <3>1, <3>2
  <2>10. ASSUME NEW x \in Task, call'[x].op = "send", call'[x].q \in Mutex
         PROVE  pxMutexHolder'[call'[x].q] = x
    <3>1. x # t
      BY <1>3, <2>10 DEF NoCall
    <3>2. pxMutexHolder[call[x].q] = x /\ call'[x] = call[x]
      BY <1>3, <2>10, <3>1 DEF HoldersInv
    <3>3. call[x].q # q
      BY <2>1, <3>1, <3>2
    <3>. QED BY <1>2, <2>2, <2>10, <3>2, <3>3
  <2>. QED BY <2>4, <2>8, <2>9, <2>10 DEF HoldersInv
<1>. QED BY <1>4, <1>5

LEMMA TakeHolders ==
    ASSUME QInv, HoldersInv, NEW t \in Task, ReceiveItem(t)
    PROVE  HoldersInv'
<1>. DEFINE q == call[t].q
            mode == call[t].mode
<1>1. /\ call[t].op = "receive" /\ uxMessagesWaiting[q] > 0 /\ CopyFromStorage(q, mode)
      /\ TakeMutex(t, q, mode) /\ Return(t) /\ UNCHANGED <<uxPriority, uxBasePriority>>
  BY DEF ReceiveItem, InCall, priorityVars
<1>2. /\ q \in Queue /\ call \in [Task -> CallType] /\ uxMessagesWaiting \in [Queue -> Nat]
      /\ pxMutexHolder \in [Mutex -> Task \union {"NULL"}] /\ uxMutexesHeld \in [Task -> Int]
      /\ Mutex \subseteq Queue \ Sized /\ "NULL" \notin Task
      /\ q \in Mutex => mode = "receive" /\ uxMessagesWaiting[q] = 1
  <2>1. call[t] # NoCall
    BY <1>1 DEF NoCall
  <2>2. q \in Queue /\ CallOK(t)
    BY <2>1, ItsCall
  <2>3. q \in Mutex => mode = "receive"
    BY <1>1, <2>2 DEF CallOK
  <2>4. uxMessagesWaiting[q] \in 0 .. uxLength[q] /\ (q \in Mutex => uxLength[q] = 1)
    BY <2>2, QueueAssumption DEF QInv, QueueTypes
  <2>. QED BY <1>1, <2>2, <2>3, <2>4, QueueAssumption DEF QInv, QueueTypes
<1>3. call'[t] = NoCall /\ \A x \in Task \ {t} : call'[x] = call[x]
  BY <1>1, <1>2 DEF Return
<1>. HIDE DEF q, mode
<1>4. CASE q \notin Mutex
  <2>1. UNCHANGED <<pxMutexHolder, uxMutexesHeld>>
    BY <1>1, <1>4 DEF TakeMutex, mutexVars
  <2>2. \A m \in Mutex : uxMessagesWaiting'[m] = uxMessagesWaiting[m]
    BY <1>1, <1>2, <1>4 DEF CopyFromStorage
  <2>. QED BY <1>1, <1>3, <2>1, <2>2, QuietHolders DEF NoCall
<1>5. CASE q \in Mutex
  <2>1. pxMutexHolder[q] = "NULL" /\ mode # "peek" /\ mode = "receive"
    BY <1>1, <1>2, <1>5 DEF HoldersInv
  <2>2. /\ pxMutexHolder' = [pxMutexHolder EXCEPT ![q] = t]
        /\ uxMutexesHeld' = [uxMutexesHeld EXCEPT ![t] = uxMutexesHeld[t] + 1]
    BY <1>1, <1>5, <2>1 DEF TakeMutex
  <2>3. uxMessagesWaiting' = [uxMessagesWaiting EXCEPT ![q] = 0]
    BY <1>1, <1>2, <1>5, <2>1 DEF CopyFromStorage
  <2>4. \A m \in Mutex : uxMessagesWaiting'[m] = 0 <=> pxMutexHolder'[m] # "NULL"
    BY <1>2, <1>5, <2>2, <2>3 DEF HoldersInv
  <2>5. /\ Held(t)' = Held(t) \union {q} /\ q \notin Held(t)
        /\ \A x \in Task \ {t} : Held(x)' = Held(x)
    BY <1>2, <1>5, <2>1, <2>2 DEF Held
  <2>6. Cardinality(Held(t) \union {q}) = Cardinality(Held(t)) + 1
    BY <2>5, HeldIsFinite, FS_AddElement
  <2>7. /\ uxMutexesHeld'[t] = uxMutexesHeld[t] + 1
        /\ \A x \in Task \ {t} : uxMutexesHeld'[x] = uxMutexesHeld[x]
    BY <1>2, <2>2
  <2>8. \A x \in Task : uxMutexesHeld'[x] = Cardinality(Held(x)')
    BY <2>5, <2>6, <2>7 DEF HoldersInv
  <2>9. ASSUME NEW x \in Task, uxPriority'[x] # uxBasePriority'[x]
        PROVE  uxMutexesHeld'[x] > 0
    <3>1. uxMutexesHeld[x] > 0 /\ uxMutexesHeld[x] \in Int
      BY <1>1, <1>2, <2>9 DEF HoldersInv
    <3>. QED BY <2>7, <3>1
  <2>10. ASSUME NEW x \in Task, call'[x].op = "send", call'[x].q \in Mutex
         PROVE  pxMutexHolder'[call'[x].q] = x
    <3>1. x # t
      BY <1>3, <2>10 DEF NoCall
    <3>2. pxMutexHolder[call[x].q] = x /\ call'[x] = call[x]
      BY <1>3, <2>10, <3>1 DEF HoldersInv
    <3>3. call[x].q # q
      BY <1>2, <2>1, <3>2
    <3>. QED BY <1>2, <2>2, <2>10, <3>2, <3>3
  <2>. QED BY <2>4, <2>8, <2>9, <2>10 DEF HoldersInv
<1>. QED BY <1>4, <1>5

\* Whoever is raised holds the mutex that is waited for.
LEMMA InheritHolders ==
    ASSUME QInv, HoldersInv, NEW t \in Task, vTaskPriorityInherit(t)
    PROVE  HoldersInv'
<1>. DEFINE q == call[t].q
            h == pxMutexHolder[q]
<1>1. /\ uxPriority' = Inherited(t, q)
      /\ UNCHANGED <<uxBasePriority, pxMutexHolder, uxMutexesHeld, uxMessagesWaiting, call>>
  BY DEF vTaskPriorityInherit, dataVars, mutexVars
<1>2. q \in Mutex
  <2>1. pc[t] = "inherit" /\ "inherit" \in QueueLabel
    BY DEF vTaskPriorityInherit, At, QueueLabel
  <2>. QED BY <2>1, InLoop DEF CallOK
<1>3. h \in Task \union {"NULL"} /\ uxPriority \in [Task -> Priority]
  BY <1>2 DEF QInv, QueueTypes, IInv, TypeOK, PriorityTypeOK
<1>. HIDE DEF q
<1>4. ASSUME NEW u \in Task
      PROVE  uxPriority'[u] = uxPriority[u] \/ (u = h /\ h # "NULL")
  BY <1>1, <1>3 DEF Inherited
<1>5. ASSUME NEW u \in Task, uxPriority'[u] # uxBasePriority'[u]
      PROVE  uxMutexesHeld'[u] > 0
  <2>1. CASE uxPriority'[u] = uxPriority[u]
    BY <1>1, <1>5, <2>1 DEF HoldersInv
  <2>2. CASE u = h /\ h # "NULL"
    <3>1. q \in Held(u)
      BY <1>2, <2>2 DEF Held
    <3>2. Cardinality(Held(u)) # 0 /\ Cardinality(Held(u)) \in Nat
      BY <3>1, HeldIsFinite, FS_EmptySet
    <3>. QED BY <1>1, <3>2 DEF HoldersInv
  <2>. QED BY <1>4, <2>1, <2>2
<1>6. \A u \in Task : Held(u)' = Held(u)
  BY <1>1 DEF Held
<1>. QED BY <1>1, <1>5, <1>6 DEF HoldersInv

LEMMA NextHolders == QInv /\ HoldersInv /\ [QueueNext]_allVars => HoldersInv'
<1>. SUFFICES ASSUME QInv, HoldersInv, [QueueNext]_allVars PROVE HoldersInv'
  OBVIOUS
<1>0. Resettable \subseteq Queue \ Mutex /\ IsrSends \subseteq Queue \ Mutex
      /\ IsrReceives \subseteq Queue \ Mutex /\ Mutex \subseteq Queue
      /\ uxMessagesWaiting \in [Queue -> Nat] /\ call \in [Task -> CallType]
  BY QueueAssumption DEF QInv, QueueTypes
<1>1. CASE UNCHANGED allVars
  <2>1. UNCHANGED <<pxMutexHolder, uxMutexesHeld, uxMessagesWaiting, uxPriority, uxBasePriority,
                    call>>
    BY <1>1 DEF allVars, queueVars, vars, dataVars, mutexVars, priorityVars
  <2>. QED BY <2>1, QuietHolders
<1>2. CASE SchedulerStep
  <2>1. IInv /\ Next /\ KeepQueues
    BY <1>2, SchedulerStepIsNext DEF QInv
  <2>2. UNCHANGED <<pxMutexHolder, uxMutexesHeld, uxMessagesWaiting, call>>
    BY <2>1 DEF KeepQueues, mutexVars, dataVars
  <2>. QED BY <2>1, <2>2, PriorityFrame, QuietHolders
<1>3. CASE QueueInterrupt
  <2>1. UNCHANGED <<pxMutexHolder, uxMutexesHeld, uxPriority, uxBasePriority, call>>
    BY <1>3 DEF QueueInterrupt, xQueueGenericSendFromISR, xQueueReceiveFromISR, mutexVars,
       priorityVars
  <2>2. \A m \in Mutex : uxMessagesWaiting'[m] = uxMessagesWaiting[m]
    <3>1. ASSUME NEW q \in IsrSends, NEW position, NEW item,
                 xQueueGenericSendFromISR(q, item, position)
          PROVE  \A m \in Mutex : uxMessagesWaiting'[m] = uxMessagesWaiting[m]
      BY <1>0, <3>1 DEF xQueueGenericSendFromISR, CountOneMore
    <3>2. ASSUME NEW q \in IsrReceives, xQueueReceiveFromISR(q)
          PROVE  \A m \in Mutex : uxMessagesWaiting'[m] = uxMessagesWaiting[m]
      BY <1>0, <3>2 DEF xQueueReceiveFromISR, CopyFromStorage
    <3>. QED BY <1>3, <3>1, <3>2 DEF QueueInterrupt
  <2>. QED BY <2>1, <2>2, QuietHolders
<1>4. ASSUME NEW t \in Task, QueueCall(t) PROVE HoldersInv'
  <2>1. ASSUME NEW q \in Queue, NEW position, NEW n \in SendWaits, NEW item,
               xQueueGenericSend(t, q, item, position, n)
        PROVE  HoldersInv'
    <3>. DEFINE args == [op |-> "send", q |-> q, item |-> item, position |-> position, wait |-> n,
                         timed |-> FALSE, overflows |-> 0, entered |-> 0, expired |-> FALSE]
    <3>1. /\ call' = [call EXCEPT ![t] = args] /\ (q \in Mutex => Holds(t, q))
          /\ UNCHANGED <<vars, dataVars, mutexVars>>
      BY <2>1 DEF xQueueGenericSend, Begin
    <3>2. UNCHANGED <<pxMutexHolder, uxMutexesHeld, uxMessagesWaiting, uxPriority,
                      uxBasePriority>>
      BY <3>1 DEF vars, dataVars, mutexVars, priorityVars
    <3>3. call'[t] = args /\ \A x \in Task \ {t} : call'[x] = call[x]
      BY <1>0, <3>1
    <3>4. args.q = q
      OBVIOUS
    <3>. HIDE DEF args
    <3>. QED BY <3>1, <3>2, <3>3, <3>4, QuietHolders DEF Holds
  <2>2. ASSUME NEW q \in Queue, NEW mode, NEW n \in ReceiveWaits,
               xQueueGenericReceive(t, q, mode, n)
        PROVE  HoldersInv'
    <3>. DEFINE args == [op |-> "receive", q |-> q, mode |-> mode, wait |-> n,
                         timed |-> FALSE, overflows |-> 0, entered |-> 0, expired |-> FALSE]
    <3>1. /\ call' = [call EXCEPT ![t] = args]
          /\ UNCHANGED <<vars, dataVars, mutexVars>>
      BY <2>2 DEF xQueueGenericReceive, Begin
    <3>2. UNCHANGED <<pxMutexHolder, uxMutexesHeld, uxMessagesWaiting, uxPriority,
                      uxBasePriority>>
      BY <3>1 DEF vars, dataVars, mutexVars, priorityVars
    <3>3. call'[t] = args /\ \A x \in Task \ {t} : call'[x] = call[x]
      BY <1>0, <3>1
    <3>4. args.op = "receive"
      OBVIOUS
    <3>. HIDE DEF args
    <3>. QED BY <3>2, <3>3, <3>4, QuietHolders
  <2>3. ASSUME NEW q \in Resettable, xQueueReset(t, q) PROVE HoldersInv'
    <3>1. UNCHANGED <<pxMutexHolder, uxMutexesHeld, uxPriority, uxBasePriority, call>>
          /\ uxMessagesWaiting' = [uxMessagesWaiting EXCEPT ![q] = 0]
      BY <2>3 DEF xQueueReset, mutexVars, priorityVars
    <3>2. \A m \in Mutex : uxMessagesWaiting'[m] = uxMessagesWaiting[m]
      BY <1>0, <3>1
    <3>. QED BY <3>1, <3>2, QuietHolders
  <2>. QED BY <1>4, <2>1, <2>2, <2>3 DEF QueueCall
<1>5. ASSUME NEW t \in Task, QueueContinue(t) PROVE HoldersInv'
  <2>1. CASE SendItem(t) \/ ReceiveItem(t) \/ vTaskPriorityInherit(t)
    BY <2>1, GiveHolders, TakeHolders, InheritHolders
  <2>2. ASSUME UNCHANGED <<pxMutexHolder, uxMutexesHeld, uxMessagesWaiting, uxPriority,
                           uxBasePriority>>,
               \A x \in Task \ {t} : call'[x] = call[x],
               \/ call'[t] = NoCall
               \/ call'[t].op = call[t].op /\ call'[t].q = call[t].q
        PROVE  HoldersInv'
    BY <2>2, QuietHolders DEF NoCall
  <2>3. CASE SendFailsOrWaits(t) \/ ReceiveFailsOrWaits(t)
    <3>1. FailOrWait(t) /\ call[t] # NoCall
      BY <2>3 DEF SendFailsOrWaits, ReceiveFailsOrWaits, InCall, NoCall
    <3>2. UNCHANGED <<pxMutexHolder, uxMutexesHeld, uxMessagesWaiting, uxPriority,
                      uxBasePriority>>
      BY <3>1 DEF FailOrWait, mutexVars, dataVars, priorityVars
    <3>3. call' = [call EXCEPT ![t] = NoCall]
          \/ call' = [call EXCEPT ![t] =
                 IF @.timed THEN @
                 ELSE [@ EXCEPT !.timed = TRUE, !.overflows = xNumOfOverflows,
                                !.entered = xTickCount]]
      BY <3>1 DEF FailOrWait, Return
    <3>4. call[t] \in SendCall \/ call[t] \in ReceiveCall
      BY <1>0, <3>1 DEF CallType
    <3>. DEFINE c == [call[t] EXCEPT !.timed = TRUE, !.overflows = xNumOfOverflows,
                                     !.entered = xTickCount]
    <3>5. c.op = call[t].op /\ c.q = call[t].q
      <4>1. CASE call[t] \in SendCall
        BY <4>1 DEF SendCall
      <4>2. CASE call[t] \in ReceiveCall
        BY <4>2 DEF ReceiveCall
      <4>. QED BY <3>4, <4>1, <4>2
    <3>6. \/ call' = [call EXCEPT ![t] = NoCall]
          \/ call' = [call EXCEPT ![t] = call[t]]
          \/ call' = [call EXCEPT ![t] = c]
      BY <1>0, <3>3
    <3>. HIDE DEF c
    <3>7. \A x \in Task \ {t} : call'[x] = call[x]
      BY <1>0, <3>6
    <3>8. call'[t] \in {NoCall, call[t], c}
      BY <1>0, <3>6
    <3>. QED BY <2>2, <3>2, <3>5, <3>7, <3>8
  <2>4. CASE ReturnExpired(t)
    <3>2. UNCHANGED <<pxMutexHolder, uxMutexesHeld, uxMessagesWaiting, uxPriority,
                      uxBasePriority>>
          /\ call[t] # NoCall
      BY <2>4 DEF ReturnExpired, mutexVars, dataVars, priorityVars
    <3>3. call' = [call EXCEPT ![t] = NoCall] \/ call' = [call EXCEPT ![t].expired = FALSE]
      BY <2>4 DEF ReturnExpired, Return
    <3>4. call[t] \in SendCall \/ call[t] \in ReceiveCall
      BY <1>0, <3>2 DEF CallType
    <3>5. /\ \A x \in Task \ {t} : call'[x] = call[x]
          /\ \/ call'[t] = NoCall
             \/ call'[t].op = call[t].op /\ call'[t].q = call[t].q
      BY <1>0, <3>3, <3>4 DEF SendCall, ReceiveCall
    <3>. QED BY <2>2, <3>2, <3>5
  <2>5. CASE CheckForTimeOut(t)
    <3>1. pc[t] = "check" /\ "check" \in QueueLabel
      BY <2>5 DEF CheckForTimeOut, At, QueueLabel
    <3>2. UNCHANGED <<pxMutexHolder, uxMutexesHeld, uxMessagesWaiting, uxPriority,
                      uxBasePriority>>
          /\ call' = [call EXCEPT ![t] = xTaskCheckForTimeOut(t)]
      BY <2>5 DEF CheckForTimeOut, mutexVars, dataVars, priorityVars
    <3>3. xTaskCheckForTimeOut(t).op = call[t].op /\ xTaskCheckForTimeOut(t).q = call[t].q
      BY <3>1, InLoop, CheckTypes
    <3>4. /\ \A x \in Task \ {t} : call'[x] = call[x]
          /\ call'[t] = xTaskCheckForTimeOut(t)
      BY <1>0, <3>2
    <3>. QED BY <2>2, <3>2, <3>3, <3>4
  <2>6. CASE \/ SuspendAllToWait(t) \/ prvLockQueue(t) \/ TestQueue(t)
             \/ vTaskPlaceOnEventList(t) \/ UnlockTx(t) \/ UnlockRx(t)
    <3>1. UNCHANGED <<pxMutexHolder, uxMutexesHeld, uxMessagesWaiting, uxPriority,
                      uxBasePriority, call>>
      BY <2>6 DEF SuspendAllToWait, prvLockQueue, TestQueue, vTaskPlaceOnEventList, UnlockTx,
         UnlockRx, queueVars, mutexVars, dataVars, priorityVars
    <3>. QED BY <2>2, <3>1
  <2>. QED BY <1>5, <2>1, <2>3, <2>4, <2>5, <2>6 DEF QueueContinue
<1>. QED BY <1>1, <1>2, <1>3, <1>4, <1>5 DEF QueueNext

LEMMA AlwaysHolders == QueueSpec => []HoldersInv
<1>1. QueueInit => HoldersInv
  <2>. SUFFICES ASSUME QueueInit PROVE HoldersInv
    OBVIOUS
  <2>1. /\ pxMutexHolder = [q \in Mutex |-> "NULL"] /\ uxMutexesHeld = [t \in Task |-> 0]
        /\ uxMessagesWaiting = [q \in Queue |-> IF q \in Mutex THEN 1 ELSE 0]
        /\ call = [t \in Task |-> NoCall] /\ uxPriority = uxBasePriority
        /\ Mutex \subseteq Queue /\ "NULL" \notin Task
    BY QueueAssumption DEF QueueInit, Init
  <2>2. \A t \in Task : Held(t) = {}
    BY <2>1 DEF Held
  <2>. QED BY <2>1, <2>2, FS_EmptySet DEF HoldersInv, NoCall
<1>2. QInv /\ HoldersInv /\ [QueueNext]_allVars => HoldersInv'
  BY NextHolders
<1>. QED BY <1>1, <1>2, AlwaysQInv, PTL DEF QueueSpec

(***************************************************************************)
(* The inherited priority goes back with the last mutex: whoever is above  *)
(* his base priority holds one, and uxMutexesHeld, by which                *)
(* xTaskPriorityDisinherit knows the last, is how many mutexes a task      *)
(* holds, however the calls, the time-outs and the changes of priority     *)
(* interleave.                                                             *)
(***************************************************************************)
THEOREM OnlyHoldersInherit == QueueSpec => []InheritedOnlyByHolders
<1>1. HoldersInv => InheritedOnlyByHolders
  BY DEF HoldersInv, InheritedOnlyByHolders, Held
<1>. QED BY <1>1, AlwaysHolders, PTL
---------------------------------------------------------------------------
(* The ring of storage is a bounded queue *)

\* The place i places behind r, in the ring of q.
Place(q, r, i) == (r + i) % uxLength[q]

\* pcWriteTo is behind the last item.
RingInv == \A q \in Sized :
               pcWriteTo[q] = Forward(q, Place(q, pcReadFrom[q], uxMessagesWaiting[q]))

LEMMA PlaceIs ==
    ASSUME NEW q \in Sized, NEW r \in 0 .. uxLength[q] - 1, NEW i \in 0 .. uxLength[q]
    PROVE  /\ Place(q, r, i) = IF r + i < uxLength[q] THEN r + i ELSE r + i - uxLength[q]
           /\ Place(q, r, i) \in 0 .. uxLength[q] - 1
<1>1. uxLength[q] \in Nat \ {0}
  BY QueueAssumption
<1>2. CASE r + i < uxLength[q]
  BY <1>1, <1>2 DEF Place
<1>3. CASE ~(r + i < uxLength[q])
  <2>1. r + i - uxLength[q] \in 0 .. uxLength[q] - 1
        /\ r + i = uxLength[q] + (r + i - uxLength[q])
    BY <1>1, <1>3
  <2>. QED BY <1>1, <1>3, <2>1 DEF Place
<1>. QED BY <1>1, <1>2, <1>3

\* Steps along the ring.
LEMMA PlaceSteps ==
    ASSUME NEW q \in Sized, NEW r \in 0 .. uxLength[q] - 1
    PROVE  /\ uxLength[q] \in Nat \ {0}
           /\ Place(q, r, 0) = r /\ Place(q, r, 1) = Forward(q, r)
           /\ \A i \in 0 .. uxLength[q] - 1 :
                  /\ Forward(q, Place(q, r, i)) = Place(q, r, i + 1)
                  /\ Place(q, Forward(q, r), i) = Place(q, r, i + 1)
                  /\ Place(q, Back(q, r), i + 1) = Place(q, r, i)
           /\ \A i, j \in 0 .. uxLength[q] :
                  i < j /\ j - i < uxLength[q] => Place(q, r, i) # Place(q, r, j)
<1>1. uxLength[q] \in Nat \ {0} /\ 0 \in 0 .. uxLength[q] /\ 1 \in 0 .. uxLength[q]
  BY QueueAssumption
<1>2. /\ Forward(q, r) \in 0 .. uxLength[q] - 1 /\ Back(q, r) \in 0 .. uxLength[q] - 1
      /\ Forward(q, r) = IF r + 1 = uxLength[q] THEN 0 ELSE r + 1
  BY RingIs
<1>3. Place(q, r, 0) = r /\ Place(q, r, 1) = Forward(q, r)
  BY <1>1, <1>2, PlaceIs
<1>4. ASSUME NEW i \in 0 .. uxLength[q] - 1
      PROVE  /\ Forward(q, Place(q, r, i)) = Place(q, r, i + 1)
             /\ Place(q, Forward(q, r), i) = Place(q, r, i + 1)
             /\ Place(q, Back(q, r), i + 1) = Place(q, r, i)
  <2>1. i \in 0 .. uxLength[q] /\ i + 1 \in 0 .. uxLength[q]
    BY <1>1
  <2>2. /\ Place(q, r, i) = IF r + i < uxLength[q] THEN r + i ELSE r + i - uxLength[q]
        /\ Place(q, r, i) \in 0 .. uxLength[q] - 1
        /\ Place(q, r, i + 1) =
               IF r + (i + 1) < uxLength[q] THEN r + (i + 1) ELSE r + (i + 1) - uxLength[q]
    BY <2>1, PlaceIs
  <2>3. Forward(q, Place(q, r, i)) =
            IF Place(q, r, i) + 1 = uxLength[q] THEN 0 ELSE Place(q, r, i) + 1
    BY <2>2, RingIs
  <2>4. Forward(q, Place(q, r, i)) = Place(q, r, i + 1)
    BY <1>1, <2>1, <2>2, <2>3
  <2>5. Place(q, Forward(q, r), i) = Place(q, r, i + 1)
    <3>1. Place(q, Forward(q, r), i) = IF Forward(q, r) + i < uxLength[q] THEN Forward(q, r) + i
                                       ELSE Forward(q, r) + i - uxLength[q]
      BY <1>2, <2>1, PlaceIs
    <3>. QED BY <1>1, <1>2, <2>1, <2>2, <3>1
  <2>6. Place(q, Back(q, r), i + 1) = Place(q, r, i)
    <3>1. Place(q, Back(q, r), i + 1) =
              IF Back(q, r) + (i + 1) < uxLength[q] THEN Back(q, r) + (i + 1)
              ELSE Back(q, r) + (i + 1) - uxLength[q]
      BY <1>2, <2>1, PlaceIs
    <3>2. Back(q, r) = IF r = 0 THEN uxLength[q] - 1 ELSE r - 1
      BY DEF Back
    <3>. QED BY <1>1, <2>1, <2>2, <3>1, <3>2
  <2>. QED BY <2>4, <2>5, <2>6
<1>5. ASSUME NEW i \in 0 .. uxLength[q], NEW j \in 0 .. uxLength[q], i < j,
             j - i < uxLength[q]
      PROVE  Place(q, r, i) # Place(q, r, j)
  <2>1. /\ Place(q, r, i) = IF r + i < uxLength[q] THEN r + i ELSE r + i - uxLength[q]
        /\ Place(q, r, j) = IF r + j < uxLength[q] THEN r + j ELSE r + j - uxLength[q]
    BY PlaceIs
  <2>. QED BY <1>1, <1>5, <2>1
<1>. QED BY <1>1, <1>3, <1>4, <1>5

\* What is stored, and where.
Ring(q, s, r, n) == [i \in 1 .. n |-> s[(r + i) % uxLength[q]]]

LEMMA RingStored ==
    ASSUME NEW q \in Sized, NEW s \in [0 .. uxLength[q] - 1 -> Item],
           NEW r \in 0 .. uxLength[q] - 1, NEW n \in 0 .. uxLength[q]
    PROVE  /\ Ring(q, s, r, n) \in Seq(Item) /\ Len(Ring(q, s, r, n)) = n
           /\ \A i \in 1 .. n : Ring(q, s, r, n)[i] = s[Place(q, r, i)]
<1>1. uxLength[q] \in Nat \ {0} /\ n \in Nat
  BY QueueAssumption
<1>2. \A i \in 1 .. n : s[Place(q, r, i)] \in Item
  <2>1. \A i \in 1 .. n : Place(q, r, i) \in 0 .. uxLength[q] - 1
    BY <1>1, PlaceIs
  <2>. QED BY <1>1, <2>1
<1>. DEFINE f == [i \in 1 .. n |-> s[Place(q, r, i)]]
<1>3. f \in [1 .. n -> Item]
  BY <1>1, <1>2
<1>4. \A i \in 1 .. n : f[i] = s[Place(q, r, i)]
  OBVIOUS
<1>5. Ring(q, s, r, n) = f
  BY DEF Ring, Place
<1>. HIDE DEF f
<1>6. f \in Seq(Item) /\ Len(f) = n
  BY <1>1, <1>3
<1>. QED BY <1>4, <1>5, <1>6

LEMMA StoredIs ==
    ASSUME QueueTypes, NEW q \in Sized
    PROVE  /\ Stored(q) \in Seq(Item) /\ Len(Stored(q)) = uxMessagesWaiting[q]
           /\ \A i \in 1 .. uxMessagesWaiting[q] :
                  Stored(q)[i] = storage[q][Place(q, pcReadFrom[q], i)]
           /\ uxMessagesWaiting[q] \in 0 .. uxLength[q] /\ uxLength[q] \in Nat \ {0}
           /\ pcReadFrom[q] \in 0 .. uxLength[q] - 1 /\ pcWriteTo[q] \in 0 .. uxLength[q] - 1
           /\ storage[q] \in [0 .. uxLength[q] - 1 -> Item]
<1>1. /\ uxMessagesWaiting[q] \in 0 .. uxLength[q] /\ uxLength[q] \in Nat \ {0}
      /\ pcReadFrom[q] \in 0 .. uxLength[q] - 1 /\ pcWriteTo[q] \in 0 .. uxLength[q] - 1
      /\ storage[q] \in [0 .. uxLength[q] - 1 -> Item]
  BY QueueAssumption DEF QueueTypes
<1>. DEFINE s == storage[q]
            n == uxMessagesWaiting[q]
            r == pcReadFrom[q]
<1>2. Stored(q) = Ring(q, s, r, n)
  BY DEF Stored, Ring
<1>3. /\ Ring(q, s, r, n) \in Seq(Item) /\ Len(Ring(q, s, r, n)) = n
      /\ \A i \in 1 .. n : Ring(q, s, r, n)[i] = s[Place(q, r, i)]
  <2>. HIDE DEF s, n, r
  <2>. QED BY <1>1, RingStored DEF s, n, r
<1>. QED BY <1>1, <1>2, <1>3

\* The same of the next state.
LEMMA StoredNext ==
    ASSUME QueueTypes', NEW q \in Sized
    PROVE  /\ Stored(q)' \in Seq(Item) /\ Len(Stored(q)') = uxMessagesWaiting'[q]
           /\ \A i \in 1 .. uxMessagesWaiting'[q] :
                  Stored(q)'[i] = storage'[q][Place(q, pcReadFrom'[q], i)]
<1>1. /\ uxMessagesWaiting'[q] \in 0 .. uxLength[q] /\ pcReadFrom'[q] \in 0 .. uxLength[q] - 1
      /\ storage'[q] \in [0 .. uxLength[q] - 1 -> Item]
  BY QueueAssumption DEF QueueTypes
<1>2. Stored(q)' = Ring(q, storage'[q], pcReadFrom'[q], uxMessagesWaiting'[q])
  BY DEF Stored, Ring
<1>. QED BY <1>1, <1>2, RingStored

\* A step that changes at most one of the queues.
LEMMA OthersStored ==
    ASSUME NEW q, \A r \in Sized \ {q} :
               /\ storage'[r] = storage[r] /\ pcReadFrom'[r] = pcReadFrom[r]
               /\ pcWriteTo'[r] = pcWriteTo[r] /\ uxMessagesWaiting'[r] = uxMessagesWaiting[r]
    PROVE  /\ \A r \in Sized \ {q} : Stored(r)' = Stored(r)
           /\ RingInv /\ (q \in Sized => pcWriteTo'[q] =
                  Forward(q, Place(q, pcReadFrom'[q], uxMessagesWaiting'[q]))) => RingInv'
<1>1. ASSUME NEW r \in Sized \ {q} PROVE Stored(r)' = Stored(r)
  BY <1>1 DEF Stored
<1>. QED BY <1>1 DEF RingInv

Contained == [q \in Sized |-> Stored(q)]

LEMMA ReplaceIs ==
    ASSUME NEW q \in Sized, \A r \in Sized \ {q} : Stored(r)' = Stored(r)
    PROVE  Contained' = [Contained EXCEPT ![q] = Stored(q)'] /\ Contained[q] = Stored(q)
  BY DEF Contained

LEMMA SameIs ==
    ASSUME NEW q, q \notin Sized, \A r \in Sized \ {q} : Stored(r)' = Stored(r)
    PROVE  Contained' = Contained
  BY DEF Contained

\* prvCopyDataToQueue puts an item behind the others, in front of them, or in their place.
LEMMA PutIsFifo ==
    ASSUME QueueTypes, QueueTypes', RingInv, NEW q \in Queue, NEW item,
           q \in Sized => item \in Item, NEW position \in CopyPosition, MayCopy(q, position),
           CopyToStorage(q, item, position), NoteSent(q, item), CountOneMore(q, position),
           UNCHANGED pvBuffer
    PROVE  RingInv' /\ [Fifo!FifoNext]_<<Contained, sent, pvBuffer>>
<1>. DEFINE n == uxMessagesWaiting[q]
            r == pcReadFrom[q]
            w == pcWriteTo[q]
<1>0. /\ DOMAIN storage = Sized /\ pcReadFrom \in [Sized -> Nat] /\ pcWriteTo \in [Sized -> Nat]
      /\ uxMessagesWaiting \in [Queue -> Nat]
  BY DEF QueueTypes
<1>1. CASE q \notin Sized
  <2>1. \A x \in Sized \ {q} :
            /\ storage'[x] = storage[x] /\ pcReadFrom'[x] = pcReadFrom[x]
            /\ pcWriteTo'[x] = pcWriteTo[x] /\ uxMessagesWaiting'[x] = uxMessagesWaiting[x]
    BY <1>0, <1>1, QueueAssumption DEF CopyToStorage, CountOneMore
  <2>2. UNCHANGED <<sent, pvBuffer>>
    BY <1>1 DEF NoteSent
  <2>. QED BY <1>1, <2>1, <2>2, OthersStored, SameIs
<1>2. CASE q \in Sized
  <2>0. sent' = item /\ UNCHANGED pvBuffer
    BY <1>2 DEF NoteSent
  <2>1. \A x \in Sized \ {q} : uxMessagesWaiting'[x] = uxMessagesWaiting[x]
    BY <1>0, QueueAssumption DEF CountOneMore
  <2>2. /\ Stored(q) \in Seq(Item) /\ Len(Stored(q)) = n /\ item \in Item
        /\ \A i \in 1 .. n : Stored(q)[i] = storage[q][Place(q, r, i)]
        /\ n \in 0 .. uxLength[q] /\ uxLength[q] \in Nat \ {0}
        /\ r \in 0 .. uxLength[q] - 1 /\ w \in 0 .. uxLength[q] - 1
        /\ storage[q] \in [0 .. uxLength[q] - 1 -> Item]
    BY <1>2, StoredIs
  <2>3. /\ Stored(q)' \in Seq(Item) /\ Len(Stored(q)') = uxMessagesWaiting'[q]
        /\ \A i \in 1 .. uxMessagesWaiting'[q] :
               Stored(q)'[i] = storage'[q][Place(q, pcReadFrom'[q], i)]
    BY <1>2, StoredNext
  <2>4. w = Forward(q, Place(q, r, n))
    BY <1>2 DEF RingInv
  <2>5. CASE position = "queueSEND_TO_BACK"
    <3>1. /\ storage' = [storage EXCEPT ![q] = [storage[q] EXCEPT ![w] = item]]
          /\ UNCHANGED pcReadFrom /\ pcWriteTo' = [pcWriteTo EXCEPT ![q] = Forward(q, w)]
          /\ uxMessagesWaiting' = [uxMessagesWaiting EXCEPT ![q] = n + 1] /\ n < uxLength[q]
      BY <1>2, <2>5 DEF CopyToStorage, CountOneMore, MayCopy
    <3>2. /\ pcReadFrom'[q] = r /\ uxMessagesWaiting'[q] = n + 1 /\ pcWriteTo'[q] = Forward(q, w)
          /\ storage'[q] = [storage[q] EXCEPT ![w] = item]
          /\ \A x \in Sized \ {q} :
                 /\ storage'[x] = storage[x] /\ pcReadFrom'[x] = pcReadFrom[x]
                 /\ pcWriteTo'[x] = pcWriteTo[x]
      BY <1>0, <1>2, <3>1
    <3>. HIDE DEF n, r, w
    <3>3. w = Place(q, r, n + 1) /\ n \in Nat
      BY <1>2, <2>2, <2>4, <3>1, PlaceSteps
    <3>4. RingInv' /\ \A x \in Sized \ {q} : Stored(x)' = Stored(x)
      BY <1>2, <2>1, <3>2, <3>3, OthersStored
    <3>5. /\ storage'[q][w] = item
          /\ \A i \in 0 .. uxLength[q] - 1 : i # w => storage'[q][i] = storage[q][i]
      BY <2>2, <3>2
    <3>6. \A i \in 1 .. n : Place(q, r, i) \in 0 .. uxLength[q] - 1 /\ Place(q, r, i) # w
      <4>1. \A i \in 1 .. n : /\ i \in 0 .. uxLength[q] /\ n + 1 \in 0 .. uxLength[q]
                              /\ i < n + 1 /\ (n + 1) - i < uxLength[q]
        BY <2>2, <3>1, <3>3
      <4>2. \A i \in 1 .. n : Place(q, r, i) # Place(q, r, n + 1)
        BY <1>2, <2>2, <4>1, PlaceSteps
      <4>3. \A i \in 1 .. n : Place(q, r, i) \in 0 .. uxLength[q] - 1
        BY <1>2, <2>2, <4>1, PlaceIs
      <4>. QED BY <3>3, <4>2, <4>3
    <3>7. Stored(q)' = Append(Stored(q), item)
      <4>1. /\ Append(Stored(q), item) \in Seq(Item) /\ Len(Append(Stored(q), item)) = n + 1
            /\ \A i \in 1 .. n : Append(Stored(q), item)[i] = Stored(q)[i]
            /\ Append(Stored(q), item)[n + 1] = item
        BY <2>2, AppendProperties
      <4>2. ASSUME NEW i \in 1 .. n PROVE Stored(q)'[i] = Stored(q)[i]
        <5>1. i \in 1 .. uxMessagesWaiting'[q]
          BY <3>2, <3>3
        <5>2. Stored(q)'[i] = storage'[q][Place(q, r, i)]
          BY <2>3, <3>2, <5>1
        <5>. QED BY <2>2, <3>5, <3>6, <5>2
      <4>3. Stored(q)'[n + 1] = item
        BY <2>3, <3>2, <3>3, <3>5
      <4>4. \A i \in 1 .. n + 1 : i \in 1 .. n \/ i = n + 1
        BY <3>3
      <4>. QED BY <2>3, <3>2, <4>1, <4>2, <4>3, <4>4, SeqEqual
    <3>8. Contained' = [Contained EXCEPT ![q] = Append(Contained[q], item)]
          /\ Len(Contained[q]) < uxLength[q]
      BY <1>2, <2>2, <3>1, <3>4, <3>7, ReplaceIs
    <3>9. Fifo!PutBack(q, item)
      BY <2>0, <3>8 DEF Fifo!PutBack, Fifo!Replace, Contained
    <3>. QED BY <1>2, <2>2, <3>4, <3>9 DEF Fifo!FifoNext
  <2>6. CASE position # "queueSEND_TO_BACK"
    <3>1. /\ storage' = [storage EXCEPT ![q] = [storage[q] EXCEPT ![r] = item]]
          /\ UNCHANGED pcWriteTo /\ pcReadFrom' = [pcReadFrom EXCEPT ![q] = Back(q, r)]
      BY <1>2, <2>6 DEF CopyToStorage
    <3>2. /\ pcReadFrom'[q] = Back(q, r) /\ pcWriteTo'[q] = w
          /\ storage'[q] = [storage[q] EXCEPT ![r] = item]
          /\ \A x \in Sized \ {q} :
                 /\ storage'[x] = storage[x] /\ pcReadFrom'[x] = pcReadFrom[x]
                 /\ pcWriteTo'[x] = pcWriteTo[x]
      BY <1>0, <1>2, <3>1
    <3>3. \/ position = "queueOVERWRITE" /\ uxLength[q] = 1 /\ uxMessagesWaiting'[q] = 1
          \/ n < uxLength[q] /\ uxMessagesWaiting'[q] = n + 1
      BY <1>0, <1>2, <2>2 DEF MayCopy, CountOneMore
    <3>. HIDE DEF n, r, w
    <3>4. /\ storage'[q][r] = item
          /\ \A i \in 0 .. uxLength[q] - 1 : i # r => storage'[q][i] = storage[q][i]
      BY <2>2, <3>2
    <3>5. CASE n < uxLength[q] /\ uxMessagesWaiting'[q] = n + 1
      <4>1. Place(q, Back(q, r), n + 1) = Place(q, r, n) /\ n \in Nat
        BY <1>2, <2>2, <3>5, PlaceSteps
      <4>2. RingInv' /\ \A x \in Sized \ {q} : Stored(x)' = Stored(x)
        BY <1>2, <2>1, <2>4, <3>2, <3>5, <4>1, OthersStored
      <4>3. \A i \in 1 .. n : Place(q, r, i) \in 0 .. uxLength[q] - 1 /\ Place(q, r, i) # r
        <5>1. \A i \in 1 .. n : /\ i \in 0 .. uxLength[q] /\ 0 \in 0 .. uxLength[q]
                                /\ 0 < i /\ i - 0 < uxLength[q]
          BY <2>2, <3>5, <4>1
        <5>2. \A i \in 1 .. n : Place(q, r, 0) # Place(q, r, i) /\ Place(q, r, 0) = r
          BY <1>2, <2>2, <5>1, PlaceSteps
        <5>3. \A i \in 1 .. n : Place(q, r, i) \in 0 .. uxLength[q] - 1
          BY <1>2, <2>2, <5>1, PlaceIs
        <5>. QED BY <5>2, <5>3
      <4>4. /\ Place(q, Back(q, r), 1) = r
            /\ \A i \in 1 .. n : Place(q, Back(q, r), i + 1) = Place(q, r, i)
        BY <1>2, <2>2, <3>5, PlaceSteps
      <4>5. Stored(q)' = <<item>> \o Stored(q)
        <5>1. /\ <<item>> \o Stored(q) \in Seq(Item) /\ Len(<<item>> \o Stored(q)) = n + 1
              /\ (<<item>> \o Stored(q))[1] = item
              /\ \A i \in 1 .. n : (<<item>> \o Stored(q))[i + 1] = Stored(q)[i]
          BY <2>2, <4>1
        <5>2. ASSUME NEW i \in 1 .. n PROVE Stored(q)'[i + 1] = Stored(q)[i]
          <6>1. i + 1 \in 1 .. uxMessagesWaiting'[q]
            BY <3>5, <4>1
          <6>2. Stored(q)'[i + 1] = storage'[q][Place(q, r, i)]
            BY <2>3, <3>2, <4>4, <6>1
          <6>. QED BY <2>2, <3>4, <4>3, <6>2
        <5>3. Stored(q)'[1] = item
          BY <2>3, <3>2, <3>4, <3>5, <4>1, <4>4
        <5>4. \A i \in 1 .. n + 1 : i = 1 \/ (i - 1 \in 1 .. n /\ i = (i - 1) + 1)
          BY <4>1
        <5>5. \A i \in 1 .. n + 1 : Stored(q)'[i] = (<<item>> \o Stored(q))[i]
          BY <5>1, <5>2, <5>3, <5>4
        <5>. QED BY <2>3, <3>5, <5>1, <5>5, SeqEqual
      <4>6. Contained' = [Contained EXCEPT ![q] = <<item>> \o Contained[q]]
            /\ Len(Contained[q]) < uxLength[q]
        BY <1>2, <2>2, <3>5, <4>2, <4>5, ReplaceIs
      <4>7. Fifo!PutFront(q, item)
        BY <2>0, <4>6 DEF Fifo!PutFront, Fifo!Replace, Contained
      <4>. QED BY <1>2, <2>2, <4>2, <4>7 DEF Fifo!FifoNext
    <3>6. CASE uxLength[q] = 1 /\ uxMessagesWaiting'[q] = 1
      <4>1. r = 0 /\ w = 0 /\ Back(q, r) = 0 /\ Place(q, 0, 1) = 0 /\ Forward(q, 0) = 0
        BY <2>2, <3>6 DEF Back, Place, Forward
      <4>2. RingInv' /\ \A x \in Sized \ {q} : Stored(x)' = Stored(x)
        BY <1>2, <2>1, <3>2, <3>6, <4>1, OthersStored
      <4>3. Stored(q)'[1] = item
        BY <2>3, <3>2, <3>4, <3>6, <4>1
      <4>4. Stored(q)' = <<item>>
        BY <2>2, <2>3, <3>6, <4>3
      <4>5. Contained' = [Contained EXCEPT ![q] = <<item>>]
        BY <1>2, <4>2, <4>4, ReplaceIs
      <4>6. Fifo!Overwrite(q, item)
        BY <2>0, <3>6, <4>5 DEF Fifo!Overwrite, Fifo!Replace, Contained
      <4>. QED BY <1>2, <2>2, <4>2, <4>6 DEF Fifo!FifoNext
    <3>. QED BY <3>3, <3>5, <3>6
  <2>. QED BY <2>5, <2>6
<1>. QED BY <1>1, <1>2

\* prvCopyDataFromQueue takes the first item, or looks at it.
LEMMA GetIsFifo ==
    ASSUME QueueTypes, QueueTypes', RingInv, NEW q \in Queue, NEW mode, uxMessagesWaiting[q] > 0,
           CopyFromStorage(q, mode)
    PROVE  RingInv' /\ [Fifo!FifoNext]_<<Contained, sent, pvBuffer>>
<1>. DEFINE n == uxMessagesWaiting[q]
            r == pcReadFrom[q]
<1>0. /\ DOMAIN storage = Sized /\ pcReadFrom \in [Sized -> Nat] /\ pcWriteTo \in [Sized -> Nat]
      /\ uxMessagesWaiting \in [Queue -> Nat] /\ Sized \subseteq Queue
      /\ UNCHANGED <<storage, pcWriteTo, sent>>
  BY QueueAssumption DEF QueueTypes, CopyFromStorage
<1>1. CASE q \notin Sized
  <2>1. /\ UNCHANGED pvBuffer
        /\ \A x \in Sized \ {q} :
               /\ storage'[x] = storage[x] /\ pcReadFrom'[x] = pcReadFrom[x]
               /\ pcWriteTo'[x] = pcWriteTo[x] /\ uxMessagesWaiting'[x] = uxMessagesWaiting[x]
    BY <1>0, <1>1 DEF CopyFromStorage
  <2>. QED BY <1>0, <1>1, <2>1, OthersStored, SameIs
<1>2. CASE q \in Sized
  <2>1. /\ Stored(q) \in Seq(Item) /\ Len(Stored(q)) = n
        /\ \A i \in 1 .. n : Stored(q)[i] = storage[q][Place(q, r, i)]
        /\ n \in 0 .. uxLength[q] /\ uxLength[q] \in Nat \ {0}
        /\ r \in 0 .. uxLength[q] - 1
    BY <1>2, StoredIs
  <2>2. n \in Nat /\ n > 0 /\ pvBuffer' = storage[q][Forward(q, r)]
    BY <1>2, <2>1 DEF CopyFromStorage
  <2>3. Contained[q] = Stored(q) /\ Stored(q) # <<>> /\ pvBuffer' = Head(Contained[q])
    <3>1. 1 \in 1 .. n /\ Stored(q) # <<>>
      BY <2>1, <2>2
    <3>2. Head(Stored(q)) = Stored(q)[1]
      BY <2>1, <3>1
    <3>3. Stored(q)[1] = storage[q][Forward(q, r)]
      BY <1>2, <2>1, <3>1, PlaceSteps
    <3>. QED BY <1>2, <2>2, <3>1, <3>2, <3>3 DEF Contained
  <2>4. CASE mode = "peek"
    <3>1. UNCHANGED <<pcReadFrom, uxMessagesWaiting>>
      BY <1>2, <2>4 DEF CopyFromStorage
    <3>2. RingInv' /\ Contained' = Contained
      BY <1>0, <3>1 DEF RingInv, Contained, Stored
    <3>3. Fifo!Look(q)
      BY <1>0, <2>3, <3>2 DEF Fifo!Look, Contained
    <3>. QED BY <1>2, <3>2, <3>3 DEF Fifo!FifoNext
  <2>5. CASE mode # "peek"
    <3>1. /\ pcReadFrom' = [pcReadFrom EXCEPT ![q] = Forward(q, r)]
          /\ uxMessagesWaiting' = [uxMessagesWaiting EXCEPT ![q] = n - 1]
      BY <1>2, <2>5 DEF CopyFromStorage
    <3>2. /\ pcReadFrom'[q] = Forward(q, r) /\ uxMessagesWaiting'[q] = n - 1
          /\ storage'[q] = storage[q] /\ pcWriteTo'[q] = pcWriteTo[q]
          /\ \A x \in Sized \ {q} :
                 /\ storage'[x] = storage[x] /\ pcReadFrom'[x] = pcReadFrom[x]
                 /\ pcWriteTo'[x] = pcWriteTo[x] /\ uxMessagesWaiting'[x] = uxMessagesWaiting[x]
      BY <1>0, <1>2, <3>1
    <3>3. pcWriteTo[q] = Forward(q, Place(q, r, n))
      BY <1>2 DEF RingInv
    <3>4. /\ Stored(q)' \in Seq(Item) /\ Len(Stored(q)') = n - 1
          /\ \A i \in 1 .. n - 1 : Stored(q)'[i] = storage[q][Place(q, Forward(q, r), i)]
      BY <1>2, <3>2, StoredNext
    <3>. HIDE DEF n, r
    <3>5. \A i \in 0 .. n - 1 : Place(q, Forward(q, r), i) = Place(q, r, i + 1)
      BY <1>2, <2>1, <2>2, PlaceSteps
    <3>6. n - 1 \in 0 .. n - 1 /\ (n - 1) + 1 = n
      BY <2>2
    <3>7. RingInv' /\ \A x \in Sized \ {q} : Stored(x)' = Stored(x)
      BY <1>2, <3>2, <3>3, <3>5, <3>6, OthersStored
    <3>8. Stored(q)' = Tail(Stored(q))
      <4>1. /\ Tail(Stored(q)) \in Seq(Item) /\ Len(Tail(Stored(q))) = n - 1
            /\ \A i \in 1 .. n - 1 : Tail(Stored(q))[i] = Stored(q)[i + 1]
        BY <2>1, <2>3, HeadTailProperties
      <4>2. ASSUME NEW i \in 1 .. n - 1 PROVE Stored(q)'[i] = Tail(Stored(q))[i]
        <5>1. i \in 0 .. n - 1 /\ i + 1 \in 1 .. n
          BY <2>2
        <5>. QED BY <2>1, <3>4, <3>5, <4>1, <5>1
      <4>. QED BY <3>4, <4>1, <4>2, SeqEqual
    <3>9. Contained' = [Contained EXCEPT ![q] = Tail(Contained[q])]
      BY <1>2, <3>7, <3>8, ReplaceIs
    <3>10. Fifo!Take(q)
      BY <1>0, <2>3, <3>9 DEF Fifo!Take, Fifo!Replace, Contained
    <3>. QED BY <1>2, <3>7, <3>10 DEF Fifo!FifoNext
  <2>. QED BY <2>4, <2>5
<1>. QED BY <1>1, <1>2

\* xQueueReset throws away what is stored.
LEMMA ResetIsFifo ==
    ASSUME QueueTypes, QueueTypes', RingInv, NEW t \in Task, NEW q \in Queue, xQueueReset(t, q)
    PROVE  RingInv' /\ [Fifo!FifoNext]_<<Contained, sent, pvBuffer>>
<1>1. /\ pcWriteTo' = [pcWriteTo EXCEPT ![q] = 0]
      /\ pcReadFrom' = [pcReadFrom EXCEPT ![q] = uxLength[q] - 1]
      /\ uxMessagesWaiting' = [uxMessagesWaiting EXCEPT ![q] = 0]
      /\ UNCHANGED <<storage, pvBuffer, sent>>
  BY DEF xQueueReset
<1>2. /\ pcReadFrom \in [Sized -> Nat] /\ pcWriteTo \in [Sized -> Nat]
      /\ uxMessagesWaiting \in [Queue -> Nat] /\ Sized \subseteq Queue
  BY QueueAssumption DEF QueueTypes
<1>3. \A x \in Sized \ {q} :
          /\ storage'[x] = storage[x] /\ pcReadFrom'[x] = pcReadFrom[x]
          /\ pcWriteTo'[x] = pcWriteTo[x] /\ uxMessagesWaiting'[x] = uxMessagesWaiting[x]
  BY <1>1, <1>2
<1>4. CASE q \notin Sized
  BY <1>1, <1>3, <1>4, OthersStored, SameIs
<1>5. CASE q \in Sized
  <2>1. pcWriteTo'[q] = 0 /\ pcReadFrom'[q] = uxLength[q] - 1 /\ uxMessagesWaiting'[q] = 0
    BY <1>1, <1>2, <1>5
  <2>2. uxLength[q] \in Nat \ {0}
    BY QueueAssumption
  <2>3. uxLength[q] - 1 \in 0 .. uxLength[q] - 1 /\ (uxLength[q] - 1) + 1 = uxLength[q]
    BY <2>2
  <2>4. Forward(q, Place(q, uxLength[q] - 1, 0)) = 0
    BY <1>5, <2>3, PlaceSteps, RingIs
  <2>5. RingInv' /\ \A x \in Sized \ {q} : Stored(x)' = Stored(x)
    BY <1>3, <1>5, <2>1, <2>4, OthersStored
  <2>6. Stored(q)' = <<>>
    BY <1>5, <2>1, StoredNext
  <2>7. Contained' = [Contained EXCEPT ![q] = <<>>]
    BY <1>5, <2>5, <2>6, ReplaceIs
  <2>8. Fifo!Clear(q)
    BY <1>1, <2>7 DEF Fifo!Clear, Fifo!Replace, Contained
  <2>. QED BY <1>5, <2>5, <2>8 DEF Fifo!FifoNext
<1>. QED BY <1>4, <1>5

\* Nothing else touches the storage.
LEMMA QuietFifo ==
    ASSUME RingInv, UNCHANGED dataVars
    PROVE  RingInv' /\ [Fifo!FifoNext]_<<Contained, sent, pvBuffer>>
<1>1. UNCHANGED <<storage, pcWriteTo, pcReadFrom, uxMessagesWaiting, pvBuffer, sent>>
  BY DEF dataVars
<1>. QED BY <1>1 DEF RingInv, Contained, Stored

LEMMA NextFifo ==
    ASSUME QInv, QInv', RingInv, [QueueNext]_allVars
    PROVE  RingInv' /\ [Fifo!FifoNext]_<<Contained, sent, pvBuffer>>
<1>0. QueueTypes /\ QueueTypes'
  BY DEF QInv
<1>1. CASE UNCHANGED allVars
  BY <1>1, QuietFifo DEF allVars, queueVars
<1>2. CASE SchedulerStep
  BY <1>2, QuietFifo DEF SchedulerStep, KeepQueues
<1>3. CASE QueueInterrupt
  <2>1. ASSUME NEW q \in IsrSends, NEW position \in CopyPositions,
               NEW item \in Item \union {"nothing"}, item \in Contents(q),
               xQueueGenericSendFromISR(q, item, position)
        PROVE  RingInv' /\ [Fifo!FifoNext]_<<Contained, sent, pvBuffer>>
    <3>1. /\ MayCopy(q, position) /\ CopyToStorage(q, item, position)
          /\ NoteSent(q, item) /\ CountOneMore(q, position) /\ UNCHANGED pvBuffer
      BY <2>1 DEF xQueueGenericSendFromISR
    <3>2. q \in Queue /\ (q \in Sized => item \in Item) /\ position \in CopyPosition
      BY <2>1, QueueAssumption DEF Contents
    <3>. QED BY <1>0, <3>1, <3>2, PutIsFifo
  <2>2. ASSUME NEW q \in IsrReceives, xQueueReceiveFromISR(q)
        PROVE  RingInv' /\ [Fifo!FifoNext]_<<Contained, sent, pvBuffer>>
    <3>1. uxMessagesWaiting[q] > 0 /\ CopyFromStorage(q, "receive") /\ q \in Queue
      BY <2>2, QueueAssumption DEF xQueueReceiveFromISR
    <3>. QED BY <1>0, <3>1, GetIsFifo
  <2>. QED BY <1>3, <2>1, <2>2 DEF QueueInterrupt
<1>4. ASSUME NEW t \in Task, QueueCall(t)
      PROVE  RingInv' /\ [Fifo!FifoNext]_<<Contained, sent, pvBuffer>>
  <2>1. ASSUME NEW q \in Resettable, xQueueReset(t, q)
        PROVE  RingInv' /\ [Fifo!FifoNext]_<<Contained, sent, pvBuffer>>
    BY <1>0, <2>1, ResetIsFifo, QueueAssumption
  <2>2. ASSUME NEW args, NEW n, Begin(t, args, n)
        PROVE  RingInv' /\ [Fifo!FifoNext]_<<Contained, sent, pvBuffer>>
    BY <2>2, QuietFifo DEF Begin
  <2>. QED BY <1>4, <2>1, <2>2 DEF QueueCall, xQueueGenericSend, xQueueGenericReceive
<1>5. ASSUME NEW t \in Task, QueueContinue(t)
      PROVE  RingInv' /\ [Fifo!FifoNext]_<<Contained, sent, pvBuffer>>
  <2>1. CASE SendItem(t)
    <3>1. /\ call[t].op = "send" /\ call[t] # NoCall /\ MayCopy(call[t].q, call[t].position)
          /\ CopyToStorage(call[t].q, call[t].item, call[t].position)
          /\ NoteSent(call[t].q, call[t].item)
          /\ CountOneMore(call[t].q, call[t].position) /\ UNCHANGED pvBuffer
      BY <2>1 DEF SendItem, InCall, NoCall
    <3>2. call[t] \in SendCall
      BY <1>0, <3>1, CallTypes DEF QueueTypes
    <3>3. /\ call[t].q \in Queue /\ call[t].position \in CopyPosition
          /\ call[t].q \in Sized => call[t].item \in Item
      BY <3>1, <3>2 DEF SendCall, QInv, QueueCalls, OneCall, CallOK
    <3>. QED BY <1>0, <3>1, <3>3, PutIsFifo
  <2>2. CASE ReceiveItem(t)
    <3>1. /\ call[t].op = "receive" /\ call[t] # NoCall
          /\ uxMessagesWaiting[call[t].q] > 0 /\ CopyFromStorage(call[t].q, call[t].mode)
      BY <2>2 DEF ReceiveItem, InCall, NoCall
    <3>2. call[t].q \in Queue
      BY <1>0, <3>1, CallTypes DEF QueueTypes
    <3>. QED BY <1>0, <3>1, <3>2, GetIsFifo
  <2>3. CASE \/ SendFailsOrWaits(t) \/ ReceiveFailsOrWaits(t) \/ ReturnExpired(t)
             \/ SuspendAllToWait(t) \/ prvLockQueue(t) \/ CheckForTimeOut(t)
             \/ TestQueue(t) \/ vTaskPriorityInherit(t) \/ vTaskPlaceOnEventList(t)
             \/ UnlockTx(t) \/ UnlockRx(t)
    <3>1. UNCHANGED dataVars
      BY <2>3 DEF SendFailsOrWaits, ReceiveFailsOrWaits, FailOrWait, ReturnExpired,
         SuspendAllToWait, prvLockQueue, CheckForTimeOut, TestQueue, vTaskPriorityInherit,
         vTaskPlaceOnEventList, UnlockTx, UnlockRx, queueVars
    <3>. QED BY <3>1, QuietFifo
  <2>. QED BY <1>5, <2>1, <2>2, <2>3 DEF QueueContinue
<1>. QED BY <1>1, <1>2, <1>3, <1>4, <1>5 DEF QueueNext

(***************************************************************************)
(* The ring of storage with its two indices, used by tasks and interrupts, *)
(* behaves as the bounded queues of BoundedFifo: nothing is lost, doubled  *)
(* or taken out of order, and every item that was sent, an overwriting one *)
(* included, is in its place, for every length and however the calls that  *)
(* send, receive, peek, overwrite and reset interleave.                    *)
(***************************************************************************)
THEOREM QueuesAreFifos == QueueSpec => ImplementsFifo
<1>1. QueueInit => RingInv /\ Fifo!FifoInit
  <2>. SUFFICES ASSUME QueueInit PROVE RingInv /\ Fifo!FifoInit
    OBVIOUS
  <2>1. /\ pcWriteTo = [q \in Sized |-> 0] /\ pcReadFrom = [q \in Sized |-> uxLength[q] - 1]
        /\ uxMessagesWaiting = [q \in Queue |-> IF q \in Mutex THEN 1 ELSE 0]
        /\ pvBuffer = "nothing" /\ sent = "nothing"
    BY DEF QueueInit
  <2>2. ASSUME NEW q \in Sized
        PROVE  /\ pcWriteTo[q] = Forward(q, Place(q, pcReadFrom[q], uxMessagesWaiting[q]))
               /\ Stored(q) = <<>>
    <3>1. pcWriteTo[q] = 0 /\ pcReadFrom[q] = uxLength[q] - 1 /\ uxMessagesWaiting[q] = 0
          /\ uxLength[q] \in Nat \ {0}
      BY <2>1, QueueAssumption
    <3>2. uxLength[q] - 1 \in 0 .. uxLength[q] - 1 /\ (uxLength[q] - 1) + 1 = uxLength[q]
      BY <3>1
    <3>3. Forward(q, Place(q, uxLength[q] - 1, 0)) = 0
      BY <3>2, PlaceSteps, RingIs
    <3>4. Stored(q) = <<>>
      BY <3>1 DEF Stored
    <3>. QED BY <3>1, <3>3, <3>4
  <2>. QED BY <2>1, <2>2 DEF RingInv, Fifo!FifoInit
<1>2. QInv /\ QInv' /\ RingInv /\ [QueueNext]_allVars =>
          RingInv' /\ [Fifo!FifoNext]_<<[q \in Sized |-> Stored(q)], sent, pvBuffer>>
  BY NextFifo DEF Contained
<1>. QED BY <1>1, <1>2, AlwaysQInv, PTL DEF QueueSpec, ImplementsFifo, Fifo!FifoSpec
---------------------------------------------------------------------------
(* Nobody waits for what is there *)

\* The two sides of a queue: who waits, for what, and what interrupts added to it while the
\* queue was locked.
ListFor(q, op) == IF op = "send" THEN xTasksWaitingToSend[q] ELSE xTasksWaitingToReceive[q]
Stock(q, op) == IF op = "send" THEN Room(q) ELSE uxMessagesWaiting[q]
LockFor(q, op) == IF op = "send" THEN cRxLock[q] ELSE cTxLock[q]

\* The tasks in a call that are awake and will look at the queue before they wait again or give
\* up.  A sender that has timed out does not look again; one that found nothing will not, until
\* TestQueue.
Lookers(q, op) ==
    {t \in Task : /\ call[t] # NoCall /\ call[t].op = op /\ call[t].q = q
                  /\ eventList[t] # ListFor(q, op)
                  /\ pc[t] \notin TryingLabel
                  /\ op = "receive" \/ ~call[t].expired}

Enough(q, op) ==
    SomebodyWaits(ListFor(q, op)) =>
        Stock(q, op) <= Cardinality(Lookers(q, op)) + Counted(LockFor(q, op))

\* The sides for which that is true: xQueueReset wakes one sender whatever room it makes.
Op == {"send", "receive"}
Reliable(q, op) == op = "send" /\ q \in Resettable => Cardinality(SendingTasks) = 1

\* Who waits is in a call, on the list for it; and what that call is.
WaiterOK(t) ==
    /\ eventList[t] \in ObjectLists =>
           /\ call[t] # NoCall /\ ~call[t].expired
           /\ eventList[t] = ListFor(call[t].q, call[t].op)
           /\ pc[t] \notin TryingLabel
    /\ call[t].op = "send" =>
           /\ t \in SendingTasks
           /\ call[t].position = "queueOVERWRITE" => uxLength[call[t].q] = 1 /\ call[t].q \in Sized

\* The queue is locked while its caller is about to wait; what has come since he found nothing
\* was counted.
TestedOK(t) ==
    /\ pc[t] \in {"check", "test", "inherit", "place"} =>
           cTxLock[call[t].q] >= 0 /\ cRxLock[call[t].q] >= 0
    /\ pc[t] \in {"inherit", "place"} =>
           Stock(call[t].q, call[t].op) <= Counted(LockFor(call[t].q, call[t].op))

LocksFit == \A q \in Queue : /\ cTxLock[q] \in queueUNLOCKED .. MaxLock
                             /\ cRxLock[q] \in queueUNLOCKED .. MaxLock

WakeInv ==
    /\ LocksFit
    /\ \A t \in Task : WaiterOK(t) /\ TestedOK(t)
    /\ \A q \in Queue, op \in Op : Reliable(q, op) => Enough(q, op)

LEMMA ListsApart ==
    ASSUME NEW q \in Queue, NEW op \in Op, NEW r \in Queue, NEW o \in Op
    PROVE  /\ ListFor(q, op) \in ObjectLists
           /\ ListFor(q, op) = ListFor(r, o) => q = r /\ op = o
           /\ ListFor(q, op) \notin {"none", "pending"}
  BY QueueAssumption, QueueLabels DEF ListFor, Op

\* Counting the tasks of sets that differ by one, or by the first n of a list.
LEMMA Counts ==
    ASSUME NEW A \in SUBSET Task, NEW B \in SUBSET Task
    PROVE  /\ Cardinality(A) \in Nat /\ Cardinality(B) \in Nat
           /\ A \subseteq B => Cardinality(A) <= Cardinality(B)
           /\ \A t \in Task : A \ {t} \subseteq B => Cardinality(A) - 1 <= Cardinality(B)
           /\ \A x \in Task : A \union {x} \subseteq B /\ x \notin A =>
                                  Cardinality(A) + 1 <= Cardinality(B)
           /\ \A t, x \in Task : (A \ {t}) \union {x} \subseteq B /\ x \notin A =>
                                     Cardinality(A) <= Cardinality(B)
<1>1. IsFiniteSet(Task)
  BY QueueAssumption
<1>2. \A C \in SUBSET Task : IsFiniteSet(C) /\ Cardinality(C) \in Nat
  BY <1>1, FS_Subset, FS_CardinalityType
<1>3. \A C, D \in SUBSET Task : C \subseteq D => Cardinality(C) <= Cardinality(D)
  BY <1>2, FS_Subset
<1>4. \A C \in SUBSET Task, t \in Task :
          /\ t \in C => Cardinality(C \ {t}) = Cardinality(C) - 1
          /\ t \notin C => Cardinality(C \union {t}) = Cardinality(C) + 1
  BY <1>2, FS_RemoveElement, FS_AddElement
<1>5. ASSUME NEW t \in Task
      PROVE  Cardinality(A \ {t}) \in Nat /\ Cardinality(A) - 1 <= Cardinality(A \ {t})
  <2>1. CASE t \in A
    BY <1>2, <1>4, <2>1
  <2>2. CASE t \notin A
    <3>1. A \ {t} = A
      BY <2>2
    <3>. QED BY <1>2, <3>1
  <2>. QED BY <2>1, <2>2
<1>6. ASSUME NEW t \in Task, A \ {t} \subseteq B PROVE Cardinality(A) - 1 <= Cardinality(B)
  <2>1. Cardinality(A \ {t}) <= Cardinality(B)
    BY <1>3, <1>6
  <2>. QED BY <1>2, <1>5, <2>1
<1>7. ASSUME NEW x \in Task, A \union {x} \subseteq B, x \notin A
      PROVE  Cardinality(A) + 1 <= Cardinality(B)
  <2>1. Cardinality(A \union {x}) <= Cardinality(B) /\ A \union {x} \in SUBSET Task
    BY <1>3, <1>7
  <2>. QED BY <1>2, <1>4, <1>7, <2>1
<1>8. ASSUME NEW t \in Task, NEW x \in Task, (A \ {t}) \union {x} \subseteq B, x \notin A
      PROVE  Cardinality(A) <= Cardinality(B)
  <2>. DEFINE C == A \ {t}
  <2>1. C \in SUBSET Task /\ x \notin C /\ C \union {x} \in SUBSET Task
    BY <1>8
  <2>2. Cardinality(C \union {x}) = Cardinality(C) + 1
    BY <1>4, <2>1
  <2>3. Cardinality(C \union {x}) <= Cardinality(B)
    BY <1>3, <1>8, <2>1
  <2>4. Cardinality(C) \in Nat /\ Cardinality(A) - 1 <= Cardinality(C)
    BY <1>5
  <2>. HIDE DEF C
  <2>. QED BY <1>2, <2>2, <2>3, <2>4
<1>. QED BY <1>2, <1>3, <1>6, <1>7, <1>8

LEMMA CountMany ==
    ASSUME NEW A \in SUBSET Task, NEW B \in SUBSET Task, NEW s \in Seq(Task), Distinct(s),
           NEW n \in 0 .. Len(s), A \subseteq B,
           \A i \in 1 .. n : s[i] \notin A /\ s[i] \in B
    PROVE  Cardinality(A) + n <= Cardinality(B)
<1>1. IsFiniteSet(Task) /\ IsFiniteSet(A) /\ IsFiniteSet(B)
  BY QueueAssumption, FS_Subset
<1>2. Cardinality(A) \in Nat /\ Cardinality(B) \in Nat
  BY <1>1, FS_CardinalityType
<1>. DEFINE M == {m \in Nat : m <= n =>
                      /\ IsFiniteSet({s[i] : i \in 1 .. m})
                      /\ Cardinality({s[i] : i \in 1 .. m}) = m}
<1>3. 0 \in M
  <2>1. {s[i] : i \in 1 .. 0} = {}
    OBVIOUS
  <2>. QED BY <2>1, FS_EmptySet
<1>4. ASSUME NEW m \in M PROVE m + 1 \in M
  <2>. SUFFICES ASSUME m + 1 <= n
                PROVE  /\ IsFiniteSet({s[i] : i \in 1 .. m + 1})
                       /\ Cardinality({s[i] : i \in 1 .. m + 1}) = m + 1
    OBVIOUS
  <2>. DEFINE C == {s[i] : i \in 1 .. m}
  <2>1. m \in Nat /\ IsFiniteSet(C) /\ Cardinality(C) = m
    OBVIOUS
  <2>2. {s[i] : i \in 1 .. m + 1} = C \union {s[m + 1]}
    <3>1. \A i \in 1 .. m + 1 : i \in 1 .. m \/ i = m + 1
      BY <2>1
    <3>2. \A i \in 1 .. m : i \in 1 .. m + 1
      BY <2>1
    <3>3. m + 1 \in 1 .. m + 1
      BY <2>1
    <3>. QED BY <3>1, <3>2, <3>3
  <2>3. s[m + 1] \notin C
    <3>1. \A i \in 1 .. m : i \in DOMAIN s /\ m + 1 \in DOMAIN s /\ i # m + 1
      BY <2>1
    <3>. QED BY <3>1 DEF Distinct
  <2>. HIDE DEF C
  <2>4. /\ IsFiniteSet(C \union {s[m + 1]})
        /\ Cardinality(C \union {s[m + 1]}) = m + 1
    BY <2>1, <2>3, FS_AddElement
  <2>. QED BY <2>2, <2>4
<1>5. n \in M
  <2>1. M \in SUBSET Nat
    OBVIOUS
  <2>. HIDE DEF M
  <2>2. n \in Nat
    OBVIOUS
  <2>. QED BY <1>3, <1>4, <2>1, <2>2, SetInduction
<1>. DEFINE W == {s[i] : i \in 1 .. n}
<1>6. IsFiniteSet(W) /\ Cardinality(W) = n /\ A \intersect W = {} /\ A \union W \subseteq B
  BY <1>5
<1>. HIDE DEF W, M
<1>7. Cardinality(A \union W) = Cardinality(A) + n
  <2>1. Cardinality(A \intersect W) = 0
    BY <1>6, FS_EmptySet
  <2>. QED BY <1>1, <1>2, <1>6, <2>1, FS_Union
<1>8. Cardinality(A \union W) <= Cardinality(B)
  BY <1>1, <1>6, FS_Subset
<1>. QED BY <1>7, <1>8

LEMMA OpIs ==
    ASSUME QInv, NEW t \in Task, call[t] # NoCall
    PROVE  call[t].op \in Op /\ call[t].q \in Queue
  BY ItsCall DEF Op

\* What is there on a side, beyond what was counted.
Net(q, op) == Stock(q, op) - Counted(LockFor(q, op))

LEMMA NetTypes ==
    ASSUME QueueTypes, NEW q \in Queue, NEW op \in Op
    PROVE  /\ Stock(q, op) \in Int /\ LockFor(q, op) \in Int
           /\ Counted(LockFor(q, op)) \in Int /\ Net(q, op) \in Int
<1>1. Stock(q, op) \in Int /\ LockFor(q, op) \in Int
  BY QueueAssumption DEF QueueTypes, Stock, Room, LockFor
<1>2. Counted(LockFor(q, op)) \in Int
  BY <1>1 DEF Counted
<1>. QED BY <1>1, <1>2 DEF Net

LEMMA CountedIs ==
    ASSUME LocksFit, NEW q \in Queue, NEW op \in Op
    PROVE  /\ LockFor(q, op) \in queueUNLOCKED .. MaxLock
           /\ Counted(LockFor(q, op)) >= 0
           /\ LockFor(q, op) # queueUNLOCKED =>
                  LockFor(q, op) >= 0 /\ Counted(LockFor(q, op)) = LockFor(q, op)
<1>1. LockFor(q, op) \in queueUNLOCKED .. MaxLock
  BY DEF LocksFit, LockFor
<1>. QED BY <1>1, QueueAssumption DEF Counted, queueUNLOCKED

\* A list is empty when nobody is in it.
LEMMA WaitsIs ==
    ASSUME NEW s \in Seq(Task)
    PROVE  s # <<>> <=> \E x \in Task : InList(s, x)
<1>1. CASE s = <<>>
  <2>1. DOMAIN s = {}
    BY <1>1
  <2>. QED BY <1>1, <2>1 DEF InList
<1>2. CASE s # <<>>
  <2>1. 1 \in DOMAIN s /\ s[1] \in Task
    BY <1>2
  <2>. QED BY <1>2, <2>1 DEF InList
<1>. QED BY <1>1, <1>2

LEMMA StillWaits ==
    ASSUME WaitersInv, WaitersInv', NEW l \in ObjectLists,
           \A x \in Task : eventList'[x] = l => eventList[x] = l
    PROVE  waiters'[l] # <<>> => waiters[l] # <<>>
<1>1. waiters[l] \in Seq(Task) /\ \A x \in Task : InList(waiters[l], x) <=> eventList[x] = l
  BY DEF WaitersInv
<1>2. waiters'[l] \in Seq(Task) /\ \A x \in Task : InList(waiters'[l], x) <=> eventList'[x] = l
  BY DEF WaitersInv
<1>. QED BY <1>1, <1>2, WaitsIs

\* A task that stays in its call, where it looks from if it did before, and enters no list.
Steady(x) ==
    /\ call'[x] = call[x]
    /\ pc'[x] \in TryingLabel => pc[x] \in TryingLabel
    /\ eventList'[x] \in {eventList[x], "none", "pending"}

LEMMA SteadyStays ==
    ASSUME NEW x \in Task, Steady(x)
    PROVE  /\ WaiterOK(x) => WaiterOK(x)'
           /\ \A q \in Queue, op \in Op : x \in Lookers(q, op) => x \in Lookers(q, op)'
<1>1. ASSUME WaiterOK(x) PROVE WaiterOK(x)'
  <2>1. /\ call'[x] = call[x]
        /\ eventList'[x] \in ObjectLists => eventList'[x] = eventList[x]
        /\ pc'[x] \in TryingLabel => pc[x] \in TryingLabel
    BY QueueLabels DEF Steady
  <2>. QED BY <1>1, <2>1 DEF WaiterOK, ListFor
<1>2. ASSUME NEW q \in Queue, NEW op \in Op, x \in Lookers(q, op) PROVE x \in Lookers(q, op)'
  <2>1. ListFor(q, op) \notin {"none", "pending"}
    BY ListsApart
  <2>2. eventList[x] # ListFor(q, op)
    BY <1>2 DEF Lookers
  <2>3. eventList'[x] # ListFor(q, op)
    BY <2>1, <2>2 DEF Steady
  <2>. QED BY <1>2, <2>3 DEF Lookers, Steady, ListFor
<1>. QED BY <1>1, <1>2

\* A waiter that is woken looks at the queue: now somebody more does.
LEMMA Joins ==
    ASSUME QInv, NEW x \in Task, WaiterOK(x), NEW q \in Queue, NEW op \in Op,
           eventList[x] = ListFor(q, op), Steady(x), eventList'[x] # eventList[x]
    PROVE  x \notin Lookers(q, op) /\ x \in Lookers(q, op)'
<1>1. ListFor(q, op) \in ObjectLists /\ ListFor(q, op) \notin {"none", "pending"}
  BY ListsApart
<1>2. /\ call[x] # NoCall /\ ~call[x].expired
      /\ ListFor(q, op) = ListFor(call[x].q, call[x].op) /\ pc[x] \notin TryingLabel
  BY <1>1 DEF WaiterOK
<1>3. call[x].op = op /\ call[x].q = q
  BY <1>2, OpIs, ListsApart
<1>4. eventList'[x] # ListFor(q, op)
  OBVIOUS
<1>5. call'[x] = call[x] /\ pc'[x] \notin TryingLabel
  BY <1>2 DEF Steady
<1>6. x \in Lookers(q, op)'
  BY <1>2, <1>3, <1>4, <1>5 DEF Lookers, ListFor
<1>. QED BY <1>6 DEF Lookers

\* How a side stays all right: k more look, and there is at most k more to be had.
LEMMA EnoughBy ==
    ASSUME WaitersInv, WaitersInv', QueueTypes, QueueTypes', NEW q \in Queue, NEW op \in Op,
           Enough(q, op),
           \A x \in Task : eventList'[x] = ListFor(q, op) => eventList[x] = ListFor(q, op),
           NEW k \in Int, Cardinality(Lookers(q, op)) + k <= Cardinality(Lookers(q, op)'),
           Net(q, op)' <= Net(q, op) + k
    PROVE  Enough(q, op)'
<1>. DEFINE l == ListFor(q, op)
            A == Lookers(q, op)
            B == Lookers(q, op)'
<1>1. l \in ObjectLists
  BY ListsApart
<1>2. waiters'[l] # <<>> => waiters[l] # <<>>
  BY <1>1, StillWaits
<1>3. Cardinality(A) \in Nat /\ Cardinality(B) \in Nat
  <2>1. A \in SUBSET Task /\ B \in SUBSET Task
    BY DEF Lookers
  <2>. HIDE DEF A, B
  <2>. QED BY <2>1, Counts
<1>4. /\ Stock(q, op) \in Int /\ Counted(LockFor(q, op)) \in Int
      /\ Stock(q, op)' \in Int /\ Counted(LockFor(q, op))' \in Int
      /\ Net(q, op) = Stock(q, op) - Counted(LockFor(q, op))
      /\ Net(q, op)' = Stock(q, op)' - Counted(LockFor(q, op))'
  <2>1. Stock(q, op) \in Int /\ Counted(LockFor(q, op)) \in Int
    BY NetTypes
  <2>2. Stock(q, op)' \in Int /\ LockFor(q, op)' \in Int
    BY QueueAssumption DEF QueueTypes, Stock, Room, LockFor
  <2>3. Counted(LockFor(q, op))' \in Int
    BY <2>2 DEF Counted
  <2>. QED BY <2>1, <2>2, <2>3 DEF Net
<1>5. waiters[l] # <<>> => Stock(q, op) <= Cardinality(A) + Counted(LockFor(q, op))
  BY DEF Enough, SomebodyWaits
<1>6. ASSUME waiters'[l] # <<>>
      PROVE  Stock(q, op)' <= Cardinality(B) + Counted(LockFor(q, op))'
  <2>1. Stock(q, op) <= Cardinality(A) + Counted(LockFor(q, op))
    BY <1>2, <1>5, <1>6
  <2>. HIDE DEF A, B
  <2>2. Cardinality(A) + k <= Cardinality(B)
    BY DEF A, B
  <2>. QED BY <1>3, <1>4, <2>1, <2>2
<1>. QED BY <1>6 DEF Enough, SomebodyWaits, ListFor

\* Or there is no more than was counted.
LEMMA EnoughFew ==
    ASSUME QueueTypes', NEW q \in Queue, NEW op \in Op, Net(q, op)' <= 0
    PROVE  Enough(q, op)'
<1>. DEFINE B == Lookers(q, op)'
<1>1. Cardinality(B) \in Nat
  <2>1. B \in SUBSET Task
    BY DEF Lookers
  <2>. HIDE DEF B
  <2>. QED BY <2>1, Counts
<1>2. Stock(q, op)' \in Int /\ LockFor(q, op)' \in Int
  BY QueueAssumption DEF QueueTypes, Stock, Room, LockFor
<1>3. Counted(LockFor(q, op))' \in Int
  BY <1>2 DEF Counted
<1>4. Stock(q, op)' - Counted(LockFor(q, op))' <= 0
  BY DEF Net
<1>. HIDE DEF B
<1>5. Stock(q, op)' <= Cardinality(B) + Counted(LockFor(q, op))'
  BY <1>1, <1>2, <1>3, <1>4
<1>. QED BY <1>5 DEF Enough, B

\* The same tasks look, or more of them.
LEMMA EnoughStill ==
    ASSUME WaitersInv, WaitersInv', QueueTypes, QueueTypes', NEW q \in Queue, NEW op \in Op,
           Enough(q, op),
           \A x \in Task : eventList'[x] = ListFor(q, op) => eventList[x] = ListFor(q, op),
           \A x \in Task : x \in Lookers(q, op) => x \in Lookers(q, op)',
           Net(q, op)' <= Net(q, op)
    PROVE  Enough(q, op)'
<1>. DEFINE A == Lookers(q, op)
            B == Lookers(q, op)'
<1>1. A \in SUBSET Task /\ B \in SUBSET Task /\ A \subseteq B
  BY DEF Lookers
<1>2. Cardinality(A) <= Cardinality(B) /\ Cardinality(A) \in Nat
  <2>. HIDE DEF A, B
  <2>. QED BY <1>1, Counts
<1>3. Cardinality(A) + 0 <= Cardinality(B)
  <2>. HIDE DEF A, B
  <2>. QED BY <1>2
<1>4. Net(q, op)' <= Net(q, op) + 0
  BY NetTypes
<1>. QED BY <1>3, <1>4, EnoughBy

\* One task fewer looks, for one thing fewer; or another instead.
LEMMA EnoughLess ==
    ASSUME WaitersInv, WaitersInv', QueueTypes, QueueTypes', NEW q \in Queue, NEW op \in Op,
           Enough(q, op), NEW t \in Task,
           \A x \in Task : eventList'[x] = ListFor(q, op) => eventList[x] = ListFor(q, op),
           \A x \in Task \ {t} : x \in Lookers(q, op) => x \in Lookers(q, op)',
           \/ Net(q, op)' <= Net(q, op) - 1
           \/ /\ Net(q, op)' <= Net(q, op)
              /\ \E x \in Task \ {t} : x \notin Lookers(q, op) /\ x \in Lookers(q, op)'
    PROVE  Enough(q, op)'
<1>. DEFINE A == Lookers(q, op)
            B == Lookers(q, op)'
<1>1. A \in SUBSET Task /\ B \in SUBSET Task /\ A \ {t} \subseteq B
  BY DEF Lookers
<1>2. Net(q, op) \in Int
  BY NetTypes
<1>3. CASE Net(q, op)' <= Net(q, op) - 1
  <2>1. Cardinality(A) - 1 <= Cardinality(B) /\ Cardinality(A) \in Nat
    <3>. HIDE DEF A, B
    <3>. QED BY <1>1, Counts
  <2>2. Cardinality(A) + (0 - 1) <= Cardinality(B)
    <3>. HIDE DEF A, B
    <3>. QED BY <2>1
  <2>3. Net(q, op)' <= Net(q, op) + (0 - 1)
    BY <1>2, <1>3
  <2>. QED BY <2>2, <2>3, EnoughBy
<1>4. CASE /\ Net(q, op)' <= Net(q, op)
           /\ \E x \in Task \ {t} : x \notin Lookers(q, op) /\ x \in Lookers(q, op)'
  <2>1. PICK x \in Task \ {t} : x \notin A /\ x \in B
    BY <1>4
  <2>2. Cardinality(A) <= Cardinality(B) /\ Cardinality(A) \in Nat
    <3>1. (A \ {t}) \union {x} \subseteq B /\ x \notin A /\ x \in Task
      BY <1>1, <2>1
    <3>. HIDE DEF A, B
    <3>. QED BY <1>1, <3>1, Counts
  <2>3. Cardinality(A) + 0 <= Cardinality(B)
    <3>. HIDE DEF A, B
    <3>. QED BY <2>2
  <2>4. Net(q, op)' <= Net(q, op) + 0
    BY <1>2, <1>4
  <2>. QED BY <2>3, <2>4, EnoughBy
<1>. QED BY <1>3, <1>4

\* One task more, for one thing more.
LEMMA EnoughMore ==
    ASSUME WaitersInv, WaitersInv', QueueTypes, QueueTypes', NEW q \in Queue, NEW op \in Op,
           Enough(q, op),
           \A x \in Task : eventList'[x] = ListFor(q, op) => eventList[x] = ListFor(q, op),
           \A x \in Task : x \in Lookers(q, op) => x \in Lookers(q, op)',
           Net(q, op)' <= Net(q, op) + 1,
           \E x \in Task : x \notin Lookers(q, op) /\ x \in Lookers(q, op)'
    PROVE  Enough(q, op)'
<1>. DEFINE A == Lookers(q, op)
            B == Lookers(q, op)'
<1>1. A \in SUBSET Task /\ B \in SUBSET Task
  BY DEF Lookers
<1>2. PICK x \in Task : x \notin A /\ x \in B
  OBVIOUS
<1>3. Cardinality(A) + 1 <= Cardinality(B)
  <2>1. A \union {x} \subseteq B /\ x \notin A
    BY <1>1, <1>2
  <2>. HIDE DEF A, B
  <2>. QED BY <1>1, <2>1, Counts
<1>. QED BY <1>3, EnoughBy

\* A side that nobody waits for.
LEMMA EnoughNobody ==
    ASSUME WaitersInv, WaitersInv', NEW q \in Queue, NEW op \in Op,
           \A x \in Task : eventList'[x] # ListFor(q, op)
    PROVE  Enough(q, op)'
<1>1. ListFor(q, op) \in ObjectLists
  BY ListsApart
<1>2. waiters'[ListFor(q, op)] = <<>>
  BY <1>1, WaitsIs DEF WaitersInv
<1>. QED BY <1>2 DEF Enough, SomebodyWaits, ListFor

\* A step of the running task, or of an interrupt: what is left to show.
LEMMA WakeBy ==
    ASSUME QInv, QInv', WakeInv, NEW t \in Task, t = pxCurrentTCB,
           \A x \in Task \ {t} : Steady(x) /\ pc'[x] = pc[x],
           WaiterOK(t)', TestedOK(t)', LocksFit',
           \A q \in Queue, op \in Op : Reliable(q, op) /\ Enough(q, op) => Enough(q, op)'
    PROVE  WakeInv'
<1>1. ASSUME NEW x \in Task, x # t PROVE WaiterOK(x)' /\ TestedOK(x)'
  <2>1. WaiterOK(x)'
    BY <1>1, SteadyStays DEF WakeInv
  <2>2. ASSUME pc[x] \in {"check", "test", "inherit", "place"} PROVE FALSE
    <3>1. pc[x] \in QueueLabel /\ pc[x] \in LockedLabel
      BY <2>2 DEF QueueLabel, LockedLabel
    <3>. QED BY <1>1, <3>1, InLoop DEF CallOK
  <2>3. TestedOK(x)'
    BY <1>1, <2>2 DEF TestedOK
  <2>. QED BY <2>1, <2>3
<1>2. \A x \in Task : WaiterOK(x)' /\ TestedOK(x)'
  BY <1>1
<1>3. \A q \in Queue, op \in Op : Reliable(q, op) => Enough(q, op)'
  BY DEF WakeInv
<1>. QED BY <1>2, <1>3 DEF WakeInv, Reliable

\* Nothing came and nothing went; the running task still looks if it did, unless there is
\* nothing to be had.
LEMMA QuietWake ==
    ASSUME QInv, QInv', WakeInv, NEW t \in Task, t = pxCurrentTCB,
           \A x \in Task \ {t} : Steady(x) /\ pc'[x] = pc[x],
           WaiterOK(t)', TestedOK(t)', LocksFit',
           eventList'[t] \in {eventList[t], "none", "pending"},
           \A q \in Queue, op \in Op : Net(q, op)' = Net(q, op),
           \A q \in Queue, op \in Op :
               t \in Lookers(q, op) => t \in Lookers(q, op)' \/ Net(q, op) <= 0
    PROVE  WakeInv'
<1>1. ASSUME NEW q \in Queue, NEW op \in Op, Enough(q, op) PROVE Enough(q, op)'
  <2>1. Net(q, op) \in Int /\ Net(q, op)' = Net(q, op)
    BY NetTypes DEF QInv
  <2>2. CASE Net(q, op) <= 0
    BY <2>1, <2>2, EnoughFew DEF QInv
  <2>3. CASE ~(Net(q, op) <= 0)
    <3>1. \A x \in Task : x \in Lookers(q, op) => x \in Lookers(q, op)'
      BY <2>3, SteadyStays
    <3>2. ListFor(q, op) \notin {"none", "pending"}
      BY ListsApart
    <3>3. \A x \in Task : eventList'[x] = ListFor(q, op) => eventList[x] = ListFor(q, op)
      BY <3>2 DEF Steady
    <3>4. Net(q, op)' <= Net(q, op)
      BY <2>1
    <3>. QED BY <1>1, <3>1, <3>3, <3>4, EnoughStill DEF QInv
  <2>. QED BY <2>2, <2>3
<1>2. \A q \in Queue, op \in Op : Reliable(q, op) /\ Enough(q, op) => Enough(q, op)'
  BY <1>1
<1>. QED BY <1>2, WakeBy

\* A step of the loop that leaves the counts and the lists alone.
LEMMA QuietLoopWake ==
    ASSUME QInv, QInv', WakeInv, NEW t \in Task, t = pxCurrentTCB,
           UNCHANGED <<eventList, uxMessagesWaiting, lockVars>>,
           \A x \in Task \ {t} : call'[x] = call[x] /\ pc'[x] = pc[x],
           WaiterOK(t)', TestedOK(t)',
           \A q \in Queue, op \in Op :
               t \in Lookers(q, op) => t \in Lookers(q, op)' \/ Stock(q, op) <= 0
    PROVE  WakeInv'
<1>1. \A x \in Task \ {t} : Steady(x) /\ pc'[x] = pc[x]
  BY DEF Steady
<1>2. LocksFit'
  BY DEF WakeInv, LocksFit, lockVars
<1>3. ASSUME NEW q \in Queue, NEW op \in Op PROVE Net(q, op)' = Net(q, op)
  BY DEF Net, Stock, Room, LockFor, lockVars
<1>4. ASSUME NEW q \in Queue, NEW op \in Op, Stock(q, op) <= 0 PROVE Net(q, op) <= 0
  <2>1. Stock(q, op) \in Int /\ Counted(LockFor(q, op)) \in Int /\ Counted(LockFor(q, op)) >= 0
    BY NetTypes, CountedIs DEF QInv, WakeInv
  <2>. QED BY <1>4, <2>1 DEF Net
<1>5. \A q \in Queue, op \in Op :
          t \in Lookers(q, op) => t \in Lookers(q, op)' \/ Net(q, op) <= 0
  BY <1>4
<1>6. eventList'[t] \in {eventList[t], "none", "pending"}
  OBVIOUS
<1>. QED BY <1>1, <1>2, <1>3, <1>5, <1>6, QuietWake

\* A point of the loop where the running task does not look.
LEMMA TryingIs ==
    /\ "suspendAll" \in TryingLabel /\ "lockQueue" \in TryingLabel /\ "check" \in TryingLabel
    /\ "test" \in TryingLabel /\ "inherit" \in TryingLabel /\ "place" \in TryingLabel
    /\ "run" \notin TryingLabel /\ "unlockTx" \notin TryingLabel /\ "unlockRx" \notin TryingLabel
    /\ "resumeAll" \notin TryingLabel /\ "exit" \notin TryingLabel
    /\ TryingLabel \subseteq QueueLabel
  BY QueueLabels DEF TryingLabel, QueueLabel

LEMMA BeginWake ==
    ASSUME QInv, QInv', WakeInv, NEW t \in Task, NEW args, NEW n, Begin(t, args, n),
           args.op = "send" => /\ t \in SendingTasks
                               /\ args.position = "queueOVERWRITE" =>
                                      uxLength[args.q] = 1 /\ args.q \in Sized
    PROVE  WakeInv'
<1>1. /\ t = pxCurrentTCB /\ pc[t] = "run" /\ call[t] = NoCall
      /\ call' = [call EXCEPT ![t] = args]
      /\ UNCHANGED <<vars, dataVars, lockVars>>
  BY DEF Begin, Calls, At
<1>2. call'[t] = args /\ \A x \in Task \ {t} : call'[x] = call[x]
  BY <1>1 DEF QInv, QueueTypes
<1>3. UNCHANGED <<eventList, uxMessagesWaiting, lockVars, pc>>
  BY <1>1 DEF vars, listVars, controlVars, dataVars
<1>4. eventList[t] \notin ObjectLists
  BY <1>1, ReadyInCall
<1>5. WaiterOK(t)' /\ TestedOK(t)'
  <2>1. pc'[t] = "run" /\ eventList'[t] \notin ObjectLists
    BY <1>1, <1>3, <1>4
  <2>. QED BY <1>2, <2>1 DEF WaiterOK, TestedOK
<1>6. \A q \in Queue, op \in Op : t \notin Lookers(q, op)
  BY <1>1 DEF Lookers
<1>. QED BY <1>1, <1>2, <1>3, <1>5, <1>6, QuietLoopWake

LEMMA CallWake ==
    ASSUME QInv, QInv', WakeInv, NEW t \in Task, NEW q \in Queue,
           \/ \E item \in Item \union {"nothing"}, position \in CopyPositions, n \in SendWaits :
                  xQueueGenericSend(t, q, item, position, n)
           \/ \E mode \in ReceiveModes[t], n \in ReceiveWaits : xQueueGenericReceive(t, q, mode, n)
    PROVE  WakeInv'
<1>1. ASSUME NEW item, NEW position, NEW n, xQueueGenericSend(t, q, item, position, n)
      PROVE  WakeInv'
  <2>. DEFINE args == [op |-> "send", q |-> q, item |-> item, position |-> position, wait |-> n,
                       timed |-> FALSE, overflows |-> 0, entered |-> 0, expired |-> FALSE]
  <2>1. /\ Begin(t, args, n) /\ t \in SendingTasks
        /\ args.position = "queueOVERWRITE" => uxLength[args.q] = 1 /\ args.q \in Sized
    BY <1>1 DEF xQueueGenericSend
  <2>. HIDE DEF args
  <2>. QED BY <2>1, BeginWake
<1>2. ASSUME NEW mode, NEW n, xQueueGenericReceive(t, q, mode, n) PROVE WakeInv'
  <2>. DEFINE args == [op |-> "receive", q |-> q, mode |-> mode, wait |-> n,
                       timed |-> FALSE, overflows |-> 0, entered |-> 0, expired |-> FALSE]
  <2>1. Begin(t, args, n) /\ args.op # "send"
    BY <1>2 DEF xQueueGenericReceive
  <2>. HIDE DEF args
  <2>. QED BY <2>1, BeginWake
<1>. QED BY <1>1, <1>2

\* At the top of the loop there is nothing to be done.
LEMMA FailOrWaitWake ==
    ASSUME QInv, QInv', WakeInv, NEW t \in Task, At(t, "run"), call[t] # NoCall, FailOrWait(t),
           Stock(call[t].q, call[t].op) <= 0
    PROVE  WakeInv'
<1>1. /\ t = pxCurrentTCB /\ pc[t] = "run"
      /\ UNCHANGED <<listVars, dataVars, lockVars>>
  BY DEF At, FailOrWait
<1>2. /\ call \in [Task -> CallType] /\ call[t] \in CallType /\ pc \in [Task -> Label]
      /\ eventList[t] \notin ObjectLists
  BY <1>1, ItsCall, ReadyInCall
<1>3. UNCHANGED <<eventList, uxMessagesWaiting, lockVars>>
  BY <1>1 DEF listVars, dataVars
<1>4. /\ \A x \in Task \ {t} : call'[x] = call[x] /\ pc'[x] = pc[x]
      /\ pc'[t] \in {"run", "suspendAll"}
      /\ call'[t].op = "send" =>
             call[t].op = "send" /\ call'[t].q = call[t].q /\ call'[t].position = call[t].position
  <2>1. CASE Return(t) /\ UNCHANGED pc
    BY <1>1, <1>2, <2>1 DEF Return, NoCall
  <2>2. CASE /\ call' = [call EXCEPT ![t] =
                    IF @.timed THEN @
                    ELSE [@ EXCEPT !.timed = TRUE, !.overflows = xNumOfOverflows,
                                   !.entered = xTickCount]]
             /\ Goto(t, "suspendAll")
    <3>. DEFINE c == IF call[t].timed THEN call[t]
                     ELSE [call[t] EXCEPT !.timed = TRUE, !.overflows = xNumOfOverflows,
                                          !.entered = xTickCount]
    <3>1. /\ c.op = "send" =>
                 call[t].op = "send" /\ c.q = call[t].q /\ c.position = call[t].position
      <4>1. CASE call[t] \in SendCall
        BY <4>1 DEF SendCall
      <4>2. CASE call[t] \in ReceiveCall
        BY <4>2 DEF ReceiveCall
      <4>. QED BY <1>2, <4>1, <4>2 DEF CallType
    <3>2. call' = [call EXCEPT ![t] = c]
      BY <2>2
    <3>. HIDE DEF c
    <3>. QED BY <1>1, <1>2, <2>2, <3>1, <3>2 DEF Goto
  <2>. QED BY <2>1, <2>2 DEF FailOrWait
<1>5. WaiterOK(t)' /\ TestedOK(t)'
  <2>1. eventList'[t] \notin ObjectLists /\ WaiterOK(t)
    BY <1>2, <1>3 DEF WakeInv
  <2>. QED BY <1>4, <2>1 DEF WaiterOK, TestedOK
<1>6. \A q \in Queue, op \in Op : t \in Lookers(q, op) => Stock(q, op) <= 0
  BY DEF Lookers
<1>. QED BY <1>1, <1>3, <1>4, <1>5, <1>6, QuietLoopWake

LEMMA FailWake ==
    ASSUME QInv, QInv', WakeInv, NEW t \in Task, SendFailsOrWaits(t) \/ ReceiveFailsOrWaits(t)
    PROVE  WakeInv'
<1>1. /\ At(t, "run") /\ call[t] # NoCall /\ FailOrWait(t)
  BY DEF SendFailsOrWaits, ReceiveFailsOrWaits, InCall, NoCall
<1>2. Stock(call[t].q, call[t].op) <= 0
  <2>1. call[t].q \in Queue /\ WaiterOK(t)
    BY <1>1, ItsCall DEF WakeInv
  <2>2. CASE SendFailsOrWaits(t)
    <3>1. call[t].op = "send" /\ ~MayCopy(call[t].q, call[t].position)
      BY <2>2 DEF SendFailsOrWaits, InCall
    <3>2. ~(uxMessagesWaiting[call[t].q] < uxLength[call[t].q])
      BY <2>1, <3>1 DEF WaiterOK, MayCopy
    <3>3. uxMessagesWaiting[call[t].q] \in Nat /\ uxLength[call[t].q] \in Nat
      BY <2>1, QueueAssumption DEF QInv, QueueTypes
    <3>. QED BY <3>1, <3>2, <3>3 DEF Stock, Room
  <2>3. CASE ReceiveFailsOrWaits(t)
    BY <2>3 DEF ReceiveFailsOrWaits, InCall, Stock
  <2>. QED BY <2>2, <2>3
<1>. QED BY <1>1, <1>2, FailOrWaitWake

LEMMA ReturnExpiredWake ==
    ASSUME QInv, QInv', WakeInv, NEW t \in Task, ReturnExpired(t)
    PROVE  WakeInv'
<1>1. /\ t = pxCurrentTCB /\ pc[t] = "run" /\ call[t] # NoCall /\ call[t].expired
      /\ UNCHANGED <<eventList, uxMessagesWaiting, lockVars, pc>>
  BY DEF ReturnExpired, At, listVars, dataVars, controlVars
<1>2. /\ call \in [Task -> CallType] /\ call[t] \in CallType /\ eventList[t] \notin ObjectLists
      /\ call[t].op \in {"send", "receive"} /\ call[t].q \in Queue
  BY <1>1, ItsCall, ReadyInCall
<1>3. CASE /\ call[t].op = "receive" /\ uxMessagesWaiting[call[t].q] > 0
           /\ call' = [call EXCEPT ![t].expired = FALSE]
  <2>1. /\ call'[t] # NoCall /\ call'[t].op = "receive" /\ call'[t].q = call[t].q
        /\ \A x \in Task \ {t} : call'[x] = call[x]
    <3>. DEFINE c == [call[t] EXCEPT !.expired = FALSE]
    <3>1. call' = [call EXCEPT ![t] = c]
      BY <1>3
    <3>2. c # NoCall /\ c.op = "receive" /\ c.q = call[t].q
      BY <1>2, <1>3, CallTypes DEF ReceiveCall, NoCall
    <3>. HIDE DEF c
    <3>. QED BY <1>2, <3>1, <3>2
  <2>2. WaiterOK(t)' /\ TestedOK(t)'
    <3>1. eventList'[t] \notin ObjectLists /\ pc'[t] = "run" /\ call'[t].op # "send"
      BY <1>1, <1>2, <2>1
    <3>. QED BY <3>1 DEF WaiterOK, TestedOK
  <2>3. ASSUME NEW q \in Queue, NEW op \in Op, t \in Lookers(q, op)
        PROVE  t \in Lookers(q, op)'
    <3>1. /\ call[t].op = op /\ call[t].q = q /\ eventList[t] # ListFor(q, op)
          /\ pc[t] \notin TryingLabel
      BY <2>3 DEF Lookers
    <3>. QED BY <1>1, <1>3, <2>1, <3>1 DEF Lookers, ListFor
  <2>. QED BY <1>1, <2>1, <2>2, <2>3, QuietLoopWake
<1>4. CASE Return(t) /\ ~(call[t].op = "receive" /\ uxMessagesWaiting[call[t].q] > 0)
  <2>1. call'[t] = NoCall /\ \A x \in Task \ {t} : call'[x] = call[x]
    BY <1>2, <1>4 DEF Return
  <2>2. WaiterOK(t)' /\ TestedOK(t)'
    <3>1. eventList'[t] \notin ObjectLists /\ pc'[t] = "run" /\ call'[t].op # "send"
      BY <1>1, <1>2, <2>1 DEF NoCall
    <3>. QED BY <3>1 DEF WaiterOK, TestedOK
  <2>3. ASSUME NEW q \in Queue, NEW op \in Op, t \in Lookers(q, op)
        PROVE  Stock(q, op) <= 0
    <3>1. op = "receive" /\ call[t].op = op /\ call[t].q = q
      BY <1>1, <2>3 DEF Lookers
    <3>2. uxMessagesWaiting[q] \in Nat
      BY DEF QInv, QueueTypes
    <3>. QED BY <1>4, <3>1, <3>2 DEF Stock
  <2>. QED BY <1>1, <2>1, <2>2, <2>3, QuietLoopWake
<1>. QED BY <1>3, <1>4 DEF ReturnExpired

\* On the way to its event list a task does not look.
LEMMA TryingWake ==
    ASSUME QInv, QInv', WakeInv, NEW t \in Task, t = pxCurrentTCB, pc[t] \in TryingLabel,
           NEW label, Goto(t, label),
           UNCHANGED <<eventList, uxMessagesWaiting, lockVars>>,
           \A x \in Task \ {t} : call'[x] = call[x],
           call'[t].op = call[t].op, call'[t].q = call[t].q,
           call[t].op = "send" => call'[t].position = call[t].position,
           TestedOK(t)'
    PROVE  WakeInv'
<1>1. pc \in [Task -> Label] /\ eventList[t] \notin ObjectLists /\ WaiterOK(t)
  BY ListTypes, ReadyInCall DEF QInv, WakeInv
<1>2. \A x \in Task \ {t} : pc'[x] = pc[x]
  BY <1>1 DEF Goto
<1>3. WaiterOK(t)'
  BY <1>1 DEF WaiterOK
<1>4. \A q \in Queue, op \in Op : t \notin Lookers(q, op)
  BY DEF Lookers
<1>. QED BY <1>2, <1>3, <1>4, QuietLoopWake

LEMMA TestedBy ==
    ASSUME NEW t \in Task, UNCHANGED <<uxMessagesWaiting, lockVars, call>>,
           pc'[t] \in {"unlockTx", "inherit", "place"},
           cTxLock[call[t].q] >= 0 /\ cRxLock[call[t].q] >= 0,
           pc'[t] # "unlockTx" =>
               Stock(call[t].q, call[t].op) <= Counted(LockFor(call[t].q, call[t].op))
    PROVE  TestedOK(t)'
  BY DEF TestedOK, Stock, Room, LockFor, lockVars

LEMMA SuspendAllWake ==
    ASSUME QInv, QInv', WakeInv, NEW t \in Task, SuspendAllToWait(t)
    PROVE  WakeInv'
<1>1. /\ t = pxCurrentTCB /\ pc[t] = "suspendAll" /\ Goto(t, "lockQueue")
      /\ UNCHANGED <<eventList, uxMessagesWaiting, lockVars, call>> /\ pc \in [Task -> Label]
  BY ListTypes DEF SuspendAllToWait, At, listVars, queueVars, dataVars, QInv
<1>2. TestedOK(t)'
  <2>1. pc'[t] = "lockQueue"
    BY <1>1 DEF Goto
  <2>. QED BY <2>1 DEF TestedOK
<1>. QED BY <1>1, <1>2, TryingIs, TryingWake

LEMMA CheckWake ==
    ASSUME QInv, QInv', WakeInv, NEW t \in Task, CheckForTimeOut(t)
    PROVE  WakeInv'
<1>. DEFINE c == xTaskCheckForTimeOut(t)
            label == IF c.expired THEN "unlockTx" ELSE "test"
<1>1. pc[t] = "check" /\ t = pxCurrentTCB /\ pc[t] \in QueueLabel
  BY TryingIs DEF CheckForTimeOut, At
<1>2. /\ call[t] # NoCall /\ call[t].timed /\ call[t].wait > 0 /\ call[t] \in CallType
      /\ call \in [Task -> CallType] /\ pc \in [Task -> Label]
  BY <1>1, InLoop, ItsCall
<1>3. /\ c.op = call[t].op /\ c.q = call[t].q
      /\ call[t].op = "send" => c.position = call[t].position
  <2>1. c.op = call[t].op /\ c.q = call[t].q
    BY <1>2, CheckTypes
  <2>2. ASSUME call[t].op = "send" PROVE c.position = call[t].position
    <3>1. call[t] \in SendCall
      BY <1>2, <2>2, CallTypes
    <3>. QED BY <3>1 DEF SendCall, xTaskCheckForTimeOut
  <2>. QED BY <2>1, <2>2
<1>. HIDE DEF c
<1>4. call'[t] = c /\ \A x \in Task \ {t} : call'[x] = call[x]
  BY <1>2 DEF CheckForTimeOut, c
<1>5. Goto(t, label) /\ pc'[t] = label
  BY <1>2, <1>4 DEF CheckForTimeOut, Goto
<1>6. UNCHANGED <<eventList, uxMessagesWaiting, lockVars>>
  BY DEF CheckForTimeOut, listVars, dataVars
<1>7. TestedOK(t)'
  <2>1. pc'[t] \in {"unlockTx", "test"}
    BY <1>5
  <2>2. cTxLock[call[t].q] >= 0 /\ cRxLock[call[t].q] >= 0
    BY <1>1 DEF WakeInv, TestedOK
  <2>. QED BY <1>3, <1>4, <1>6, <2>1, <2>2 DEF TestedOK, lockVars
<1>8. call'[t].op = call[t].op /\ call'[t].q = call[t].q
      /\ (call[t].op = "send" => call'[t].position = call[t].position)
  BY <1>3, <1>4
<1>. HIDE DEF label
<1>. QED BY <1>1, <1>4, <1>5, <1>6, <1>7, <1>8, TryingIs, TryingWake

LEMMA TestWake ==
    ASSUME QInv, QInv', WakeInv, NEW t \in Task, TestQueue(t)
    PROVE  WakeInv'
<1>. DEFINE q == call[t].q
            blocks == IF call[t].op = "send" THEN Room(q) = 0 ELSE uxMessagesWaiting[q] = 0
            label == IF ~blocks THEN "unlockTx" ELSE IF q \in Mutex THEN "inherit" ELSE "place"
<1>1. /\ pc[t] = "test" /\ t = pxCurrentTCB /\ pc[t] \in QueueLabel /\ Goto(t, label)
      /\ UNCHANGED <<listVars, queueVars>>
  BY TryingIs DEF TestQueue, At
<1>2. call[t] # NoCall /\ q \in Queue /\ call[t].op \in Op /\ pc \in [Task -> Label]
  BY <1>1, InLoop, ItsCall, OpIs
<1>3. UNCHANGED <<eventList, uxMessagesWaiting, lockVars, call>>
  BY <1>1 DEF listVars, queueVars, dataVars
<1>4. pc'[t] = label
  BY <1>1, <1>2 DEF Goto
<1>5. TestedOK(t)'
  <2>1. cTxLock[q] >= 0 /\ cRxLock[q] >= 0
    BY <1>1 DEF WakeInv, TestedOK
  <2>2. pc'[t] # "unlockTx" => Stock(q, call[t].op) = 0
    BY <1>2, <1>4 DEF Stock
  <2>3. Counted(LockFor(q, call[t].op)) >= 0 /\ Counted(LockFor(q, call[t].op)) \in Int
    BY <1>2, CountedIs, NetTypes DEF WakeInv, QInv
  <2>4. pc'[t] # "unlockTx" => Stock(q, call[t].op) <= Counted(LockFor(q, call[t].op))
    BY <2>2, <2>3
  <2>5. pc'[t] \in {"unlockTx", "inherit", "place"}
    BY <1>4
  <2>. HIDE DEF label
  <2>. QED BY <1>3, <2>1, <2>4, <2>5, TestedBy
<1>. HIDE DEF label
<1>. QED BY <1>1, <1>3, <1>5, TryingIs, TryingWake

LEMMA InheritWake ==
    ASSUME QInv, QInv', WakeInv, NEW t \in Task, vTaskPriorityInherit(t)
    PROVE  WakeInv'
<1>1. /\ pc[t] = "inherit" /\ t = pxCurrentTCB /\ Goto(t, "place") /\ pc \in [Task -> Label]
      /\ UNCHANGED <<eventList, uxMessagesWaiting, lockVars, call>>
  BY ListTypes DEF vTaskPriorityInherit, At, listVars, dataVars, QInv
<1>2. TestedOK(t)'
  <2>1. pc'[t] = "place" /\ TestedOK(t)
    BY <1>1 DEF Goto, WakeInv
  <2>. QED BY <1>1, <2>1 DEF TestedOK, Stock, Room, LockFor, lockVars
<1>. QED BY <1>1, <1>2, TryingIs, TryingWake

LEMMA LockQueueWake ==
    ASSUME QInv, QInv', WakeInv, NEW t \in Task, prvLockQueue(t)
    PROVE  WakeInv'
<1>. DEFINE r == call[t].q
<1>1. /\ pc[t] = "lockQueue" /\ t = pxCurrentTCB /\ Goto(t, "check") /\ pc[t] \in QueueLabel
      /\ UNCHANGED <<eventList, uxMessagesWaiting, call>>
      /\ cRxLock' = [cRxLock EXCEPT ![r] = Locked(cRxLock[r])]
      /\ cTxLock' = [cTxLock EXCEPT ![r] = Locked(cTxLock[r])]
  BY TryingIs DEF prvLockQueue, At, listVars, dataVars
<1>2. /\ pc \in [Task -> Label] /\ eventList[t] \notin ObjectLists /\ WaiterOK(t)
      /\ r \in Queue
  BY <1>1, TryingIs, ReadyInCall, InLoop, ItsCall DEF WakeInv
<1>3. pc'[t] = "check" /\ \A x \in Task \ {t} : pc'[x] = pc[x]
  BY <1>1, <1>2 DEF Goto
<1>. HIDE DEF r
<1>4. ASSUME NEW q \in Queue
      PROVE  /\ cRxLock[q] \in queueUNLOCKED .. MaxLock /\ cTxLock[q] \in queueUNLOCKED .. MaxLock
             /\ cRxLock'[q] = IF q = r THEN Locked(cRxLock[q]) ELSE cRxLock[q]
             /\ cTxLock'[q] = IF q = r THEN Locked(cTxLock[q]) ELSE cTxLock[q]
  BY <1>1 DEF WakeInv, LocksFit, QInv, QueueTypes
<1>5. ASSUME NEW n \in queueUNLOCKED .. MaxLock
      PROVE  Locked(n) \in 0 .. MaxLock /\ Counted(Locked(n)) = Counted(n)
  BY <1>5, QueueAssumption DEF Locked, Counted, queueUNLOCKED
<1>6. LocksFit'
  <2>1. 0 .. MaxLock \subseteq queueUNLOCKED .. MaxLock
    BY QueueAssumption DEF queueUNLOCKED
  <2>. QED BY <1>4, <1>5, <2>1 DEF LocksFit
<1>7. ASSUME NEW q \in Queue, NEW op \in Op PROVE Net(q, op)' = Net(q, op)
  <2>1. Counted(cRxLock'[q]) = Counted(cRxLock[q]) /\ Counted(cTxLock'[q]) = Counted(cTxLock[q])
    BY <1>4, <1>5
  <2>. QED BY <1>1, <2>1 DEF Net, Stock, Room, LockFor
<1>8. WaiterOK(t)'
  BY <1>1, <1>2 DEF WaiterOK
<1>9. TestedOK(t)'
  <2>1. cTxLock'[r] >= 0 /\ cRxLock'[r] >= 0
    BY <1>2, <1>4, <1>5
  <2>. QED BY <1>1, <1>3, <2>1 DEF TestedOK, r
<1>10. \A x \in Task \ {t} : Steady(x) /\ pc'[x] = pc[x]
  BY <1>1, <1>3 DEF Steady
<1>11. \A q \in Queue, op \in Op : t \notin Lookers(q, op)
  BY <1>1, TryingIs DEF Lookers
<1>12. eventList'[t] \in {eventList[t], "none", "pending"}
  BY <1>1
<1>. QED BY <1>1, <1>6, <1>7, <1>8, <1>9, <1>10, <1>11, <1>12, QuietWake

\* Who goes to wait has found nothing, and nothing has come since that was not counted.
LEMMA PlaceWake ==
    ASSUME QInv, QInv', WakeInv, NEW t \in Task, vTaskPlaceOnEventList(t)
    PROVE  WakeInv'
<1>. DEFINE r == call[t].q
            o == call[t].op
<1>1. /\ pc[t] = "place" /\ t = pxCurrentTCB /\ Goto(t, "unlockTx") /\ pc[t] \in QueueLabel
      /\ UNCHANGED <<uxMessagesWaiting, lockVars, call>>
      /\ eventList' = [eventList EXCEPT ![t] = ListFor(r, o)]
  BY TryingIs DEF vTaskPlaceOnEventList, At, dataVars, ListOf, ListFor
<1>2. /\ pc \in [Task -> Label] /\ eventList \in [Task -> EventList] /\ WaiterOK(t) /\ TestedOK(t)
      /\ call[t] # NoCall /\ CallOK(t) /\ r \in Queue /\ o \in Op
  BY <1>1, ListTypes, InLoop, OpIs DEF WakeInv, QInv
<1>3. /\ pc'[t] = "unlockTx" /\ \A x \in Task \ {t} : pc'[x] = pc[x] /\ eventList'[x] = eventList[x]
      /\ eventList'[t] = ListFor(r, o)
  BY <1>1, <1>2 DEF Goto
<1>4. Stock(r, o) <= Counted(LockFor(r, o)) /\ ~call[t].expired
  BY <1>1, <1>2, TryingIs DEF TestedOK, CallOK
<1>5. WaiterOK(t)' /\ TestedOK(t)'
  <2>1. eventList'[t] = ListFor(call'[t].q, call'[t].op) /\ pc'[t] \notin TryingLabel
    BY <1>1, <1>3, TryingIs
  <2>. QED BY <1>1, <1>2, <1>3, <1>4, <2>1 DEF WaiterOK, TestedOK, ListFor
<1>. HIDE DEF r, o
<1>6. LocksFit'
  BY <1>1 DEF WakeInv, LocksFit, lockVars
<1>7. \A x \in Task \ {t} : Steady(x) /\ pc'[x] = pc[x]
  BY <1>1, <1>3 DEF Steady
<1>8. ASSUME NEW q \in Queue, NEW op \in Op, Enough(q, op) PROVE Enough(q, op)'
  <2>1. Net(q, op)' = Net(q, op) /\ Net(q, op) \in Int
    <3>1. Net(q, op)' = Net(q, op)
      BY <1>1 DEF Net, Stock, Room, LockFor, lockVars
    <3>. QED BY <3>1, NetTypes DEF QInv
  <2>2. CASE q = r /\ op = o
    <3>1. Net(r, o) <= 0
      <4>1. Stock(r, o) \in Int /\ Counted(LockFor(r, o)) \in Int
        BY <1>2, NetTypes DEF QInv
      <4>. QED BY <1>4, <4>1 DEF Net
    <3>2. Net(q, op)' <= 0
      BY <2>1, <2>2, <3>1
    <3>. QED BY <3>2, EnoughFew DEF QInv
  <2>3. CASE ~(q = r /\ op = o)
    <3>1. ListFor(q, op) # ListFor(r, o)
      BY <1>2, <2>3, ListsApart
    <3>2. \A x \in Task : eventList'[x] = ListFor(q, op) => eventList[x] = ListFor(q, op)
      BY <1>3, <3>1
    <3>3. t \notin Lookers(q, op)
      BY <1>1, TryingIs DEF Lookers
    <3>4. \A x \in Task : x \in Lookers(q, op) => x \in Lookers(q, op)'
      BY <1>7, <3>3, SteadyStays
    <3>5. Net(q, op)' <= Net(q, op)
      BY <2>1
    <3>. QED BY <1>8, <3>2, <3>4, <3>5, EnoughStill DEF QInv
  <2>. QED BY <2>2, <2>3
<1>9. \A q \in Queue, op \in Op : Reliable(q, op) /\ Enough(q, op) => Enough(q, op)'
  BY <1>8
<1>. QED BY <1>1, <1>5, <1>6, <1>7, <1>9, WakeBy

\* Who is woken was in the list; if nobody is, nobody was.
LEMMA WakeOneIs ==
    ASSUME WaitersInv, NEW l \in ObjectLists, WakeOne(l)
    PROVE  /\ \A x \in Task : /\ eventList'[x] \in {eventList[x], "none", "pending"}
                              /\ eventList'[x] # eventList[x] => eventList[x] = l
           /\ SomebodyWaits(l) => First(l) \in Task /\ eventList[First(l)] = l
                                  /\ eventList'[First(l)] \in {"none", "pending"}
           /\ ~SomebodyWaits(l) => /\ \A x \in Task : eventList[x] # l
                                   /\ UNCHANGED eventList
<1>1. CASE SomebodyWaits(l)
  <2>. DEFINE woken == {waiters[l][i] : i \in 1 .. 1}
  <2>1. First(l) \in Task /\ eventList[First(l)] = l /\ First(l) = waiters[l][1]
    BY <1>1, FirstIs
  <2>2. woken = {First(l)}
    BY <2>1
  <2>3. \/ eventList' = [t \in Task |-> IF t \in woken THEN "none" ELSE eventList[t]]
        \/ eventList' = [t \in Task |-> IF t \in woken THEN "pending" ELSE eventList[t]]
    BY <1>1 DEF WakeOne, WakeFirst
  <2>. HIDE DEF woken
  <2>. QED BY <1>1, <2>1, <2>2, <2>3
<1>2. CASE ~SomebodyWaits(l)
  <2>1. waiters[l] \in Seq(Task) /\ \A x \in Task : InList(waiters[l], x) <=> eventList[x] = l
    BY DEF WaitersInv
  <2>2. \A x \in Task : eventList[x] # l
    BY <1>2, <2>1, WaitsIs DEF SomebodyWaits
  <2>. QED BY <1>2, <2>2 DEF WakeOne
<1>. QED BY <1>1, <1>2

\* One more is there, and one who waits for it is woken.
LEMMA WokenSide ==
    ASSUME QInv, QInv', WakeInv, NEW q \in Queue, NEW op \in Op, Enough(q, op),
           WakeOne(ListFor(q, op)),
           \A x \in Task : eventList[x] \in ObjectLists \/ x \in Lookers(q, op) => Steady(x),
           Net(q, op)' <= Net(q, op) + 1
    PROVE  Enough(q, op)'
<1>. DEFINE l == ListFor(q, op)
<1>1. l \in ObjectLists /\ l \notin {"none", "pending"} /\ WaitersInv /\ WaitersInv'
      /\ QueueTypes /\ QueueTypes'
  BY ListsApart DEF QInv
<1>2. \A x \in Task : eventList'[x] = l => eventList[x] = l
  BY <1>1, WakeOneIs
<1>3. CASE SomebodyWaits(l)
  <2>1. PICK x \in Task : eventList[x] = l /\ eventList'[x] \in {"none", "pending"}
    BY <1>1, <1>3, WakeOneIs
  <2>2. Steady(x) /\ WaiterOK(x) /\ eventList'[x] # eventList[x]
    BY <1>1, <2>1 DEF WakeInv
  <2>3. x \notin Lookers(q, op) /\ x \in Lookers(q, op)'
    BY <2>1, <2>2, Joins
  <2>4. \A y \in Task : y \in Lookers(q, op) => y \in Lookers(q, op)'
    BY SteadyStays
  <2>. QED BY <1>1, <1>2, <2>3, <2>4, EnoughMore
<1>4. CASE ~SomebodyWaits(l)
  <2>1. \A x \in Task : eventList[x] # l
    BY <1>1, <1>4, WakeOneIs
  <2>. QED BY <1>1, <1>2, <2>1, EnoughNobody
<1>. QED BY <1>3, <1>4

\* A side that the step does not touch.
LEMMA OtherSide ==
    ASSUME QInv, QInv', NEW q \in Queue, NEW op \in Op, Enough(q, op),
           NEW l \in ObjectLists, WakeOne(l),
           \A x \in Task : x \in Lookers(q, op) => Steady(x),
           Net(q, op)' <= Net(q, op)
    PROVE  Enough(q, op)'
<1>1. ListFor(q, op) \notin {"none", "pending"} /\ WaitersInv /\ WaitersInv'
      /\ QueueTypes /\ QueueTypes'
  BY ListsApart DEF QInv
<1>2. \A x \in Task : eventList'[x] = ListFor(q, op) => eventList[x] = ListFor(q, op)
  BY <1>1, WakeOneIs
<1>3. \A x \in Task : x \in Lookers(q, op) => x \in Lookers(q, op)'
  BY SteadyStays
<1>. QED BY <1>1, <1>2, <1>3, EnoughStill

\* The side that the running task takes one from, as it returns.
LEMMA TakenSide ==
    ASSUME QInv, QInv', NEW q \in Queue, NEW op \in Op, Enough(q, op), NEW t \in Task,
           NEW l \in ObjectLists, WakeOne(l),
           \A x \in Task \ {t} : Steady(x),
           Net(q, op)' <= Net(q, op) - 1 \/ Net(q, op)' <= 0
    PROVE  Enough(q, op)'
<1>1. ListFor(q, op) \notin {"none", "pending"} /\ WaitersInv /\ WaitersInv'
      /\ QueueTypes /\ QueueTypes'
  BY ListsApart DEF QInv
<1>2. \A x \in Task : eventList'[x] = ListFor(q, op) => eventList[x] = ListFor(q, op)
  BY <1>1, WakeOneIs
<1>3. \A x \in Task \ {t} : x \in Lookers(q, op) => x \in Lookers(q, op)'
  BY SteadyStays
<1>4. CASE Net(q, op)' <= 0
  BY <1>1, <1>4, EnoughFew
<1>5. CASE Net(q, op)' <= Net(q, op) - 1
  BY <1>1, <1>2, <1>3, <1>5, EnoughLess
<1>. QED BY <1>4, <1>5

\* What prvCopyDataToQueue does to the count.
LEMMA CountIs ==
    ASSUME QueueTypes, NEW q \in Queue, NEW position, MayCopy(q, position),
           CountOneMore(q, position)
    PROVE  /\ \A r \in Queue \ {q} : uxMessagesWaiting'[r] = uxMessagesWaiting[r]
           /\ \/ uxMessagesWaiting'[q] = uxMessagesWaiting[q] + 1
              \/ uxMessagesWaiting'[q] = uxMessagesWaiting[q] /\ Room(q) <= 0
<1>1. uxMessagesWaiting \in [Queue -> Nat] /\ uxLength[q] \in Nat
  BY QueueAssumption DEF QueueTypes
<1>2. CASE q \in Sized /\ position = "queueOVERWRITE" /\ uxMessagesWaiting[q] > 0
  <2>1. uxMessagesWaiting' = uxMessagesWaiting /\ uxLength[q] = 1
    BY <1>2 DEF CountOneMore, MayCopy
  <2>. QED BY <1>1, <1>2, <2>1 DEF Room
<1>3. CASE ~(q \in Sized /\ position = "queueOVERWRITE" /\ uxMessagesWaiting[q] > 0)
  <2>1. uxMessagesWaiting' = [uxMessagesWaiting EXCEPT ![q] = @ + 1]
    BY <1>3 DEF CountOneMore
  <2>. QED BY <1>1, <2>1
<1>. QED BY <1>2, <1>3

\* The end of a call: the running task is at the top of its loop.
LEMMA ReturnFrame ==
    ASSUME QInv, NEW t \in Task, t = pxCurrentTCB, pc[t] = "run", Return(t) \/ UNCHANGED call,
           call[t] = NoCall => UNCHANGED call,
           NEW yields, NEW top, YieldThenExit(t, yields, "run", top),
           NEW l \in ObjectLists, WakeOne(l)
    PROVE  /\ \A x \in Task \ {t} : Steady(x) /\ pc'[x] = pc[x]
           /\ \A x \in Task : eventList[x] \in ObjectLists => Steady(x)
           /\ Return(t) \/ call[t] = NoCall => WaiterOK(t)' /\ TestedOK(t)'
<1>1. /\ pc \in [Task -> Label] /\ call \in [Task -> CallType]
      /\ eventList[t] \notin ObjectLists /\ WaitersInv
  BY ListTypes, ReadyInCall DEF QInv, QueueTypes
<1>2. pc'[t] \in {"run", "exit"} /\ \A x \in Task \ {t} : pc'[x] = pc[x]
  BY <1>1 DEF YieldThenExit, Goto
<1>3. \A x \in Task \ {t} : call'[x] = call[x]
  BY <1>1 DEF Return
<1>4. \A x \in Task : eventList'[x] \in {eventList[x], "none", "pending"}
  BY <1>1, WakeOneIs
<1>5. \A x \in Task \ {t} : Steady(x) /\ pc'[x] = pc[x]
  BY <1>2, <1>3, <1>4 DEF Steady
<1>6. ASSUME Return(t) \/ call[t] = NoCall PROVE WaiterOK(t)' /\ TestedOK(t)'
  <2>1. call'[t] = NoCall
    BY <1>1, <1>6 DEF Return
  <2>2. eventList'[t] \notin ObjectLists
    BY <1>1, <1>4, QueueLabels
  <2>. QED BY <1>2, <2>1, <2>2 DEF WaiterOK, TestedOK, NoCall
<1>. QED BY <1>1, <1>5, <1>6

LEMMA SendWake ==
    ASSUME QInv, QInv', WakeInv, NEW t \in Task, SendItem(t)
    PROVE  WakeInv'
<1>. DEFINE r == call[t].q
            l == xTasksWaitingToReceive[r]
            yields == YieldsForSend(t, r)
            top == TopWithFirst(l, IF Disinherits(t, r) THEN {t} ELSE {}, uxPriority')
<1>1. /\ t = pxCurrentTCB /\ pc[t] = "run" /\ call[t] # NoCall /\ call[t].op = "send"
      /\ MayCopy(r, call[t].position) /\ CountOneMore(r, call[t].position)
      /\ WakeOne(l) /\ Return(t) /\ UNCHANGED lockVars
  BY DEF SendItem, InCall, At, NoCall
<1>2. YieldThenExit(t, yields, "run", top)
  BY DEF SendItem
<1>. HIDE DEF yields, top
<1>3. r \in Queue /\ l = ListFor(r, "receive")
  BY <1>1, ItsCall DEF ListFor
<1>4. l \in ObjectLists /\ {"send", "receive"} = Op
  BY <1>3, QueueAssumption DEF Op
<1>5. /\ \A x \in Task \ {t} : Steady(x) /\ pc'[x] = pc[x]
      /\ \A x \in Task : eventList[x] \in ObjectLists => Steady(x)
      /\ WaiterOK(t)' /\ TestedOK(t)'
  <2>. HIDE DEF r, l
  <2>. QED BY <1>1, <1>2, <1>4, ReturnFrame
<1>6. \A q \in Queue, op \in Op : t \in Lookers(q, op) => q = r /\ op = "send"
  BY <1>1 DEF Lookers
<1>7. /\ \A q \in Queue \ {r} : uxMessagesWaiting'[q] = uxMessagesWaiting[q]
      /\ \/ uxMessagesWaiting'[r] = uxMessagesWaiting[r] + 1
         \/ uxMessagesWaiting'[r] = uxMessagesWaiting[r] /\ Room(r) <= 0
      /\ uxMessagesWaiting[r] \in Nat
  <2>. HIDE DEF r
  <2>. QED BY <1>1, <1>3, CountIs DEF QInv, QueueTypes
<1>. HIDE DEF r, l
<1>8. LocksFit'
  BY <1>1 DEF WakeInv, LocksFit, lockVars
<1>9. ASSUME NEW q \in Queue, NEW op \in Op, Enough(q, op) PROVE Enough(q, op)'
  <2>1. /\ Net(q, op) = Stock(q, op) - Counted(LockFor(q, op)) /\ Net(q, op) \in Int
        /\ Net(q, op)' = Stock(q, op)' - Counted(LockFor(q, op))
        /\ Stock(q, op) \in Int /\ Counted(LockFor(q, op)) \in Int
        /\ Counted(LockFor(q, op)) >= 0
    <3>1. Net(q, op)' = Stock(q, op)' - Counted(LockFor(q, op))
      BY <1>1 DEF Net, LockFor, lockVars
    <3>. QED BY <3>1, NetTypes, CountedIs DEF Net, QInv, WakeInv
  <2>2. CASE q = r /\ op = "send"
    <3>1. /\ Stock(q, op) = uxLength[r] - uxMessagesWaiting[r] /\ uxLength[r] \in Nat
          /\ Stock(q, op)' = uxLength[r] - uxMessagesWaiting'[r]
      BY <1>3, <2>2, QueueAssumption DEF Stock, Room
    <3>2. Stock(q, op)' = Stock(q, op) - 1 \/ Stock(q, op)' <= 0
      BY <1>7, <3>1 DEF Room
    <3>3. Net(q, op)' <= Net(q, op) - 1 \/ Net(q, op)' <= 0
      <4>1. Stock(q, op)' \in Int
        BY <1>7, <3>1
      <4>. QED BY <2>1, <3>2, <4>1
    <3>. QED BY <1>1, <1>4, <1>5, <1>9, <3>3, TakenSide
  <2>3. CASE q = r /\ op = "receive"
    <3>1. Stock(q, op) = uxMessagesWaiting[r] /\ Stock(q, op)' = uxMessagesWaiting'[r]
      BY <2>3 DEF Stock
    <3>2. Stock(q, op)' <= Stock(q, op) + 1 /\ Stock(q, op)' \in Int
      BY <1>7, <3>1
    <3>3. Net(q, op)' <= Net(q, op) + 1
      BY <2>1, <3>2
    <3>4. \A x \in Task : eventList[x] \in ObjectLists \/ x \in Lookers(q, op) => Steady(x)
      BY <1>5, <1>6, <2>3
    <3>. QED BY <1>1, <1>3, <1>9, <2>3, <3>3, <3>4, WokenSide
  <2>4. CASE q # r
    <3>1. Stock(q, op)' = Stock(q, op)
      BY <1>7, <2>4 DEF Stock, Room
    <3>2. Net(q, op)' <= Net(q, op)
      BY <2>1, <3>1
    <3>. QED BY <1>1, <1>4, <1>5, <1>6, <1>9, <2>4, <3>2, OtherSide
  <2>. QED BY <2>2, <2>3, <2>4 DEF Op
<1>10. \A q \in Queue, op \in Op : Reliable(q, op) /\ Enough(q, op) => Enough(q, op)'
  BY <1>9
<1>. QED BY <1>1, <1>5, <1>8, <1>10, WakeBy

LEMMA ReceiveWake ==
    ASSUME QInv, QInv', WakeInv, NEW t \in Task, ReceiveItem(t)
    PROVE  WakeInv'
<1>. DEFINE r == call[t].q
            mode == call[t].mode
            l == IF mode = "peek" THEN xTasksWaitingToReceive[r] ELSE xTasksWaitingToSend[r]
            yields == WokeMoreUrgent(l, uxPriority, t)
            top == TopWithFirst(l, {}, uxPriority)
<1>1. /\ t = pxCurrentTCB /\ pc[t] = "run" /\ call[t] # NoCall /\ call[t].op = "receive"
      /\ uxMessagesWaiting[r] > 0
      /\ uxMessagesWaiting' = IF mode = "peek" THEN uxMessagesWaiting
                              ELSE [uxMessagesWaiting EXCEPT ![r] = @ - 1]
      /\ WakeOne(l) /\ Return(t) /\ UNCHANGED lockVars
  BY DEF ReceiveItem, InCall, At, NoCall, CopyFromStorage
<1>2. YieldThenExit(t, yields, "run", top)
  BY DEF ReceiveItem
<1>. HIDE DEF yields, top
<1>3. r \in Queue /\ l = ListFor(r, IF mode = "peek" THEN "receive" ELSE "send")
  BY <1>1, ItsCall DEF ListFor
<1>4. l \in ObjectLists /\ {"send", "receive"} = Op
  BY <1>3, QueueAssumption DEF Op
<1>5. /\ \A x \in Task \ {t} : Steady(x) /\ pc'[x] = pc[x]
      /\ \A x \in Task : eventList[x] \in ObjectLists => Steady(x)
      /\ WaiterOK(t)' /\ TestedOK(t)'
  <2>. HIDE DEF r, l, mode
  <2>. QED BY <1>1, <1>2, <1>4, ReturnFrame
<1>6. \A q \in Queue, op \in Op : t \in Lookers(q, op) => q = r /\ op = "receive"
  BY <1>1 DEF Lookers
<1>. HIDE DEF r, mode
<1>7. /\ \A q \in Queue \ {r} : uxMessagesWaiting'[q] = uxMessagesWaiting[q]
      /\ mode = "peek" => uxMessagesWaiting'[r] = uxMessagesWaiting[r]
      /\ mode # "peek" => uxMessagesWaiting'[r] = uxMessagesWaiting[r] - 1
      /\ uxMessagesWaiting[r] \in Nat
  BY <1>1, <1>3 DEF QInv, QueueTypes
<1>. HIDE DEF l
<1>8. LocksFit'
  BY <1>1 DEF WakeInv, LocksFit, lockVars
<1>9. ASSUME NEW q \in Queue, NEW op \in Op, Enough(q, op) PROVE Enough(q, op)'
  <2>1. /\ Net(q, op) = Stock(q, op) - Counted(LockFor(q, op)) /\ Net(q, op) \in Int
        /\ Net(q, op)' = Stock(q, op)' - Counted(LockFor(q, op))
        /\ Stock(q, op) \in Int /\ Counted(LockFor(q, op)) \in Int
        /\ Counted(LockFor(q, op)) >= 0
    <3>1. Net(q, op)' = Stock(q, op)' - Counted(LockFor(q, op))
      BY <1>1 DEF Net, LockFor, lockVars
    <3>. QED BY <3>1, NetTypes, CountedIs DEF Net, QInv, WakeInv
  <2>2. CASE q = r /\ op = "receive" /\ mode # "peek"
    <3>1. Stock(q, op) = uxMessagesWaiting[r] /\ Stock(q, op)' = uxMessagesWaiting'[r]
      BY <2>2 DEF Stock
    <3>2. Net(q, op)' <= Net(q, op) - 1
      BY <1>7, <2>1, <2>2, <3>1
    <3>. QED BY <1>1, <1>4, <1>5, <1>9, <3>2, TakenSide
  <2>3. CASE q = r /\ op = "receive" /\ mode = "peek"
    <3>1. Stock(q, op) = uxMessagesWaiting[r] /\ Stock(q, op)' = uxMessagesWaiting'[r]
      BY <2>3 DEF Stock
    <3>2. Net(q, op)' <= Net(q, op)
      BY <1>7, <2>1, <2>3, <3>1
    <3>3. l = ListFor(q, op) /\ WaitersInv /\ WaitersInv' /\ QueueTypes /\ QueueTypes'
      BY <1>3, <2>3 DEF QInv
    <3>4. CASE SomebodyWaits(l)
      <4>1. PICK x \in Task : eventList[x] = l /\ eventList'[x] \in {"none", "pending"}
        BY <1>1, <1>4, <3>3, <3>4, WakeOneIs
      <4>2. /\ Steady(x) /\ WaiterOK(x) /\ eventList'[x] # eventList[x]
            /\ eventList[t] \notin ObjectLists
        BY <1>1, <1>4, <1>5, <4>1, QueueLabels, ReadyInCall DEF WakeInv
      <4>3. x \notin Lookers(q, op) /\ x \in Lookers(q, op)' /\ x # t
        BY <1>4, <3>3, <4>1, <4>2, Joins
      <4>4. \A y \in Task \ {t} : y \in Lookers(q, op) => y \in Lookers(q, op)'
        BY <1>5, SteadyStays
      <4>5. \A y \in Task : eventList'[y] = ListFor(q, op) => eventList[y] = ListFor(q, op)
        BY <1>1, <1>4, <3>3, WakeOneIs, QueueLabels
      <4>. QED BY <1>9, <3>2, <3>3, <4>3, <4>4, <4>5, EnoughLess
    <3>5. CASE ~SomebodyWaits(l)
      <4>1. \A x \in Task : eventList'[x] # ListFor(q, op)
        BY <1>1, <1>4, <3>3, <3>5, WakeOneIs
      <4>. QED BY <3>3, <4>1, EnoughNobody
    <3>. QED BY <3>4, <3>5
  <2>4. CASE q = r /\ op = "send"
    <3>1. /\ Stock(q, op) = uxLength[r] - uxMessagesWaiting[r] /\ uxLength[r] \in Nat
          /\ Stock(q, op)' = uxLength[r] - uxMessagesWaiting'[r]
      BY <1>3, <2>4, QueueAssumption DEF Stock, Room
    <3>2. \A x \in Task : eventList[x] \in ObjectLists \/ x \in Lookers(q, op) => Steady(x)
      BY <1>5, <1>6, <2>4
    <3>3. CASE mode # "peek"
      <4>1. Net(q, op)' <= Net(q, op) + 1
        BY <1>7, <2>1, <3>1, <3>3
      <4>. QED BY <1>1, <1>3, <1>9, <2>4, <3>2, <3>3, <4>1, WokenSide
    <3>4. CASE mode = "peek"
      <4>1. Net(q, op)' <= Net(q, op)
        BY <1>7, <2>1, <3>1, <3>4
      <4>. QED BY <1>1, <1>4, <1>9, <3>2, <4>1, OtherSide
    <3>. QED BY <3>3, <3>4
  <2>5. CASE q # r
    <3>1. Stock(q, op)' = Stock(q, op)
      BY <1>7, <2>5 DEF Stock, Room
    <3>2. Net(q, op)' <= Net(q, op)
      BY <2>1, <3>1
    <3>. QED BY <1>1, <1>4, <1>5, <1>6, <1>9, <2>5, <3>2, OtherSide
  <2>. QED BY <2>2, <2>3, <2>4, <2>5 DEF Op
<1>10. \A q \in Queue, op \in Op : Reliable(q, op) /\ Enough(q, op) => Enough(q, op)'
  BY <1>9
<1>. QED BY <1>1, <1>5, <1>8, <1>10, WakeBy

LEMMA NetTypesNext ==
    ASSUME QueueTypes', NEW q \in Queue, NEW op \in Op
    PROVE  /\ Stock(q, op)' \in Int /\ LockFor(q, op)' \in Int
           /\ Net(q, op)' = Stock(q, op)' - Counted(LockFor(q, op)')
  BY QueueAssumption DEF QueueTypes, Stock, Room, LockFor, Net

\* prvUnlockQueue wakes one for each that was counted, or all.
LEMMA UnlockWake ==
    ASSUME QInv, QInv', WakeInv, NEW t \in Task, t = pxCurrentTCB, NEW label, Goto(t, label),
           label \in {"unlockRx", "resumeAll"}, NEW r \in Queue, NEW o \in Op,
           Unlock(t, LockFor(r, o), ListFor(r, o)),
           UNCHANGED <<call, uxMessagesWaiting>>,
           LockFor(r, o)' = queueUNLOCKED,
           \A q \in Queue, op \in Op : q # r \/ op # o => LockFor(q, op)' = LockFor(q, op)
    PROVE  WakeInv'
<1>. DEFINE count == LockFor(r, o)
            l == ListFor(r, o)
            n == ToWake(count, l)
            s == waiters[l]
            woken == {s[i] : i \in 1 .. n}
<1>1. /\ l \in ObjectLists /\ l \notin {"none", "pending"} /\ pc \in [Task -> Label]
      /\ WaitersInv /\ WaitersInv' /\ QueueTypes /\ QueueTypes'
  BY ListsApart, ListTypes DEF QInv
<1>2. s \in Seq(Task) /\ Distinct(s) /\ \A x \in Task : InList(s, x) <=> eventList[x] = l
  BY <1>1 DEF WaitersInv
<1>3. count \in queueUNLOCKED .. MaxLock /\ Counted(count) \in Int /\ count \in Int
  BY CountedIs, NetTypes, <1>1 DEF WakeInv
<1>4. /\ n \in 0 .. Len(s)
      /\ n = Len(s) \/ n = Counted(count)
  BY <1>2, <1>3, QueueAssumption DEF ToWake, Counted, queueUNLOCKED
<1>5. WakeFirst(l, n)
  BY DEF Unlock
<1>. HIDE DEF n, count
<1>6. /\ \A x \in Task : x \in woken => eventList'[x] \in {"none", "pending"}
      /\ \A x \in Task : x \notin woken => eventList'[x] = eventList[x]
  <2>1. \/ eventList' = [x \in Task |-> IF x \in woken THEN "none" ELSE eventList[x]]
        \/ eventList' = [x \in Task |-> IF x \in woken THEN "pending" ELSE eventList[x]]
    BY <1>5 DEF WakeFirst
  <2>. HIDE DEF woken
  <2>. QED BY <2>1
<1>7. \A i \in 1 .. n : s[i] \in Task /\ eventList[s[i]] = l /\ s[i] \in woken
  <2>1. \A i \in 1 .. n : i \in DOMAIN s /\ s[i] \in Task
    BY <1>2, <1>4
  <2>. QED BY <1>2, <2>1 DEF InList
<1>. HIDE DEF s
<1>8. pc'[t] = label /\ \A x \in Task \ {t} : pc'[x] = pc[x]
  BY <1>1 DEF Goto
<1>9. \A x \in Task : Steady(x)
  <2>. HIDE DEF woken
  <2>. QED BY <1>6, <1>8, TryingIs DEF Steady
<1>10. \A q \in Queue, op \in Op, x \in Task : x \in Lookers(q, op) => x \in Lookers(q, op)'
  BY <1>9, SteadyStays
<1>11. WaiterOK(t)' /\ TestedOK(t)'
  <2>1. WaiterOK(t)'
    BY <1>9, SteadyStays DEF WakeInv
  <2>. QED BY <1>8, <2>1 DEF TestedOK
<1>12. LocksFit'
  <2>1. ASSUME NEW q \in Queue, NEW op \in Op PROVE LockFor(q, op)' \in queueUNLOCKED .. MaxLock
    <3>1. LockFor(q, op) \in queueUNLOCKED .. MaxLock
      BY CountedIs DEF WakeInv
    <3>2. queueUNLOCKED \in queueUNLOCKED .. MaxLock
      BY QueueAssumption DEF queueUNLOCKED
    <3>. QED BY <3>1, <3>2
  <2>2. "send" \in Op /\ "receive" \in Op
    BY DEF Op
  <2>3. ASSUME NEW q \in Queue
        PROVE cRxLock'[q] \in queueUNLOCKED .. MaxLock /\ cTxLock'[q] \in queueUNLOCKED .. MaxLock
    <3>1. LockFor(q, "send")' = cRxLock'[q] /\ LockFor(q, "receive")' = cTxLock'[q]
      BY DEF LockFor
    <3>. QED BY <2>1, <2>2, <3>1
  <2>. QED BY <2>3 DEF LocksFit
<1>13. ASSUME NEW q \in Queue, NEW op \in Op PROVE Stock(q, op)' = Stock(q, op)
  BY DEF Stock, Room
<1>14. ASSUME NEW q \in Queue, NEW op \in Op, Enough(q, op) PROVE Enough(q, op)'
  <2>1. \A x \in Task : eventList'[x] = ListFor(q, op) => eventList[x] = ListFor(q, op)
    <3>1. ListFor(q, op) \notin {"none", "pending"}
      BY ListsApart
    <3>. QED BY <1>9, <3>1 DEF Steady
  <2>2. CASE q # r \/ op # o
    <3>1. Net(q, op)' <= Net(q, op)
      <4>1. Net(q, op)' = Net(q, op) /\ Net(q, op) \in Int
        BY <1>1, <1>13, <2>2, NetTypes, NetTypesNext DEF Net
      <4>. QED BY <4>1
    <3>. QED BY <1>1, <1>10, <1>14, <2>1, <3>1, EnoughStill
  <2>3. CASE q = r /\ op = o /\ n = Len(s)
    <3>1. ASSUME NEW x \in Task PROVE eventList'[x] # l
      <4>1. CASE eventList[x] = l
        <5>1. PICK i \in DOMAIN s : s[i] = x
          BY <1>2, <4>1 DEF InList
        <5>2. i \in 1 .. n
          BY <1>2, <2>3, <5>1
        <5>. QED BY <1>1, <1>6, <1>7, <5>1, <5>2
      <4>2. CASE eventList[x] # l
        BY <1>1, <1>9, <4>2 DEF Steady
      <4>. QED BY <4>1, <4>2
    <3>. QED BY <1>1, <2>3, <3>1, EnoughNobody
  <2>4. CASE q = r /\ op = o /\ n = Counted(count)
    <3>. DEFINE A == Lookers(q, op)
                B == Lookers(q, op)'
    <3>1. A \in SUBSET Task /\ B \in SUBSET Task /\ A \subseteq B
      <4>1. A \in SUBSET Task /\ B \in SUBSET Task
        BY DEF Lookers
      <4>. QED BY <1>10, <4>1
    <3>2. \A i \in 1 .. n : s[i] \notin A /\ s[i] \in B
      <4>1. ASSUME NEW i \in 1 .. n PROVE s[i] \notin A /\ s[i] \in B
        <5>1. /\ s[i] \in Task /\ eventList[s[i]] = l /\ eventList'[s[i]] \in {"none", "pending"}
              /\ Steady(s[i]) /\ WaiterOK(s[i])
          BY <1>6, <1>7, <1>9 DEF WakeInv
        <5>. QED BY <1>1, <2>4, <5>1, Joins
      <4>. QED BY <4>1
    <3>3. Cardinality(A) + n <= Cardinality(B)
      <4>. HIDE DEF A, B
      <4>. QED BY <1>2, <1>4, <3>1, <3>2, CountMany
    <3>4. Net(q, op)' <= Net(q, op) + n
      <4>1. Net(q, op)' = Stock(q, op)
        <5>1. Counted(queueUNLOCKED) = 0
          BY DEF Counted
        <5>. QED BY <1>1, <1>13, <2>4, <5>1, NetTypes, NetTypesNext
      <4>2. Net(q, op) = Stock(q, op) - n /\ Stock(q, op) \in Int
        BY <1>1, <2>4, NetTypes DEF Net, count
      <4>3. n \in Int
        BY <1>4
      <4>. QED BY <4>1, <4>2, <4>3
    <3>5. n \in Int
      BY <1>4
    <3>. HIDE DEF woken
    <3>. QED BY <1>1, <1>14, <2>1, <3>3, <3>4, <3>5, EnoughBy
  <2>. QED BY <1>4, <2>2, <2>3, <2>4
<1>15. \A q \in Queue, op \in Op : Reliable(q, op) /\ Enough(q, op) => Enough(q, op)'
  BY <1>14
<1>16. \A x \in Task \ {t} : Steady(x) /\ pc'[x] = pc[x]
  BY <1>8, <1>9
<1>. QED BY <1>11, <1>12, <1>15, <1>16, WakeBy

LEMMA UnlockQueueWake ==
    ASSUME QInv, QInv', WakeInv, NEW t \in Task, UnlockTx(t) \/ UnlockRx(t)
    PROVE  WakeInv'
<1>0. /\ t = pxCurrentTCB /\ pc[t] \in QueueLabel
      /\ UNCHANGED <<call, uxMessagesWaiting>>
  BY DEF UnlockTx, UnlockRx, At, QueueLabel, dataVars
<1>1. /\ call[t].q \in Queue /\ cTxLock \in [Queue -> Int] /\ cRxLock \in [Queue -> Int]
      /\ Op = {"send", "receive"}
  BY <1>0, InLoop, ItsCall DEF QInv, QueueTypes, Op
<1>. PICK r \in Queue : r = call[t].q
  BY <1>1
<1>2. CASE UnlockTx(t)
  <2>1. /\ Unlock(t, cTxLock[r], xTasksWaitingToReceive[r]) /\ Goto(t, "unlockRx")
        /\ cTxLock' = [cTxLock EXCEPT ![r] = queueUNLOCKED] /\ UNCHANGED cRxLock
    BY <1>2 DEF UnlockTx
  <2>2. /\ LockFor(r, "receive") = cTxLock[r] /\ LockFor(r, "receive")' = queueUNLOCKED
        /\ ListFor(r, "receive") = xTasksWaitingToReceive[r]
    BY <1>1, <2>1 DEF LockFor, ListFor
  <2>3. \A q \in Queue, op \in Op :
            q # r \/ op # "receive" => LockFor(q, op)' = LockFor(q, op)
    BY <1>1, <2>1 DEF LockFor
  <2>. QED BY <1>0, <1>1, <2>1, <2>2, <2>3, UnlockWake
<1>3. CASE UnlockRx(t)
  <2>1. /\ Unlock(t, cRxLock[r], xTasksWaitingToSend[r]) /\ Goto(t, "resumeAll")
        /\ cRxLock' = [cRxLock EXCEPT ![r] = queueUNLOCKED] /\ UNCHANGED cTxLock
    BY <1>3 DEF UnlockRx
  <2>2. /\ LockFor(r, "send") = cRxLock[r] /\ LockFor(r, "send")' = queueUNLOCKED
        /\ ListFor(r, "send") = xTasksWaitingToSend[r]
    BY <1>1, <2>1 DEF LockFor, ListFor
  <2>3. \A q \in Queue, op \in Op :
            q # r \/ op # "send" => LockFor(q, op)' = LockFor(q, op)
    BY <1>1, <2>1 DEF LockFor
  <2>. QED BY <1>0, <1>1, <2>1, <2>2, <2>3, UnlockWake
<1>. QED BY <1>2, <1>3

\* xQueueReset, which takes everything and wakes one sender: the only one there is.
LEMMA ResetWake ==
    ASSUME QInv, QInv', WakeInv, NEW t \in Task, NEW r \in Resettable, xQueueReset(t, r)
    PROVE  WakeInv'
<1>. DEFINE l == xTasksWaitingToSend[r]
            yields == WokeMoreUrgent(l, uxPriority, t)
            top == TopWithFirst(l, {}, uxPriority)
<1>1. /\ t = pxCurrentTCB /\ pc[t] = "run" /\ call[t] = NoCall /\ UNCHANGED call
      /\ uxMessagesWaiting' = [uxMessagesWaiting EXCEPT ![r] = 0]
      /\ cRxLock' = [cRxLock EXCEPT ![r] = queueUNLOCKED]
      /\ cTxLock' = [cTxLock EXCEPT ![r] = queueUNLOCKED]
      /\ WakeOne(l)
  BY DEF xQueueReset, Calls, At
<1>2. YieldThenExit(t, yields, "run", top)
  BY DEF xQueueReset
<1>. HIDE DEF yields, top
<1>3. r \in Queue /\ l = ListFor(r, "send") /\ Op = {"send", "receive"}
  BY QueueAssumption DEF ListFor, Op
<1>4. l \in ObjectLists /\ WaitersInv /\ WaitersInv' /\ QueueTypes /\ QueueTypes'
      /\ l \notin {"none", "pending"}
  BY <1>3, ListsApart DEF QInv
<1>. HIDE DEF l
<1>5. /\ \A x \in Task \ {t} : Steady(x) /\ pc'[x] = pc[x]
      /\ WaiterOK(t)' /\ TestedOK(t)'
  BY <1>1, <1>2, <1>4, ReturnFrame
<1>6. \A q \in Queue, op \in Op : t \notin Lookers(q, op)
  BY <1>1 DEF Lookers
<1>7. ASSUME NEW q \in Queue
      PROVE  /\ q # r => /\ uxMessagesWaiting'[q] = uxMessagesWaiting[q]
                         /\ cRxLock'[q] = cRxLock[q] /\ cTxLock'[q] = cTxLock[q]
             /\ q = r => /\ uxMessagesWaiting'[q] = 0
                         /\ cRxLock'[q] = queueUNLOCKED /\ cTxLock'[q] = queueUNLOCKED
  BY <1>1, <1>4 DEF QueueTypes
<1>8. LocksFit'
  <2>1. queueUNLOCKED \in queueUNLOCKED .. MaxLock
    BY QueueAssumption DEF queueUNLOCKED
  <2>2. \A q \in Queue : /\ cTxLock[q] \in queueUNLOCKED .. MaxLock
                         /\ cRxLock[q] \in queueUNLOCKED .. MaxLock
    BY DEF WakeInv, LocksFit
  <2>. QED BY <1>7, <2>1, <2>2 DEF LocksFit
<1>9. ASSUME NEW q \in Queue, NEW op \in Op, Reliable(q, op), Enough(q, op)
      PROVE  Enough(q, op)'
  <2>1. CASE q # r
    <3>1. Net(q, op)' = Net(q, op) /\ Net(q, op) \in Int
      <4>1. Net(q, op)' = Net(q, op)
        BY <1>7, <2>1 DEF Net, Stock, Room, LockFor
      <4>. QED BY <1>4, <4>1, NetTypes
    <3>2. Net(q, op)' <= Net(q, op)
      BY <3>1
    <3>. QED BY <1>1, <1>4, <1>5, <1>6, <1>9, <3>2, OtherSide
  <2>2. CASE q = r /\ op = "receive"
    <3>1. Net(q, op)' <= 0
      <4>1. Stock(q, op)' = 0 /\ LockFor(q, op)' = queueUNLOCKED
        BY <1>7, <2>2 DEF Stock, LockFor
      <4>. QED BY <1>4, <4>1, NetTypesNext DEF Counted
    <3>. QED BY <1>4, <3>1, EnoughFew
  <2>3. CASE q = r /\ op = "send"
    <3>1. Cardinality(SendingTasks) = 1
      BY <1>9, <2>3 DEF Reliable
    <3>2. \A x, y \in SendingTasks : x = y
      <4>1. IsFiniteSet(SendingTasks)
        BY QueueAssumption, FS_Subset
      <4>2. PICK z : SendingTasks = {z}
        BY <3>1, <4>1, FS_Singleton
      <4>. QED BY <4>2
    <3>3. ASSUME NEW x \in Task, eventList[x] = l PROVE x \in SendingTasks
      <4>1. eventList[x] = ListFor(call[x].q, call[x].op) /\ call[x] # NoCall
        BY <1>4, <3>3 DEF WakeInv, WaiterOK
      <4>2. call[x].op = "send"
        BY <1>3, <3>3, <4>1, OpIs, ListsApart
      <4>. QED BY <4>2 DEF WakeInv, WaiterOK
    <3>4. ASSUME NEW x \in Task, eventList'[x] = l PROVE FALSE
      <4>1. eventList[x] = l
        BY <1>1, <1>4, <3>4, WakeOneIs
      <4>2. /\ First(l) \in Task /\ eventList[First(l)] = l
            /\ eventList'[First(l)] \in {"none", "pending"}
        BY <1>1, <1>4, <4>1, WakeOneIs
      <4>3. x = First(l)
        BY <3>2, <3>3, <4>1, <4>2
      <4>. QED BY <1>4, <3>4, <4>2, <4>3
    <3>5. \A x \in Task : eventList'[x] # ListFor(q, op)
      BY <1>3, <2>3, <3>4
    <3>. QED BY <1>4, <3>5, EnoughNobody
  <2>. QED BY <1>3, <2>1, <2>2, <2>3
<1>. QED BY <1>1, <1>5, <1>8, <1>9, WakeBy

\* An interrupt adds to one side, and takes from the other.
LEMMA InterruptWake ==
    ASSUME QInv, QInv', WakeInv, NEW r \in Queue, NEW o \in Op, UNCHANGED <<call, pc>>,
           Stock(r, o)' <= Stock(r, o) + 1,
           \A q \in Queue, op \in Op : q # r => Stock(q, op)' = Stock(q, op),
           \A op \in Op \ {o} : Stock(r, op)' <= Stock(r, op),
           \A q \in Queue, op \in Op : q # r \/ op # o => LockFor(q, op)' = LockFor(q, op),
           \/ /\ LockFor(r, o) = queueUNLOCKED /\ WakeOne(ListFor(r, o))
              /\ LockFor(r, o)' = queueUNLOCKED
           \/ /\ LockFor(r, o) # queueUNLOCKED /\ LockFor(r, o) < MaxLock
              /\ LockFor(r, o)' = LockFor(r, o) + 1 /\ UNCHANGED eventList
    PROVE  WakeInv'
<1>. DEFINE t == pxCurrentTCB
<1>1. t \in Task /\ WaitersInv /\ WaitersInv' /\ QueueTypes /\ QueueTypes'
      /\ Op = {"send", "receive"} /\ ListFor(r, o) \in ObjectLists
  BY ListTypes, ListsApart DEF QInv, Op
<1>2. ASSUME NEW q \in Queue, NEW op \in Op
      PROVE  /\ LockFor(q, op) \in queueUNLOCKED .. MaxLock
             /\ LockFor(q, op)' \in queueUNLOCKED .. MaxLock
             /\ LockFor(q, op) >= 0 => LockFor(q, op)' >= 0
  <2>1. LockFor(q, op) \in queueUNLOCKED .. MaxLock /\ LockFor(r, o) \in queueUNLOCKED .. MaxLock
    BY CountedIs DEF WakeInv
  <2>2. CASE q # r \/ op # o
    BY <2>1, <2>2
  <2>3. CASE q = r /\ op = o
    BY <2>1, <2>3, QueueAssumption DEF queueUNLOCKED
  <2>. QED BY <2>2, <2>3
<1>3. \A x \in Task : Steady(x) /\ pc'[x] = pc[x]
  BY <1>1, WakeOneIs DEF Steady
<1>4. ASSUME NEW q \in Queue, NEW op \in Op
      PROVE  /\ q # r => Net(q, op)' <= Net(q, op)
             /\ op # o => Net(q, op)' <= Net(q, op)
             /\ LockFor(r, o) = queueUNLOCKED => Net(q, op)' <= Net(q, op) + 1
             /\ LockFor(r, o) # queueUNLOCKED => Net(q, op)' <= Net(q, op)
  <2>1. /\ Stock(q, op) \in Int /\ Stock(q, op)' \in Int
        /\ LockFor(q, op) \in queueUNLOCKED .. MaxLock
        /\ LockFor(q, op)' \in queueUNLOCKED .. MaxLock
        /\ Net(q, op) = Stock(q, op) - Counted(LockFor(q, op))
        /\ Net(q, op)' = Stock(q, op)' - Counted(LockFor(q, op)')
        /\ Counted(LockFor(q, op)) \in Int
    BY <1>1, <1>2, NetTypes, NetTypesNext DEF Net
  <2>2. CASE q # r \/ op # o
    <3>1. LockFor(q, op)' = LockFor(q, op) /\ Stock(q, op)' <= Stock(q, op)
      BY <2>1, <2>2
    <3>2. Counted(LockFor(q, op)') = Counted(LockFor(q, op))
      BY <3>1
    <3>3. Net(q, op)' <= Net(q, op)
      BY <2>1, <3>1, <3>2
    <3>. QED BY <2>1, <3>3
  <2>3. CASE q = r /\ op = o
    <3>1. Stock(q, op)' <= Stock(q, op) + 1
      BY <2>3
    <3>2. CASE LockFor(r, o) = queueUNLOCKED
      <4>1. Counted(LockFor(q, op)') = Counted(LockFor(q, op))
        BY <2>3, <3>2
      <4>2. Net(q, op)' <= Net(q, op) + 1
        BY <2>1, <3>1, <4>1
      <4>. QED BY <2>3, <3>2, <4>2
    <3>3. CASE LockFor(r, o) # queueUNLOCKED
      <4>1. Counted(LockFor(q, op)') = Counted(LockFor(q, op)) + 1
        BY <2>1, <2>3, <3>3, QueueAssumption DEF Counted, queueUNLOCKED
      <4>2. Net(q, op)' <= Net(q, op)
        BY <2>1, <3>1, <4>1
      <4>. QED BY <2>3, <3>3, <4>2
    <3>. QED BY <3>2, <3>3
  <2>. QED BY <2>2, <2>3
<1>5. LocksFit'
  <2>1. ASSUME NEW q \in Queue
        PROVE cRxLock'[q] \in queueUNLOCKED .. MaxLock /\ cTxLock'[q] \in queueUNLOCKED .. MaxLock
    <3>1. LockFor(q, "send")' = cRxLock'[q] /\ LockFor(q, "receive")' = cTxLock'[q]
      BY DEF LockFor
    <3>. QED BY <1>1, <1>2, <3>1
  <2>. QED BY <2>1 DEF LocksFit
<1>6. ASSUME NEW q \in Queue, NEW op \in Op, Enough(q, op) PROVE Enough(q, op)'
  <2>1. ListFor(q, op) \notin {"none", "pending"}
    BY ListsApart
  <2>2. \A x \in Task : eventList'[x] = ListFor(q, op) => eventList[x] = ListFor(q, op)
    BY <1>3, <2>1 DEF Steady
  <2>3. \A x \in Task : x \in Lookers(q, op) => x \in Lookers(q, op)'
    BY <1>3, SteadyStays
  <2>4. CASE q # r \/ op # o \/ LockFor(r, o) # queueUNLOCKED
    <3>1. Net(q, op)' <= Net(q, op)
      BY <1>4, <2>4
    <3>. QED BY <1>1, <1>6, <2>2, <2>3, <3>1, EnoughStill
  <2>5. CASE q = r /\ op = o /\ LockFor(r, o) = queueUNLOCKED
    <3>1. Net(q, op)' <= Net(q, op) + 1
      BY <1>4, <2>5
    <3>. QED BY <1>3, <1>6, <2>5, <3>1, WokenSide
  <2>. QED BY <2>4, <2>5
<1>7. \A q \in Queue, op \in Op : Reliable(q, op) /\ Enough(q, op) => Enough(q, op)'
  BY <1>6
<1>8. ASSUME NEW x \in Task PROVE WaiterOK(x)' /\ TestedOK(x)'
  <2>1. WaiterOK(x) /\ TestedOK(x) /\ WaiterOK(x)'
    BY <1>3, <1>8, SteadyStays DEF WakeInv
  <2>2. ASSUME pc[x] \in {"check", "test", "inherit", "place"}
        PROVE  TestedOK(x)'
    <3>1. call[x] # NoCall /\ call[x].q \in Queue /\ call[x].op \in Op
      BY <2>2, InLoop, OpIs DEF QueueLabel
    <3>2. PICK q \in Queue, op \in Op : q = call[x].q /\ op = call[x].op
      BY <3>1
    <3>3. cTxLock[q] >= 0 /\ cRxLock[q] >= 0
      BY <2>1, <2>2, <3>2 DEF TestedOK
    <3>4. cTxLock'[q] >= 0 /\ cRxLock'[q] >= 0
      <4>1. /\ LockFor(q, "send")' = cRxLock'[q] /\ LockFor(q, "receive")' = cTxLock'[q]
            /\ LockFor(q, "send") = cRxLock[q] /\ LockFor(q, "receive") = cTxLock[q]
        BY DEF LockFor
      <4>. QED BY <1>1, <1>2, <3>3, <4>1
    <3>5. ASSUME pc[x] \in {"inherit", "place"}
          PROVE  Stock(q, op)' <= Counted(LockFor(q, op)')
      <4>1. Stock(q, op) <= Counted(LockFor(q, op))
        BY <2>1, <3>2, <3>5 DEF TestedOK
      <4>2. /\ Stock(q, op) \in Int /\ Counted(LockFor(q, op)) \in Int
            /\ Net(q, op) = Stock(q, op) - Counted(LockFor(q, op))
            /\ Stock(q, op)' \in Int /\ LockFor(q, op)' \in Int
            /\ Net(q, op)' = Stock(q, op)' - Counted(LockFor(q, op)')
        BY <1>1, NetTypes, NetTypesNext DEF Net
      <4>3. Net(q, op)' <= Net(q, op)
        <5>1. CASE q = r
          <6>1. LockFor(r, o) # queueUNLOCKED
            BY <1>1, <3>3, <5>1 DEF LockFor, queueUNLOCKED
          <6>. QED BY <1>4, <6>1
        <5>2. CASE q # r
          BY <1>4, <5>2
        <5>. QED BY <5>1, <5>2
      <4>4. Counted(LockFor(q, op)') \in Int
        BY <4>2 DEF Counted
      <4>. QED BY <4>1, <4>2, <4>3, <4>4
    <3>6. pc'[x] = pc[x] /\ call'[x] = call[x]
      OBVIOUS
    <3>7. /\ Stock(call'[x].q, call'[x].op) = Stock(q, op)
          /\ call'[x].q = q /\ call'[x].op = op
      BY <3>2, <3>6
    <3>. QED BY <3>4, <3>5, <3>6, <3>7 DEF TestedOK, Stock, Room, LockFor
  <2>3. ASSUME pc[x] \notin {"check", "test", "inherit", "place"} PROVE TestedOK(x)'
    BY <1>3, <2>3 DEF TestedOK
  <2>. QED BY <2>1, <2>2, <2>3
<1>. QED BY <1>5, <1>7, <1>8 DEF WakeInv, Reliable

\* The lock counts do not wrap, however many interrupts use a queue while it is locked.
CountsFit == MaxLock < LockValues \div 2

LEMMA IncrementIs ==
    ASSUME CountsFit, NEW n \in Int, n < MaxLock
    PROVE  Increment(n) = n + 1
<1>1. LockValues \div 2 \in Int
  BY QueueAssumption
<1>. QED BY <1>1, QueueAssumption DEF CountsFit, Increment

LEMMA SendFromISRWake ==
    ASSUME CountsFit, QInv, QInv', WakeInv, NEW r \in IsrSends, NEW position, NEW item,
           xQueueGenericSendFromISR(r, item, position)
    PROVE  WakeInv'
<1>. DEFINE l == xTasksWaitingToReceive[r]
<1>1. /\ MayCopy(r, position) /\ CountOneMore(r, position)
      /\ UNCHANGED <<call, pc, cRxLock>>
      /\ \/ cTxLock[r] = queueUNLOCKED /\ WakeOne(l) /\ UNCHANGED cTxLock
         \/ /\ cTxLock[r] # queueUNLOCKED /\ cTxLock[r] < MaxLock
            /\ cTxLock' = [cTxLock EXCEPT ![r] = Increment(@)]
            /\ UNCHANGED eventList
  BY DEF xQueueGenericSendFromISR, controlVars
<1>2. r \in Queue /\ Op = {"send", "receive"} /\ l = ListFor(r, "receive")
      /\ cTxLock \in [Queue -> Int] /\ QueueTypes
  BY QueueAssumption DEF Op, ListFor, QInv, QueueTypes
<1>3. /\ \A q \in Queue \ {r} : uxMessagesWaiting'[q] = uxMessagesWaiting[q]
      /\ \/ uxMessagesWaiting'[r] = uxMessagesWaiting[r] + 1
         \/ uxMessagesWaiting'[r] = uxMessagesWaiting[r]
      /\ uxMessagesWaiting[r] \in Nat /\ uxLength[r] \in Nat
  BY <1>1, <1>2, CountIs, QueueAssumption DEF QueueTypes
<1>4. \/ cTxLock[r] = queueUNLOCKED /\ WakeOne(l) /\ UNCHANGED cTxLock
      \/ /\ cTxLock[r] # queueUNLOCKED /\ cTxLock[r] < MaxLock /\ UNCHANGED eventList
         /\ cTxLock' = [cTxLock EXCEPT ![r] = cTxLock[r] + 1]
  BY <1>1, <1>2, IncrementIs
<1>. HIDE DEF l
<1>5. /\ \A q \in Queue, op \in Op :
             q # r \/ op # "receive" => LockFor(q, op)' = LockFor(q, op)
      /\ \/ /\ LockFor(r, "receive") = queueUNLOCKED /\ WakeOne(ListFor(r, "receive"))
            /\ LockFor(r, "receive")' = queueUNLOCKED
         \/ /\ LockFor(r, "receive") # queueUNLOCKED /\ LockFor(r, "receive") < MaxLock
            /\ LockFor(r, "receive")' = LockFor(r, "receive") + 1 /\ UNCHANGED eventList
  BY <1>1, <1>2, <1>4 DEF LockFor
<1>6. /\ Stock(r, "receive")' <= Stock(r, "receive") + 1
      /\ \A q \in Queue, op \in Op : q # r => Stock(q, op)' = Stock(q, op)
      /\ \A op \in Op \ {"receive"} : Stock(r, op)' <= Stock(r, op)
  <2>1. Stock(r, "receive")' <= Stock(r, "receive") + 1
    BY <1>3 DEF Stock
  <2>2. \A q \in Queue, op \in Op : q # r => Stock(q, op)' = Stock(q, op)
    BY <1>3 DEF Stock, Room
  <2>3. Stock(r, "send")' <= Stock(r, "send")
    BY <1>3 DEF Stock, Room
  <2>. QED BY <1>2, <2>1, <2>2, <2>3
<1>7. "receive" \in Op
  BY <1>2
<1>. QED BY <1>1, <1>2, <1>5, <1>6, <1>7, InterruptWake

LEMMA ReceiveFromISRWake ==
    ASSUME CountsFit, QInv, QInv', WakeInv, NEW r \in IsrReceives, xQueueReceiveFromISR(r)
    PROVE  WakeInv'
<1>. DEFINE l == xTasksWaitingToSend[r]
<1>1. /\ uxMessagesWaiting[r] > 0
      /\ uxMessagesWaiting' = [uxMessagesWaiting EXCEPT ![r] = @ - 1]
      /\ UNCHANGED <<call, pc, cTxLock>>
      /\ \/ cRxLock[r] = queueUNLOCKED /\ WakeOne(l) /\ UNCHANGED cRxLock
         \/ /\ cRxLock[r] # queueUNLOCKED /\ cRxLock[r] < MaxLock
            /\ cRxLock' = [cRxLock EXCEPT ![r] = Increment(@)]
            /\ UNCHANGED eventList
  BY DEF xQueueReceiveFromISR, controlVars, CopyFromStorage
<1>2. r \in Queue /\ Op = {"send", "receive"} /\ l = ListFor(r, "send")
      /\ cRxLock \in [Queue -> Int] /\ QueueTypes
  BY QueueAssumption DEF Op, ListFor, QInv, QueueTypes
<1>3. /\ \A q \in Queue \ {r} : uxMessagesWaiting'[q] = uxMessagesWaiting[q]
      /\ uxMessagesWaiting'[r] = uxMessagesWaiting[r] - 1
      /\ uxMessagesWaiting[r] \in Nat /\ uxLength[r] \in Nat
  BY <1>1, <1>2, QueueAssumption DEF QueueTypes
<1>4. \/ cRxLock[r] = queueUNLOCKED /\ WakeOne(l) /\ UNCHANGED cRxLock
      \/ /\ cRxLock[r] # queueUNLOCKED /\ cRxLock[r] < MaxLock /\ UNCHANGED eventList
         /\ cRxLock' = [cRxLock EXCEPT ![r] = cRxLock[r] + 1]
  BY <1>1, <1>2, IncrementIs
<1>. HIDE DEF l
<1>5. /\ \A q \in Queue, op \in Op :
             q # r \/ op # "send" => LockFor(q, op)' = LockFor(q, op)
      /\ \/ /\ LockFor(r, "send") = queueUNLOCKED /\ WakeOne(ListFor(r, "send"))
            /\ LockFor(r, "send")' = queueUNLOCKED
         \/ /\ LockFor(r, "send") # queueUNLOCKED /\ LockFor(r, "send") < MaxLock
            /\ LockFor(r, "send")' = LockFor(r, "send") + 1 /\ UNCHANGED eventList
  BY <1>1, <1>2, <1>4 DEF LockFor
<1>6. /\ Stock(r, "send")' <= Stock(r, "send") + 1
      /\ \A q \in Queue, op \in Op : q # r => Stock(q, op)' = Stock(q, op)
      /\ \A op \in Op \ {"send"} : Stock(r, op)' <= Stock(r, op)
  <2>1. Stock(r, "send")' <= Stock(r, "send") + 1
    BY <1>3 DEF Stock, Room
  <2>2. \A q \in Queue, op \in Op : q # r => Stock(q, op)' = Stock(q, op)
    BY <1>3 DEF Stock, Room
  <2>3. Stock(r, "receive")' <= Stock(r, "receive")
    BY <1>3 DEF Stock
  <2>. QED BY <1>2, <2>1, <2>2, <2>3
<1>7. "send" \in Op
  BY <1>2
<1>. QED BY <1>1, <1>2, <1>5, <1>6, <1>7, InterruptWake

\* The scheduler takes tasks out of the lists; it puts none on its way to one.
LEMMA SchedulerWake ==
    ASSUME QInv, QInv', WakeInv, SchedulerStep
    PROVE  WakeInv'
<1>1. IInv /\ Next /\ UNCHANGED <<call, uxMessagesWaiting, lockVars>>
      /\ WaitersInv /\ WaitersInv' /\ QueueTypes /\ QueueTypes'
  BY SchedulerStepIsNext DEF QInv, KeepQueues, dataVars
<1>2. \A x \in Task : eventList'[x] \in {eventList[x], "none", "pending"}
  BY <1>1, NobodyEnters
<1>3. ASSUME NEW x \in Task, pc'[x] \in QueueLabel PROVE pc'[x] = pc[x]
  <2>1. pc'[x] \in ObjectLabels
    BY <1>3, QueueLabels
  <2>2. CASE Interrupt
    BY <1>1, <2>2, InterruptStep
  <2>3. ASSUME NEW t \in Task, Continue(t) \/ Yield(t) \/ Call(t) PROVE pc'[x] = pc[x]
    <3>1. OneCall(t) /\ (\A u \in Task \ {t} : pc'[u] = pc[u])
          /\ (pc'[t] \notin ObjectLabels \/ pc'[t] = after[t])
      BY <1>1, <2>3, TaskStep DEF QInv, QueueCalls
    <3>. QED BY <2>1, <3>1 DEF OneCall
  <2>. QED BY <2>2, <2>3 DEF SchedulerStep
<1>4. \A x \in Task : Steady(x)
  BY <1>1, <1>2, <1>3, TryingIs DEF Steady
<1>5. LocksFit'
  BY <1>1 DEF WakeInv, LocksFit, lockVars
<1>6. ASSUME NEW x \in Task PROVE WaiterOK(x)' /\ TestedOK(x)'
  <2>1. WaiterOK(x)' /\ TestedOK(x)
    BY <1>4, SteadyStays DEF WakeInv
  <2>2. \A l \in {"check", "test", "inherit", "place"} : pc'[x] = l => pc[x] = l
    BY <1>3 DEF QueueLabel
  <2>3. TestedOK(x)'
    BY <1>1, <2>1, <2>2 DEF TestedOK, Stock, Room, LockFor, lockVars
  <2>. QED BY <2>1, <2>3
<1>7. ASSUME NEW q \in Queue, NEW op \in Op, Enough(q, op) PROVE Enough(q, op)'
  <2>1. Net(q, op)' = Net(q, op) /\ Net(q, op) \in Int
    <3>1. Net(q, op)' = Net(q, op)
      BY <1>1 DEF Net, Stock, Room, LockFor, lockVars
    <3>. QED BY <1>1, <3>1, NetTypes
  <2>2. Net(q, op)' <= Net(q, op)
    BY <2>1
  <2>3. ListFor(q, op) \notin {"none", "pending"}
    BY ListsApart
  <2>4. \A x \in Task : eventList'[x] = ListFor(q, op) => eventList[x] = ListFor(q, op)
    BY <1>2, <2>3
  <2>5. \A x \in Task : x \in Lookers(q, op) => x \in Lookers(q, op)'
    BY <1>4, SteadyStays
  <2>. QED BY <1>1, <1>7, <2>2, <2>4, <2>5, EnoughStill
<1>. QED BY <1>5, <1>6, <1>7 DEF WakeInv, Reliable

LEMMA NextWake == CountsFit /\ QInv /\ WakeInv /\ [QueueNext]_allVars => WakeInv'
<1>. SUFFICES ASSUME CountsFit, QInv, WakeInv, [QueueNext]_allVars PROVE WakeInv'
  OBVIOUS
<1>1. QInv'
  BY NextQInv
<1>2. CASE UNCHANGED allVars
  <2>1. UNCHANGED <<call, pc, eventList, uxMessagesWaiting, cTxLock, cRxLock, waiters>>
    BY <1>2 DEF allVars, vars, queueVars, listVars, controlVars, dataVars, lockVars
  <2>2. LocksFit'
    BY <2>1 DEF WakeInv, LocksFit
  <2>3. \A x \in Task : WaiterOK(x)' /\ TestedOK(x)'
    BY <2>1 DEF WakeInv, WaiterOK, TestedOK, ListFor, LockFor, Stock, Room
  <2>4. ASSUME NEW q \in Queue, NEW op \in Op, Enough(q, op) PROVE Enough(q, op)'
    <3>1. Lookers(q, op)' = Lookers(q, op)
      BY <2>1 DEF Lookers, ListFor
    <3>2. Stock(q, op)' = Stock(q, op) /\ LockFor(q, op)' = LockFor(q, op)
      BY <2>1 DEF Stock, Room, LockFor
    <3>. QED BY <2>1, <2>4, <3>1, <3>2 DEF Enough, SomebodyWaits, ListFor
  <2>. QED BY <2>2, <2>3, <2>4 DEF WakeInv, Reliable
<1>3. CASE SchedulerStep
  BY <1>1, <1>3, SchedulerWake
<1>4. CASE QueueInterrupt
  BY <1>1, <1>4, SendFromISRWake, ReceiveFromISRWake DEF QueueInterrupt
<1>5. ASSUME NEW t \in Task, QueueCall(t) PROVE WakeInv'
  <2>1. CASE \E q \in Resettable : xQueueReset(t, q)
    BY <1>1, <2>1, ResetWake
  <2>2. CASE \E q \in Queue : \/ \E item \in Item \union {"nothing"}, position \in CopyPositions,
                                     n \in SendWaits :
                                     xQueueGenericSend(t, q, item, position, n)
                              \/ \E mode \in ReceiveModes[t], n \in ReceiveWaits :
                                     xQueueGenericReceive(t, q, mode, n)
    BY <1>1, <2>2, CallWake
  <2>. QED BY <1>5, <2>1, <2>2 DEF QueueCall
<1>6. ASSUME NEW t \in Task, QueueContinue(t) PROVE WakeInv'
  <2>1. CASE SendItem(t) \/ ReceiveItem(t) \/ SendFailsOrWaits(t) \/ ReceiveFailsOrWaits(t)
    BY <1>1, <2>1, SendWake, ReceiveWake, FailWake
  <2>2. CASE ReturnExpired(t) \/ SuspendAllToWait(t) \/ prvLockQueue(t) \/ CheckForTimeOut(t)
    BY <1>1, <2>2, ReturnExpiredWake, SuspendAllWake, LockQueueWake, CheckWake
  <2>3. CASE \/ TestQueue(t) \/ vTaskPriorityInherit(t) \/ vTaskPlaceOnEventList(t)
             \/ UnlockTx(t) \/ UnlockRx(t)
    BY <1>1, <2>3, TestWake, InheritWake, PlaceWake, UnlockQueueWake
  <2>. QED BY <1>6, <2>1, <2>2, <2>3 DEF QueueContinue
<1>. QED BY <1>2, <1>3, <1>4, <1>5, <1>6 DEF QueueNext

LEMMA InitWake == QueueInit => WakeInv
<1>. SUFFICES ASSUME QueueInit PROVE WakeInv
  OBVIOUS
<1>1. LocksFit
  <2>1. queueUNLOCKED \in queueUNLOCKED .. MaxLock
    BY QueueAssumption DEF queueUNLOCKED
  <2>. QED BY <2>1 DEF QueueInit, LocksFit
<1>2. ASSUME NEW t \in Task PROVE WaiterOK(t) /\ TestedOK(t)
  <2>1. call[t] = NoCall /\ eventList[t] = "none" /\ pc[t] = "run"
    BY DEF QueueInit, Init
  <2>. QED BY <2>1, QueueLabels DEF WaiterOK, TestedOK, NoCall
<1>3. ASSUME NEW q \in Queue, NEW op \in Op PROVE Enough(q, op)
  <2>1. waiters[ListFor(q, op)] = <<>>
    BY ListsApart DEF QueueInit
  <2>. QED BY <2>1 DEF Enough, SomebodyWaits
<1>. QED BY <1>1, <1>2, <1>3 DEF WakeInv

LEMMA AlwaysWake ==
    ASSUME CountsFit
    PROVE  QueueSpec => []WakeInv
<1>1. QueueInit => WakeInv
  BY InitWake
<1>2. QInv /\ WakeInv /\ [QueueNext]_allVars => WakeInv'
  BY NextWake
<1>. QED BY <1>1, <1>2, AlwaysQInv, PTL DEF QueueSpec

\* Who looks is awake.
LEMMA LookersAreAwake ==
    ASSUME NEW q \in Queue, NEW op \in Op
    PROVE  /\ Cardinality(Lookers(q, op)) <= Cardinality(Awake(q, op, ListFor(q, op)))
           /\ Cardinality(Lookers(q, op)) \in Nat
           /\ Cardinality(Awake(q, op, ListFor(q, op))) \in Nat
<1>. DEFINE A == Lookers(q, op)
            B == Awake(q, op, ListFor(q, op))
<1>1. A \in SUBSET Task /\ B \in SUBSET Task /\ A \subseteq B
  BY DEF Lookers, Awake
<1>. HIDE DEF A, B
<1>2. Cardinality(A) <= Cardinality(B) /\ Cardinality(A) \in Nat /\ Cardinality(B) \in Nat
  BY <1>1, Counts
<1>. QED BY <1>2 DEF A, B

LEMMA EnoughAreAwake ==
    ASSUME QInv, WakeInv, NEW q \in Queue, NEW op \in Op, Reliable(q, op),
           SomebodyWaits(ListFor(q, op))
    PROVE  Stock(q, op) <= Cardinality(Awake(q, op, ListFor(q, op))) + Counted(LockFor(q, op))
<1>. DEFINE m == Cardinality(Lookers(q, op))
            n == Cardinality(Awake(q, op, ListFor(q, op)))
<1>1. Stock(q, op) <= m + Counted(LockFor(q, op))
  BY DEF WakeInv, Enough
<1>2. m <= n /\ m \in Nat /\ n \in Nat
  BY LookersAreAwake
<1>3. Stock(q, op) \in Int /\ Counted(LockFor(q, op)) \in Int
  BY NetTypes DEF QInv
<1>. HIDE DEF m, n
<1>4. Stock(q, op) <= n + Counted(LockFor(q, op))
  BY <1>1, <1>2, <1>3
<1>. QED BY <1>4 DEF n

(***************************************************************************)
(* No lost wake-up for receivers: if tasks wait to receive, each item in   *)
(* the queue is on its way to a task that is in the call and awake, or     *)
(* prvUnlockQueue is going to wake one for it.  For every number of tasks, *)
(* every mix of calls, time-outs, resets and interrupts, as long as        *)
(* cTxLock and cRxLock do not wrap (README, section 7).                    *)
(***************************************************************************)
THEOREM ReceiversAreWoken ==
    ASSUME CountsFit
    PROVE  QueueSpec => []NobodyWaitsForAnItem
<1>1. QInv /\ WakeInv => NobodyWaitsForAnItem
  <2>. SUFFICES ASSUME QInv, WakeInv, NEW q \in Queue,
                       SomebodyWaits(xTasksWaitingToReceive[q])
                PROVE  uxMessagesWaiting[q] <=
                           Cardinality(Awake(q, "receive", xTasksWaitingToReceive[q]))
                               + Counted(cTxLock[q])
    BY DEF NobodyWaitsForAnItem
  <2>1. /\ "receive" \in Op /\ Reliable(q, "receive")
        /\ ListFor(q, "receive") = xTasksWaitingToReceive[q]
        /\ Stock(q, "receive") = uxMessagesWaiting[q] /\ LockFor(q, "receive") = cTxLock[q]
    BY DEF Op, Reliable, ListFor, Stock, LockFor
  <2>2. Stock(q, "receive") <= Cardinality(Awake(q, "receive", ListFor(q, "receive")))
                                   + Counted(LockFor(q, "receive"))
    BY <2>1, EnoughAreAwake
  <2>. QED BY <2>1, <2>2
<1>2. QueueSpec => []WakeInv
  BY AlwaysWake
<1>. QED BY <1>1, <1>2, AlwaysQInv, PTL

(***************************************************************************)
(* No lost wake-up for senders: if tasks wait for room, each free place is *)
(* on its way to one of them that is awake, or counted.  For a queue that  *)
(* is reset this holds if one task sends: xQueueReset wakes one, whatever  *)
(* room it makes.                                                          *)
(***************************************************************************)
THEOREM SendersAreWoken ==
    ASSUME CountsFit
    PROVE  QueueSpec => []NobodyWaitsForRoom
<1>1. QInv /\ WakeInv => NobodyWaitsForRoom
  <2>. SUFFICES ASSUME QInv, WakeInv, NEW q \in Queue,
                       q \in Resettable => Cardinality(SendingTasks) = 1,
                       SomebodyWaits(xTasksWaitingToSend[q])
                PROVE  Room(q) <= Cardinality(Awake(q, "send", xTasksWaitingToSend[q]))
                                      + Counted(cRxLock[q])
    BY DEF NobodyWaitsForRoom
  <2>1. /\ "send" \in Op /\ Reliable(q, "send")
        /\ ListFor(q, "send") = xTasksWaitingToSend[q]
        /\ Stock(q, "send") = Room(q) /\ LockFor(q, "send") = cRxLock[q]
    BY DEF Op, Reliable, ListFor, Stock, LockFor
  <2>2. Stock(q, "send") <= Cardinality(Awake(q, "send", ListFor(q, "send")))
                                + Counted(LockFor(q, "send"))
    BY <2>1, EnoughAreAwake
  <2>. QED BY <2>1, <2>2
<1>2. QueueSpec => []WakeInv
  BY AlwaysWake
<1>. QED BY <1>1, <1>2, AlwaysQInv, PTL
---------------------------------------------------------------------------
(* The types, and preemption with queues in between *)

\* A list without repetition is as long as its tasks are many.
LEMMA LengthIs ==
    ASSUME NEW s \in Seq(Task), Distinct(s)
    PROVE  Cardinality({t \in Task : InList(s, t)}) = Len(s)
<1>. DEFINE S == {t \in Task : InList(s, t)}
<1>1. Len(s) \in Nat /\ DOMAIN s = 1 .. Len(s) /\ s \in [1 .. Len(s) -> Task]
  OBVIOUS
<1>2. s \in [1 .. Len(s) -> S]
  BY <1>1 DEF InList
<1>3. s \in Injection(1 .. Len(s), S)
  BY <1>1, <1>2 DEF Distinct, Injection, IsInjective
<1>4. s \in Surjection(1 .. Len(s), S)
  BY <1>1, <1>2 DEF InList, Surjection
<1>5. ExistsBijection(1 .. Len(s), S)
  BY <1>3, <1>4 DEF ExistsBijection, Bijection
<1>. HIDE DEF S
<1>6. Cardinality(S) = Len(s)
  BY <1>1, <1>5, FS_CountingElements
<1>. QED BY <1>6 DEF S

LEMMA TypesFollow ==
    ASSUME QInv, LocksFit, HoldersInv
    PROVE  QueueTypeOK
<1>1. ASSUME NEW l \in ObjectLists
      PROVE  /\ {waiters[l][i] : i \in DOMAIN waiters[l]} = {t \in Task : eventList[t] = l}
             /\ Len(waiters[l]) = Cardinality({t \in Task : eventList[t] = l})
  <2>1. /\ waiters[l] \in Seq(Task) /\ Distinct(waiters[l])
        /\ \A t \in Task : InList(waiters[l], t) <=> eventList[t] = l
    BY DEF QInv, WaitersInv
  <2>2. {t \in Task : eventList[t] = l} = {t \in Task : InList(waiters[l], t)}
    BY <2>1
  <2>3. \A i \in DOMAIN waiters[l] : waiters[l][i] \in Task
    BY <2>1
  <2>4. {waiters[l][i] : i \in DOMAIN waiters[l]} = {t \in Task : InList(waiters[l], t)}
    BY <2>3 DEF InList
  <2>. QED BY <2>1, <2>2, <2>4, LengthIs
<1>2. uxMutexesHeld \in [Task -> 0 .. Cardinality(Mutex)]
  <2>1. ASSUME NEW t \in Task PROVE uxMutexesHeld[t] \in 0 .. Cardinality(Mutex)
    <3>1. IsFiniteSet(Mutex) /\ Held(t) \subseteq Mutex
      <4>1. IsFiniteSet(Queue) /\ Mutex \subseteq Queue
        BY QueueAssumption
      <4>. QED BY <4>1, FS_Subset DEF Held
    <3>2. /\ Cardinality(Held(t)) \in Nat /\ Cardinality(Mutex) \in Nat
          /\ Cardinality(Held(t)) <= Cardinality(Mutex)
      BY <3>1, FS_Subset, FS_CardinalityType
    <3>3. uxMutexesHeld[t] = Cardinality(Held(t))
      BY DEF HoldersInv
    <3>. QED BY <3>2, <3>3
  <2>. QED BY <2>1 DEF QInv, QueueTypes
<1>3. TypeOK
  BY DEF QInv, IInv
<1>. QED BY <1>1, <1>2, <1>3 DEF QInv, QueueTypes, LocksFit, QueueTypeOK

\* With mutexes it is false: a giver that falls back to its base priority switches only if
\* nobody waits or he who waits is more urgent (README, section 7).
NoMutex == Mutex = {}

\* The bound of the selection and preemption go together.
Preempts == TopBound /\ HighestPriorityRuns

\* Waking the first of a list makes him ready at most, or leaves him pending.
LEMMA WokenIsReady ==
    ASSUME PInv, WaitersInv, NEW l \in ObjectLists, WakeOne(l), UNCHANGED uxPriority
    PROVE  /\ TopWithFirst(l, {}, uxPriority) \in Priority
           /\ \A u \in Ready' : uxPriority'[u] <= TopWithFirst(l, {}, uxPriority)
           /\ \A u \in Ready' : u \in Ready \/ (SomebodyWaits(l) /\ u = First(l))
<1>1. CASE SomebodyWaits(l) /\ uxSchedulerSuspended = 0
  <2>1. First(l) \in Task /\ First(l) = waiters[l][1]
    BY <1>1, FirstIs
  <2>2. \A u \in Task : stateList'[u] = "ready" => stateList[u] = "ready" \/ u = First(l)
    <3>. DEFINE woken == {waiters[l][i] : i \in 1 .. 1}
    <3>1. woken = {First(l)}
      BY <2>1
    <3>2. stateList' = [t \in Task |-> IF t \in woken THEN "ready" ELSE stateList[t]]
      BY <1>1 DEF WakeOne, WakeFirst
    <3>. HIDE DEF woken
    <3>. QED BY <3>1, <3>2
  <2>3. Ready' \subseteq Ready \union {First(l)}
    BY <2>2 DEF Ready, In
  <2>4. TopWithFirst(l, {}, uxPriority) = TopWith({First(l)}, uxPriority)
    <3>1. {First(l)} \union {} = {First(l)}
      OBVIOUS
    <3>. QED BY <1>1, <3>1 DEF TopWithFirst
  <2>. QED BY <1>1, <2>1, <2>3, <2>4, MakesOneReady
<1>2. CASE ~(SomebodyWaits(l) /\ uxSchedulerSuspended = 0)
  <2>1. UNCHANGED stateList
    BY <1>2 DEF WakeOne, WakeFirst
  <2>2. Ready' = Ready
    BY <2>1 DEF Ready, In
  <2>3. TopWithFirst(l, {}, uxPriority) = TopWith({}, uxPriority)
    BY <1>2 DEF TopWithFirst
  <2>4. /\ TopWith({}, uxPriority) \in Priority
        /\ TopWith({}, uxPriority) >= uxTopReadyPriority
    BY TopWithBounds, PriorityTypes DEF PInv
  <2>5. \A u \in Ready : uxPriority[u] <= TopWith({}, uxPriority)
    <3>1. \A u \in Ready : uxPriority[u] <= uxTopReadyPriority /\ uxPriority[u] \in Nat
      BY PriorityTypes DEF PInv, TopBound
    <3>2. uxTopReadyPriority \in Nat /\ TopWith({}, uxPriority) \in Nat
      BY <2>4, PriorityTypes DEF PInv
    <3>. QED BY <2>4, <3>1, <3>2
  <2>. QED BY <2>2, <2>3, <2>4, <2>5
<1>. QED BY <1>1, <1>2

\* A section of a call that wakes the first of a list, and yields if he is more urgent.
LEMMA WakingSection ==
    ASSUME PInv, IInv', WaitersInv, NEW t \in Task, t = pxCurrentTCB, pc[t] = "run",
           NEW l \in ObjectLists, WakeOne(l), UNCHANGED uxPriority,
           YieldThenExit(t, WokeMoreUrgent(l, uxPriority, t), "run",
                         TopWithFirst(l, {}, uxPriority))
    PROVE  Preempts'
<1>. DEFINE yields == WokeMoreUrgent(l, uxPriority, t)
            top == TopWithFirst(l, {}, uxPriority)
<1>1. /\ top \in Priority /\ \A u \in Ready' : uxPriority'[u] <= top
      /\ \A u \in Ready' : u \in Ready \/ (SomebodyWaits(l) /\ u = First(l))
  BY WokenIsReady
<1>2. yields \in BOOLEAN
  BY DEF WokeMoreUrgent
<1>3. ASSUME ~yields, NEW u \in Ready'
      PROVE  \/ uxPriority'[u] <= uxPriority'[t]
             \/ u \in Ready /\ uxPriority'[u] <= uxPriority[u] /\ uxPriority[t] <= uxPriority'[t]
  <2>1. uxPriority \in [Task -> Nat] /\ u \in Task
    BY PriorityTypes DEF PInv, Ready, In
  <2>2. u \notin Ready => ~(uxPriority[u] > uxPriority[t])
    BY <1>1, <1>3 DEF WokeMoreUrgent
  <2>. QED BY <2>1, <2>2
<1>4. YieldThenExit(t, yields, "run", top)
  OBVIOUS
<1>. HIDE DEF yields, top
<1>5. TopBound' /\ HighestPriorityRuns'
  BY <1>1, <1>2, <1>3, <1>4, SectionKeeps
<1>. QED BY <1>5 DEF Preempts

\* Without mutexes no priority changes hands.
LEMMA NothingGiven ==
    ASSUME NoMutex, QInv, NEW t \in Task, NEW q, GiveMutex(t, q)
    PROVE  UNCHANGED uxPriority /\ ~Disinherits(t, q)
<1>1. ~Disinherits(t, q)
  BY DEF NoMutex, Disinherits, Holds
<1>2. uxPriority \in [Task -> Priority]
  BY PriorityTypes DEF QInv
<1>. QED BY <1>1, <1>2 DEF GiveMutex

LEMMA SectionPreempts ==
    ASSUME NoMutex, QInv, QInv', Preempts, NEW t \in Task,
           SendItem(t) \/ ReceiveItem(t) \/ \E q \in Resettable : xQueueReset(t, q)
    PROVE  Preempts'
<1>1. PInv /\ IInv' /\ WaitersInv
  BY DEF Preempts, PInv, QInv
<1>2. CASE SendItem(t)
  <2>. DEFINE q == call[t].q
              l == xTasksWaitingToReceive[q]
  <2>1. /\ pc[t] = "run" /\ t = pxCurrentTCB /\ call[t].op = "send" /\ WakeOne(l)
        /\ GiveMutex(t, q)
        /\ YieldThenExit(t, YieldsForSend(t, q), "run",
                         TopWithFirst(l, IF Disinherits(t, q) THEN {t} ELSE {}, uxPriority'))
    BY <1>2 DEF SendItem, InCall, At
  <2>2. l \in ObjectLists
    <3>1. call[t] # NoCall
      BY <2>1 DEF NoCall
    <3>. QED BY <3>1, ItsCall, QueueAssumption
  <2>3. UNCHANGED uxPriority /\ ~Disinherits(t, q)
    BY <2>1, NothingGiven
  <2>4. YieldsForSend(t, q) = WokeMoreUrgent(l, uxPriority, t)
    <3>1. Disinherits(t, q) = FALSE
      BY <2>3 DEF Disinherits
    <3>2. CASE SomebodyWaits(l)
      BY <2>3, <3>2 DEF YieldsForSend, WokeMoreUrgent
    <3>3. CASE ~SomebodyWaits(l)
      BY <3>1, <3>3 DEF YieldsForSend, WokeMoreUrgent
    <3>. QED BY <3>2, <3>3
  <2>5. TopWithFirst(l, IF Disinherits(t, q) THEN {t} ELSE {}, uxPriority') =
            TopWithFirst(l, {}, uxPriority)
    BY <2>3
  <2>. HIDE DEF q, l
  <2>. QED BY <1>1, <2>1, <2>2, <2>3, <2>4, <2>5, WakingSection
<1>3. CASE ReceiveItem(t)
  <2>. DEFINE l == IF call[t].mode = "peek" THEN xTasksWaitingToReceive[call[t].q]
                   ELSE xTasksWaitingToSend[call[t].q]
  <2>1. /\ pc[t] = "run" /\ t = pxCurrentTCB /\ call[t].op = "receive" /\ WakeOne(l)
        /\ UNCHANGED uxPriority
        /\ YieldThenExit(t, WokeMoreUrgent(l, uxPriority, t), "run",
                         TopWithFirst(l, {}, uxPriority))
    BY <1>3 DEF ReceiveItem, InCall, At, priorityVars
  <2>2. l \in ObjectLists
    <3>1. call[t] # NoCall
      BY <2>1 DEF NoCall
    <3>. QED BY <3>1, ItsCall, QueueAssumption
  <2>. HIDE DEF l
  <2>. QED BY <1>1, <2>1, <2>2, WakingSection
<1>4. ASSUME NEW q \in Resettable, xQueueReset(t, q) PROVE Preempts'
  <2>. DEFINE l == xTasksWaitingToSend[q]
  <2>1. /\ pc[t] = "run" /\ t = pxCurrentTCB /\ WakeOne(l) /\ UNCHANGED uxPriority
        /\ YieldThenExit(t, WokeMoreUrgent(l, uxPriority, t), "run",
                         TopWithFirst(l, {}, uxPriority))
    BY <1>4 DEF xQueueReset, Calls, At, priorityVars
  <2>2. l \in ObjectLists
    BY QueueAssumption
  <2>. HIDE DEF l
  <2>. QED BY <1>1, <2>1, <2>2, WakingSection
<1>. QED BY <1>2, <1>3, <1>4

\* The end of a call from an interrupt.
LEMMA InterruptPreempts ==
    ASSUME QInv, QInv', Preempts, QueueInterrupt
    PROVE  Preempts'
<1>1. PInv /\ IInv' /\ WaitersInv
  BY DEF Preempts, PInv, QInv
<1>2. ASSUME NEW l \in ObjectLists, WakeOne(l), LeaveInterrupt(l),
             UNCHANGED <<uxPriority, pc, arg>>
      PROVE  Preempts'
  <2>. DEFINE top == TopWithFirst(l, {}, uxPriority)
  <2>1. /\ top \in Priority /\ \A u \in Ready' : uxPriority'[u] <= top
        /\ \A u \in Ready' : u \in Ready \/ (SomebodyWaits(l) /\ u = First(l))
    BY <1>1, <1>2, WokenIsReady
  <2>2. \/ vTaskSwitchContext(top)
        \/ xYieldPending' = TRUE /\ uxTopReadyPriority' = top
        \/ NoSwitch(top) /\ ~WokeMoreUrgent(l, uxPriority, pxCurrentTCB)
    BY <1>2 DEF LeaveInterrupt
  <2>. HIDE DEF top
  <2>3. CASE vTaskSwitchContext(top)
    BY <1>1, <2>1, <2>3, SwitchChooses DEF Preempts
  <2>4. CASE xYieldPending' = TRUE /\ uxTopReadyPriority' = top
    BY <2>1, <2>4 DEF Preempts, TopBound, HighestPriorityRuns
  <2>5. CASE NoSwitch(top) /\ ~WokeMoreUrgent(l, uxPriority, pxCurrentTCB)
    <3>1. /\ uxPriority \in [Task -> Nat] /\ pxCurrentTCB \in Task
          /\ \A u \in Ready' : u \in Task
      BY <1>1, PriorityTypes DEF PInv, Ready, In
    <3>2. \A u \in Ready' : u \in Ready \/ uxPriority'[u] <= uxPriority[pxCurrentTCB]
      BY <1>2, <2>1, <2>5, <3>1 DEF WokeMoreUrgent
    <3>. QED BY <1>1, <1>2, <2>1, <2>5, <3>2, NoSwitchKeeps DEF Preempts
  <2>. QED BY <2>2, <2>3, <2>4, <2>5
<1>3. ASSUME UNCHANGED <<uxPriority, pc, arg, switchVars, stateList>> PROVE Preempts'
  BY <1>1, <1>3, QuietKeeps DEF Preempts, Quiet
<1>4. ASSUME NEW q \in IsrSends, NEW position, NEW item, xQueueGenericSendFromISR(q, item, position)
      PROVE  Preempts'
  <2>1. xTasksWaitingToReceive[q] \in ObjectLists
    BY QueueAssumption
  <2>2. UNCHANGED <<uxPriority, pc, arg>>
    BY <1>4 DEF xQueueGenericSendFromISR, priorityVars, controlVars
  <2>3. \/ /\ WakeOne(xTasksWaitingToReceive[q])
           /\ LeaveInterrupt(xTasksWaitingToReceive[q])
        \/ UNCHANGED <<switchVars, stateList>>
    BY <1>4 DEF xQueueGenericSendFromISR
  <2>. QED BY <1>2, <1>3, <2>1, <2>2, <2>3
<1>5. ASSUME NEW q \in IsrReceives, xQueueReceiveFromISR(q) PROVE Preempts'
  <2>1. xTasksWaitingToSend[q] \in ObjectLists
    BY QueueAssumption
  <2>2. UNCHANGED <<uxPriority, pc, arg>>
    BY <1>5 DEF xQueueReceiveFromISR, priorityVars, controlVars
  <2>3. \/ /\ WakeOne(xTasksWaitingToSend[q]) /\ LeaveInterrupt(xTasksWaitingToSend[q])
        \/ UNCHANGED <<switchVars, stateList>>
    BY <1>5 DEF xQueueReceiveFromISR
  <2>. QED BY <1>2, <1>3, <2>1, <2>2, <2>3
<1>. QED BY <1>4, <1>5 DEF QueueInterrupt

\* prvUnlockQueue only adds to xPendingReadyList.
LEMMA UnlockPreempts ==
    ASSUME QInv, Preempts, NEW t \in Task, UnlockTx(t) \/ UnlockRx(t)
    PROVE  Preempts'
<1>1. /\ pc[t] \in LockedLabel /\ pc[t] \in QueueLabel /\ t = pxCurrentTCB
      /\ pc[t] # "createYield"
  BY QueueLabels DEF UnlockTx, UnlockRx, At, LockedLabel, QueueLabel
<1>2. uxSchedulerSuspended = 1
  BY <1>1, InLoop DEF CallOK
<1>3. \E n, l : WakeFirst(l, n)
  BY DEF UnlockTx, UnlockRx, Unlock
<1>4. UNCHANGED stateList
  BY <1>2, <1>3 DEF WakeFirst
<1>5. UNCHANGED <<pxCurrentTCB, uxTopReadyPriority, uxPriority>>
  BY DEF UnlockTx, UnlockRx, priorityVars
<1>6. xYieldPending => xYieldPending'
  BY DEF UnlockTx, UnlockRx, Unlock
<1>7. Ready' = Ready
  BY <1>4 DEF Ready, In
<1>. QED BY <1>1, <1>5, <1>6, <1>7 DEF Preempts, TopBound, HighestPriorityRuns

\* Every other step of a call makes nobody ready.
LEMMA LoopPreempts ==
    ASSUME NoMutex, QInv, Preempts, NEW t \in Task,
           \/ SendFailsOrWaits(t) \/ ReceiveFailsOrWaits(t) \/ ReturnExpired(t)
           \/ SuspendAllToWait(t) \/ prvLockQueue(t) \/ CheckForTimeOut(t) \/ TestQueue(t)
           \/ vTaskPriorityInherit(t) \/ vTaskPlaceOnEventList(t)
    PROVE  Preempts'
<1>1. PInv
  BY DEF Preempts, PInv, QInv
<1>2. /\ t = pxCurrentTCB /\ pc[t] \in {"run"} \union QueueLabel
      /\ pc[t] # "createYield"
  <2>1. t = pxCurrentTCB /\ pc[t] \in {"run"} \union QueueLabel
    BY DEF SendFailsOrWaits, ReceiveFailsOrWaits, ReturnExpired, SuspendAllToWait,
       prvLockQueue, CheckForTimeOut, TestQueue, vTaskPriorityInherit, vTaskPlaceOnEventList,
       InCall, At, QueueLabel
  <2>. QED BY <2>1, QueueLabels
<1>3. pc[t] # "inherit"
  BY InLoop DEF CallOK, NoMutex, QueueLabel
<1>4. CASE vTaskPlaceOnEventList(t)
  <2>1. /\ UNCHANGED <<switchVars, uxPriority>>
        /\ prvAddCurrentTaskToDelayedList(t, call[t].wait, TRUE)
    BY <1>4 DEF vTaskPlaceOnEventList, priorityVars
  <2>2. \A u \in Task : stateList'[u] = "ready" => stateList[u] = "ready"
    <3>1. stateList \in [Task -> StateList]
      BY ListTypes DEF QInv
    <3>. QED BY <2>1, <3>1 DEF prvAddCurrentTaskToDelayedList
  <2>. QED BY <1>1, <1>2, <2>1, <2>2, QuietKeeps DEF Preempts, Quiet
<1>5. CASE ~vTaskPlaceOnEventList(t)
  <2>1. UNCHANGED <<switchVars, uxPriority, stateList>>
    BY <1>3, <1>5 DEF SendFailsOrWaits, ReceiveFailsOrWaits, FailOrWait, ReturnExpired,
       SuspendAllToWait, prvLockQueue, CheckForTimeOut, TestQueue, vTaskPriorityInherit, At,
       priorityVars, listVars
  <2>. QED BY <1>1, <1>2, <2>1, QuietKeeps DEF Preempts, Quiet
<1>. QED BY <1>4, <1>5

LEMMA NextPreempts ==
    ASSUME NoMutex, QInv, Preempts, [QueueNext]_allVars
    PROVE  Preempts'
<1>1. QInv' /\ PInv
  BY NextQInv DEF QInv, Preempts, PInv
<1>2. CASE SchedulerStep \/ UNCHANGED allVars
  <2>1. [Next]_vars
    BY <1>2, SchedulerStepIsNext DEF allVars
  <2>. QED BY <1>1, <2>1, StepSchedules DEF PInv, Preempts
<1>3. CASE QueueInterrupt
  BY <1>1, <1>3, InterruptPreempts
<1>4. ASSUME NEW t \in Task, QueueCall(t) PROVE Preempts'
  <2>1. CASE \E q \in Resettable : xQueueReset(t, q)
    BY <1>1, <2>1, SectionPreempts
  <2>2. CASE ~ \E q \in Resettable : xQueueReset(t, q)
    <3>1. UNCHANGED vars
      BY <1>4, <2>2 DEF QueueCall, xQueueGenericSend, xQueueGenericReceive, Begin
    <3>. QED BY <1>1, <3>1, StepSchedules DEF PInv, Preempts
  <2>. QED BY <2>1, <2>2
<1>5. ASSUME NEW t \in Task, QueueContinue(t) PROVE Preempts'
  BY <1>1, <1>5, SectionPreempts, UnlockPreempts, LoopPreempts DEF QueueContinue
<1>. QED BY <1>2, <1>3, <1>4, <1>5 DEF QueueNext

(***************************************************************************)
(* The types of queues and scheduler hold, and a task that a send, a       *)
(* receive, a reset or an interrupt makes ready and that is more urgent    *)
(* than the running one does not go unnoticed, whatever calls, time-outs   *)
(* and ticks come in between.  For queues and semaphores: with mutexes the *)
(* second part is false (README, section 7).                               *)
(***************************************************************************)
THEOREM QueuesStaySound ==
    ASSUME NoMutex, CountsFit
    PROVE  QueueSpec => []QueueIsSound
<1>1. QueueInit => Preempts
  BY StartSchedules DEF QueueInit, PInv, Preempts
<1>2. QInv /\ Preempts /\ [QueueNext]_allVars => Preempts'
  BY NextPreempts
<1>3. QInv /\ WakeInv /\ HoldersInv /\ Preempts => QueueIsSound
  BY TypesFollow DEF WakeInv, Preempts, QueueIsSound
<1>4. QueueSpec => []WakeInv
  BY AlwaysWake
<1>. QED BY <1>1, <1>2, <1>3, <1>4, AlwaysHolders, AlwaysQInv, PTL DEF QueueSpec
---------------------------------------------------------------------------
(* The holder of a mutex is as urgent as those that wait for it *)

\* Mutex q is used by the tasks A[q] and B[q] only.
SharedByTwo(A, B) ==
    \A t \in Task :
        call[t] # NoCall /\ call[t].q \in Mutex => t \in {A[call[t].q], B[call[t].q]}

\* Nobody is in the event list of one mutex while he holds another.
WaitsWithEmptyHands ==
    \A q, r \in Mutex, t \in Task :
        eventList[t] = xTasksWaitingToReceive[q] /\ pxMutexHolder[r] = t => r = q

Covered(q, t) ==
    pxMutexHolder[q] # "NULL" /\ uxPriority[pxMutexHolder[q]] >= uxPriority[t]

\* A mutex that nobody holds has an empty event list, so whoever takes one finds nobody there:
\* he gave it up to the only other user.  A task on its way into the list has seen the mutex
\* taken, with the scheduler suspended, and has raised its holder.
UrgentInv(A, B) ==
    \A q \in Mutex :
        /\ pxMutexHolder[q] # "NULL" => pxMutexHolder[q] \in {A[q], B[q]}
        /\ \A t \in Task :
               /\ eventList[t] = xTasksWaitingToReceive[q] => Covered(q, t)
               /\ call[t].op = "receive" /\ call[t].q = q =>
                      /\ pc[t] = "inherit" => pxMutexHolder[q] # "NULL"
                      /\ pc[t] = "place" => Covered(q, t)

LEMMA ReceiveList ==
    ASSUME NEW q \in Mutex
    PROVE  /\ q \in Queue /\ ListFor(q, "receive") = xTasksWaitingToReceive[q]
           /\ xTasksWaitingToReceive[q] \in ObjectLists
           /\ xTasksWaitingToReceive[q] \notin {"none", "pending"}
           /\ \A r \in Queue, o \in Op :
                  ListFor(r, o) = xTasksWaitingToReceive[q] => r = q /\ o = "receive"
<1>1. q \in Queue /\ "receive" \in Op /\ ListFor(q, "receive") = xTasksWaitingToReceive[q]
  BY QueueAssumption DEF Op, ListFor
<1>. QED BY <1>1, ListsApart

\* A step that moves no mutex and no priority, and nobody towards a list.
LEMMA QuietUrgent ==
    ASSUME NEW A, NEW B, UrgentInv(A, B), UNCHANGED <<pxMutexHolder, uxPriority>>,
           \A x \in Task : eventList'[x] \in {eventList[x], "none", "pending"},
           \A x \in Task : pc'[x] \in {"inherit", "place"} =>
                               pc'[x] = pc[x] /\ call'[x] = call[x]
    PROVE  UrgentInv(A, B)'
<1>1. ASSUME NEW q \in Mutex, NEW t \in Task, eventList'[t] = xTasksWaitingToReceive[q]
      PROVE  eventList[t] = xTasksWaitingToReceive[q]
  BY <1>1, ReceiveList
<1>2. ASSUME NEW q \in Mutex, NEW t \in Task PROVE Covered(q, t)' = Covered(q, t)
  BY DEF Covered
<1>. QED BY <1>1, <1>2 DEF UrgentInv

\* The running task has the loop, from prvLockQueue on, for itself.
LEMMA AloneInLoop ==
    ASSUME QInv, NEW x \in Task, pc[x] \in QueueLabel \ {"suspendAll"}
    PROVE  x = pxCurrentTCB
<1>1. CallOK(x) /\ pc[x] \in LockedLabel
  BY InLoop DEF LockedLabel
<1>. QED BY <1>1 DEF CallOK

\* A waiter is in a receive call for the mutex.
LEMMA WaiterReceives ==
    ASSUME QInv, WakeInv, NEW q \in Mutex, NEW x \in Task,
           eventList[x] = xTasksWaitingToReceive[q]
    PROVE  call[x] # NoCall /\ call[x].op = "receive" /\ call[x].q = q
<1>1. call[x] # NoCall /\ ListFor(call[x].q, call[x].op) = xTasksWaitingToReceive[q]
  BY ReceiveList DEF WakeInv, WaiterOK
<1>2. call[x].q \in Queue /\ call[x].op \in Op
  BY <1>1, ItsCall, OpIs
<1>. QED BY <1>1, <1>2, ReceiveList

\* The giver is the one user and the only waiter the other, who is woken.
LEMMA GiveUrgent ==
    ASSUME QInv, HoldersInv, WakeInv, NEW A, NEW B, UrgentInv(A, B), SharedByTwo(A, B),
           NEW t \in Task, SendItem(t)
    PROVE  UrgentInv(A, B)'
<1>. DEFINE q == call[t].q
            l == xTasksWaitingToReceive[q]
            yields == YieldsForSend(t, q)
            top == TopWithFirst(l, IF Disinherits(t, q) THEN {t} ELSE {}, uxPriority')
<1>1. /\ t = pxCurrentTCB /\ pc[t] = "run" /\ call[t] # NoCall /\ call[t].op = "send"
      /\ GiveMutex(t, q) /\ WakeOne(l) /\ Return(t)
  BY DEF SendItem, InCall, At, NoCall
<1>2. YieldThenExit(t, yields, "run", top)
  BY DEF SendItem
<1>. HIDE DEF yields, top
<1>3. /\ q \in Queue /\ l \in ObjectLists /\ WaitersInv /\ pc \in [Task -> Label]
      /\ pxMutexHolder \in [Mutex -> Task \union {"NULL"}] /\ "NULL" \notin Task
      /\ uxMutexesHeld \in [Task -> Int] /\ Mutex \subseteq Queue
  BY <1>1, ItsCall, QueueAssumption DEF QInv, QueueTypes
<1>4. \A x \in Task : pc'[x] \notin {"inherit", "place"}
  <2>1. pc'[t] \in {"run", "exit"} /\ \A x \in Task \ {t} : pc'[x] = pc[x]
    BY <1>2, <1>3 DEF YieldThenExit, Goto
  <2>2. {"inherit", "place"} \subseteq QueueLabel \ {"suspendAll"}
    BY DEF QueueLabel
  <2>. QED BY <1>1, <2>1, <2>2, AloneInLoop
<1>5. \A x \in Task : eventList'[x] \in {eventList[x], "none", "pending"}
  BY <1>3, <1>1, WakeOneIs
<1>. HIDE DEF q, l
<1>6. CASE q \notin Mutex
  <2>1. ~Disinherits(t, q) /\ PriorityTypeOK
    BY <1>6 DEF Disinherits, Holds, QInv, IInv, TypeOK
  <2>2. UNCHANGED <<pxMutexHolder, uxPriority>>
    BY <1>1, <1>6, <2>1 DEF GiveMutex, PriorityTypeOK
  <2>. QED BY <1>4, <1>5, <2>2, QuietUrgent
<1>7. CASE q \in Mutex
  <2>1. pxMutexHolder[q] = t /\ t \in {A[q], B[q]}
    BY <1>1, <1>7 DEF HoldersInv, SharedByTwo, q
  <2>2. /\ pxMutexHolder'[q] = "NULL"
        /\ \A r \in Mutex \ {q} : pxMutexHolder'[r] = pxMutexHolder[r]
    BY <1>1, <1>3, <1>7 DEF GiveMutex
  <2>3. ASSUME NEW x \in Task, eventList[x] = l
        PROVE  x \in {A[q], B[q]} \ {t}
    <3>1. call[x] # NoCall /\ call[x].op = "receive" /\ call[x].q = q
      BY <1>7, <2>3, WaiterReceives DEF l
    <3>. QED BY <1>1, <1>7, <3>1 DEF SharedByTwo
  <2>4. ASSUME NEW x \in Task, eventList'[x] = l PROVE FALSE
    <3>1. eventList[x] = l /\ l \notin {"none", "pending"}
      BY <1>5, <1>7, <2>4, ReceiveList DEF l
    <3>2. /\ First(l) \in Task /\ eventList[First(l)] = l
          /\ eventList'[First(l)] \in {"none", "pending"}
      BY <1>1, <1>3, <3>1, WakeOneIs
    <3>3. x = First(l)
      BY <2>1, <2>3, <3>1, <3>2
    <3>. QED BY <2>4, <3>1, <3>2, <3>3
  <2>5. ASSUME NEW r \in Mutex, r # q, NEW x \in Task,
               eventList'[x] = xTasksWaitingToReceive[r]
        PROVE  Covered(r, x)'
    <3>1. eventList[x] = xTasksWaitingToReceive[r]
      BY <1>5, <2>5, ReceiveList
    <3>2. Covered(r, x) /\ call[x].op = "receive"
      BY <3>1, WaiterReceives DEF UrgentInv
    <3>. DEFINE h == pxMutexHolder[r]
    <3>3. h \in Task /\ pxMutexHolder'[r] = h /\ h # "NULL"
      BY <1>3, <2>2, <2>5, <3>2 DEF Covered
    <3>4. x # t
      BY <1>1, <3>2
    <3>5. uxPriority'[x] = uxPriority[x]
      BY <1>1, <3>4 DEF GiveMutex
    <3>6. CASE h # t
      <4>1. uxPriority'[h] = uxPriority[h]
        BY <1>1, <3>3, <3>6 DEF GiveMutex
      <4>. QED BY <3>2, <3>3, <3>5, <4>1 DEF Covered
    <3>7. CASE h = t
      <4>1. q \in Held(t) /\ r \in Held(t)
        BY <1>7, <2>1, <3>7 DEF Held
      <4>2. Cardinality(Held(t)) # 1
        <5>. SUFFICES ASSUME Cardinality(Held(t)) = 1 PROVE FALSE
          OBVIOUS
        <5>1. PICK z : Held(t) = {z}
          BY HeldIsFinite, FS_Singleton
        <5>. QED BY <2>5, <4>1, <5>1
      <4>3. ~Disinherits(t, q)
        BY <4>2 DEF Disinherits, HoldersInv
      <4>4. uxPriority'[h] = uxPriority[h]
        BY <1>1, <3>3, <4>3 DEF GiveMutex
      <4>. QED BY <3>2, <3>3, <3>5, <4>4 DEF Covered
    <3>. QED BY <3>6, <3>7
  <2>6. ASSUME NEW r \in Mutex, pxMutexHolder'[r] # "NULL"
        PROVE  pxMutexHolder'[r] \in {A[r], B[r]}
    BY <2>2, <2>6 DEF UrgentInv
  <2>7. ASSUME NEW r \in Mutex, NEW x \in Task, eventList'[x] = xTasksWaitingToReceive[r]
        PROVE  Covered(r, x)'
    BY <2>4, <2>5, <2>7 DEF l
  <2>. QED BY <1>4, <2>6, <2>7 DEF UrgentInv
<1>. QED BY <1>6, <1>7

\* Who takes a mutex finds nobody in its list.
LEMMA TakeUrgent ==
    ASSUME QInv, HoldersInv, WakeInv, NEW A, NEW B, UrgentInv(A, B), SharedByTwo(A, B),
           NEW t \in Task, ReceiveItem(t)
    PROVE  UrgentInv(A, B)'
<1>. DEFINE q == call[t].q
            mode == call[t].mode
            l == IF mode = "peek" THEN xTasksWaitingToReceive[q] ELSE xTasksWaitingToSend[q]
            yields == WokeMoreUrgent(l, uxPriority, t)
            top == TopWithFirst(l, {}, uxPriority)
<1>1. /\ t = pxCurrentTCB /\ pc[t] = "run" /\ call[t] # NoCall /\ uxMessagesWaiting[q] > 0
      /\ TakeMutex(t, q, mode) /\ WakeOne(l) /\ UNCHANGED uxPriority
  BY DEF ReceiveItem, InCall, At, NoCall, priorityVars
<1>2. YieldThenExit(t, yields, "run", top)
  BY DEF ReceiveItem
<1>. HIDE DEF yields, top
<1>3. /\ q \in Queue /\ l \in ObjectLists /\ WaitersInv /\ pc \in [Task -> Label]
      /\ pxMutexHolder \in [Mutex -> Task \union {"NULL"}]
  BY <1>1, ItsCall, QueueAssumption DEF QInv, QueueTypes
<1>4. \A x \in Task : pc'[x] \notin {"inherit", "place"}
  <2>1. pc'[t] \in {"run", "exit"} /\ \A x \in Task \ {t} : pc'[x] = pc[x]
    BY <1>2, <1>3 DEF YieldThenExit, Goto
  <2>2. {"inherit", "place"} \subseteq QueueLabel \ {"suspendAll"}
    BY DEF QueueLabel
  <2>. QED BY <1>1, <2>1, <2>2, AloneInLoop
<1>5. \A x \in Task : eventList'[x] \in {eventList[x], "none", "pending"}
  BY <1>1, <1>3, WakeOneIs
<1>. HIDE DEF q, l, mode
<1>6. CASE ~(q \in Mutex /\ mode = "receive")
  <2>1. UNCHANGED <<pxMutexHolder, uxPriority>>
    BY <1>1, <1>6 DEF TakeMutex, mutexVars
  <2>. QED BY <1>4, <1>5, <2>1, QuietUrgent
<1>7. CASE q \in Mutex /\ mode = "receive"
  <2>1. pxMutexHolder[q] = "NULL" /\ t \in {A[q], B[q]}
    BY <1>1, <1>7 DEF HoldersInv, SharedByTwo, q
  <2>2. /\ pxMutexHolder'[q] = t
        /\ \A r \in Mutex \ {q} : pxMutexHolder'[r] = pxMutexHolder[r]
    BY <1>1, <1>3, <1>7 DEF TakeMutex
  <2>3. ASSUME NEW r \in Mutex, NEW x \in Task, eventList'[x] = xTasksWaitingToReceive[r]
        PROVE  Covered(r, x)'
    <3>1. Covered(r, x)
      BY <1>5, <2>3, ReceiveList DEF UrgentInv
    <3>2. r # q
      BY <2>1, <3>1 DEF Covered
    <3>. QED BY <1>1, <2>2, <3>1, <3>2 DEF Covered
  <2>4. ASSUME NEW r \in Mutex, pxMutexHolder'[r] # "NULL"
        PROVE  pxMutexHolder'[r] \in {A[r], B[r]}
    BY <2>1, <2>2, <2>4 DEF UrgentInv
  <2>. QED BY <1>4, <2>3, <2>4 DEF UrgentInv
<1>. QED BY <1>6, <1>7

\* Who waits for a mutex raises its holder, who waits for no other.
LEMMA InheritUrgent ==
    ASSUME QInv, HoldersInv, NEW A, NEW B, UrgentInv(A, B), WaitsWithEmptyHands,
           NEW t \in Task, vTaskPriorityInherit(t)
    PROVE  UrgentInv(A, B)'
<1>. DEFINE q == call[t].q
            h == pxMutexHolder[q]
<1>1. /\ t = pxCurrentTCB /\ pc[t] = "inherit" /\ Goto(t, "place")
      /\ uxPriority' = Inherited(t, q)
      /\ UNCHANGED <<pxMutexHolder, eventList, call>>
  BY DEF vTaskPriorityInherit, At, mutexVars, listVars
<1>2. /\ q \in Mutex /\ h \in Task \union {"NULL"} /\ pc \in [Task -> Label]
      /\ uxPriority \in [Task -> Nat] /\ "NULL" \notin Task
      /\ pxMutexHolder \in [Mutex -> Task \union {"NULL"}]
  <2>1. q \in Mutex
    BY <1>1, InLoop DEF CallOK, QueueLabel
  <2>2. uxPriority \in [Task -> Priority] /\ Priority \subseteq Nat
    BY TasksAssumption DEF QInv, IInv, TypeOK, PriorityTypeOK, Priority
  <2>. QED BY <2>1, <2>2, ListTypes, QueueAssumption DEF QInv, QueueTypes
<1>3. pc'[t] = "place" /\ \A x \in Task \ {t} : pc'[x] = pc[x]
  BY <1>1, <1>2 DEF Goto
<1>4. \A x \in Task \ {t} : pc'[x] \notin {"inherit", "place"}
  <2>1. {"inherit", "place"} \subseteq QueueLabel \ {"suspendAll"}
    BY DEF QueueLabel
  <2>. QED BY <1>1, <1>3, <2>1, AloneInLoop
<1>. HIDE DEF q, h
<1>5. /\ \A x \in Task : uxPriority'[x] >= uxPriority[x] /\ uxPriority'[x] \in Nat
      /\ \A x \in Task : uxPriority'[x] # uxPriority[x] => x = h
      /\ h # "NULL" => uxPriority'[h] >= uxPriority'[t]
  BY <1>1, <1>2 DEF Inherited, h
<1>6. ASSUME NEW r \in Mutex, NEW x \in Task, eventList[x] = xTasksWaitingToReceive[r]
      PROVE  Covered(r, x)'
  <2>1. Covered(r, x) /\ pxMutexHolder[r] \in Task
    BY <1>2, <1>6 DEF UrgentInv, Covered
  <2>2. CASE uxPriority'[x] = uxPriority[x]
    BY <1>1, <1>2, <1>5, <2>1, <2>2 DEF Covered
  <2>3. CASE uxPriority'[x] # uxPriority[x]
    <3>1. pxMutexHolder[q] = x
      BY <1>5, <2>3 DEF h
    <3>2. r = q
      BY <1>2, <1>6, <3>1 DEF WaitsWithEmptyHands
    <3>. QED BY <1>1, <1>5, <2>1, <3>1, <3>2 DEF Covered
  <2>. QED BY <2>2, <2>3
<1>7. ASSUME NEW r \in Mutex, call[t].op = "receive", call[t].q = r
      PROVE  Covered(r, t)'
  <2>1. r = q /\ h # "NULL"
    BY <1>1, <1>7 DEF UrgentInv, q, h
  <2>. QED BY <1>1, <1>5, <2>1 DEF Covered, h
<1>. QED BY <1>1, <1>3, <1>4, <1>6, <1>7 DEF UrgentInv

\* A task that joins the list has raised the holder.
LEMMA PlaceUrgent ==
    ASSUME QInv, NEW A, NEW B, UrgentInv(A, B), NEW t \in Task, vTaskPlaceOnEventList(t)
    PROVE  UrgentInv(A, B)'
<1>1. /\ t = pxCurrentTCB /\ pc[t] = "place" /\ Goto(t, "unlockTx") /\ pc[t] \in QueueLabel
      /\ eventList' = [eventList EXCEPT ![t] = ListFor(call[t].q, call[t].op)]
      /\ UNCHANGED <<pxMutexHolder, uxPriority, call>>
  BY TryingIs DEF vTaskPlaceOnEventList, At, ListOf, ListFor, mutexVars, priorityVars
<1>2. /\ call[t].q \in Queue /\ call[t].op \in Op /\ pc \in [Task -> Label]
      /\ eventList \in [Task -> EventList]
  BY <1>1, InLoop, ItsCall, OpIs, ListTypes DEF QInv
<1>3. \A x \in Task : pc'[x] \notin {"inherit", "place"}
  <2>1. {"inherit", "place"} \subseteq QueueLabel \ {"suspendAll"}
    BY DEF QueueLabel
  <2>. QED BY <1>1, <1>2, <2>1, AloneInLoop DEF Goto
<1>4. ASSUME NEW q \in Mutex, NEW x \in Task, eventList'[x] = xTasksWaitingToReceive[q]
      PROVE  Covered(q, x)'
  <2>1. Covered(q, x)
    <3>1. CASE x # t
      BY <1>1, <1>2, <1>4, <3>1 DEF UrgentInv
    <3>2. CASE x = t
      <4>1. call[t].q = q /\ call[t].op = "receive"
        BY <1>1, <1>2, <1>4, <3>2, ReceiveList
      <4>. QED BY <1>1, <3>2, <4>1 DEF UrgentInv
    <3>. QED BY <3>1, <3>2
  <2>. QED BY <1>1, <2>1 DEF Covered
<1>. QED BY <1>1, <1>3, <1>4 DEF UrgentInv

\* Every other step of the loop moves no mutex, no priority, and nobody towards a list but for
\* TestQueue, which finds the mutex taken.
LEMMA LoopUrgent ==
    ASSUME QInv, HoldersInv, NEW A, NEW B, UrgentInv(A, B), NEW t \in Task,
           \/ SendFailsOrWaits(t) \/ ReceiveFailsOrWaits(t) \/ ReturnExpired(t)
           \/ SuspendAllToWait(t) \/ prvLockQueue(t) \/ CheckForTimeOut(t) \/ TestQueue(t)
           \/ UnlockTx(t) \/ UnlockRx(t)
    PROVE  UrgentInv(A, B)'
<1>1. t = pxCurrentTCB /\ pc \in [Task -> Label] /\ call \in [Task -> CallType]
      /\ UNCHANGED <<pxMutexHolder, uxPriority>>
  BY ListTypes DEF SendFailsOrWaits, ReceiveFailsOrWaits, ReturnExpired, SuspendAllToWait,
     prvLockQueue, CheckForTimeOut, TestQueue, UnlockTx, UnlockRx, FailOrWait, InCall, At,
     queueVars, mutexVars, priorityVars, QInv, QueueTypes
<1>2. ASSUME \/ SendFailsOrWaits(t) \/ ReceiveFailsOrWaits(t) \/ ReturnExpired(t)
             \/ SuspendAllToWait(t) \/ prvLockQueue(t) \/ CheckForTimeOut(t)
             \/ UnlockTx(t) \/ UnlockRx(t)
      PROVE  UrgentInv(A, B)'
  <2>1. \A x \in Task : eventList'[x] \in {eventList[x], "none", "pending"}
    <3>1. CASE UnlockTx(t) \/ UnlockRx(t)
      <4>1. PICK l, n : WakeFirst(l, n)
        BY <3>1 DEF UnlockTx, UnlockRx, Unlock
      <4>. DEFINE woken == {waiters[l][i] : i \in 1 .. n}
      <4>2. \/ eventList' = [x \in Task |-> IF x \in woken THEN "none" ELSE eventList[x]]
            \/ eventList' = [x \in Task |-> IF x \in woken THEN "pending" ELSE eventList[x]]
        BY <4>1 DEF WakeFirst
      <4>. HIDE DEF woken
      <4>. QED BY <4>2
    <3>2. CASE ~(UnlockTx(t) \/ UnlockRx(t))
      <4>1. UNCHANGED eventList
        BY <1>2, <3>2 DEF SendFailsOrWaits, ReceiveFailsOrWaits, ReturnExpired,
           SuspendAllToWait, prvLockQueue, CheckForTimeOut, FailOrWait, listVars
      <4>. QED BY <4>1
    <3>. QED BY <3>1, <3>2
  <2>2. /\ \A x \in Task \ {t} : pc'[x] = pc[x]
        /\ pc'[t] \in {pc[t], "suspendAll", "lockQueue", "check", "test", "unlockTx", "unlockRx",
                       "resumeAll"}
    BY <1>1, <1>2 DEF SendFailsOrWaits, ReceiveFailsOrWaits, ReturnExpired, SuspendAllToWait,
       prvLockQueue, CheckForTimeOut, UnlockTx, UnlockRx, FailOrWait, Goto, controlVars
  <2>3. pc[t] \notin {"inherit", "place"}
    BY <1>2 DEF SendFailsOrWaits, ReceiveFailsOrWaits, ReturnExpired, SuspendAllToWait,
       prvLockQueue, CheckForTimeOut, UnlockTx, UnlockRx, InCall, At
  <2>4. \A x \in Task : pc'[x] \in {"inherit", "place"} => x # t /\ pc'[x] = pc[x]
    BY <2>2, <2>3
  <2>5. \A x \in Task \ {t} : call'[x] = call[x]
    BY <1>1, <1>2 DEF SendFailsOrWaits, ReceiveFailsOrWaits, ReturnExpired, SuspendAllToWait,
       prvLockQueue, CheckForTimeOut, UnlockTx, UnlockRx, FailOrWait, Return, queueVars
  <2>. QED BY <1>1, <2>1, <2>4, <2>5, QuietUrgent
<1>3. CASE TestQueue(t)
  <2>1. /\ pc[t] = "test" /\ UNCHANGED <<eventList, call>>
    BY <1>3 DEF TestQueue, At, listVars, queueVars
  <2>2. /\ \A x \in Task \ {t} : pc'[x] = pc[x]
        /\ pc'[t] = "inherit" =>
               call[t].op = "send" \/ uxMessagesWaiting[call[t].q] = 0
        /\ pc'[t] = "place" => call[t].q \notin Mutex
    BY <1>1, <1>3 DEF TestQueue, Goto
  <2>3. \A q \in Mutex, x \in Task : Covered(q, x)' = Covered(q, x)
    BY <1>1 DEF Covered
  <2>4. ASSUME NEW q \in Mutex, NEW x \in Task, call[x].op = "receive", call[x].q = q
        PROVE  /\ pc'[x] = "inherit" => pxMutexHolder[q] # "NULL"
               /\ pc'[x] = "place" => Covered(q, x)
    <3>1. CASE x = t
      BY <2>2, <2>4, <3>1 DEF HoldersInv
    <3>2. CASE x # t
      BY <2>2, <2>4, <3>2 DEF UrgentInv
    <3>. QED BY <3>1, <3>2
  <2>. QED BY <1>1, <2>1, <2>3, <2>4 DEF UrgentInv
<1>. QED BY <1>2, <1>3

\* Only vTaskPrioritySet, of the scheduler's calls, changes a priority.
LEMMA PrioritiesStay ==
    ASSUME Next, NewPriorities = {}
    PROVE  UNCHANGED uxPriority
<1>1. CASE Interrupt
  BY <1>1 DEF Interrupt, TimerTick, TimerTickPended, NotifyFromISR, xTaskResumeFromISR,
     priorityVars
<1>2. ASSUME NEW t \in Task, Continue(t) \/ Yield(t) PROVE UNCHANGED uxPriority
  BY <1>2 DEF Continue, ExitCritical, MovePendingReady, ReplayTick, FinishResumeAll,
     DelayCurrent, DelayCurrentUntil, ResetUnblockTime, CreateYield, IdleReap,
     TakeNotification, FinishNotifyWait, Yield, priorityVars
<1>3. ASSUME NEW t \in Task, Call(t) PROVE UNCHANGED uxPriority
  BY <1>3 DEF Call, UserEnterCritical, UserExitCritical, vTaskSuspendAll, UserResumeAll,
     vTaskDelay, vTaskDelayUntil, vTaskSuspend, vTaskResume, xTaskCreate, vTaskDelete,
     IdleCheckTermination, ulTaskNotifyTake, xTaskNotifyWait, xTaskGenericNotify,
     xTaskNotifyStateClear, priorityVars
<1>. QED BY <1>1, <1>2, <1>3 DEF Next

\* A step of the scheduler, with priorities that the application does not change.
LEMMA SchedulerUrgent ==
    ASSUME QInv, NewPriorities = {}, NEW A, NEW B, UrgentInv(A, B), SchedulerStep
    PROVE  UrgentInv(A, B)'
<1>1. IInv /\ Next /\ UNCHANGED <<call, pxMutexHolder>>
  BY SchedulerStepIsNext DEF QInv, KeepQueues, mutexVars
<1>2. \A x \in Task : eventList'[x] \in {eventList[x], "none", "pending"}
  BY <1>1, NobodyEnters
<1>3. ASSUME NEW x \in Task, pc'[x] \in QueueLabel PROVE pc'[x] = pc[x]
  <2>1. pc'[x] \in ObjectLabels
    BY <1>3, QueueLabels
  <2>2. CASE Interrupt
    BY <1>1, <2>2, InterruptStep
  <2>3. ASSUME NEW t \in Task, Continue(t) \/ Yield(t) \/ Call(t) PROVE pc'[x] = pc[x]
    <3>1. OneCall(t) /\ (\A u \in Task \ {t} : pc'[u] = pc[u])
          /\ (pc'[t] \notin ObjectLabels \/ pc'[t] = after[t])
      BY <1>1, <2>3, TaskStep DEF QInv, QueueCalls
    <3>. QED BY <2>1, <3>1 DEF OneCall
  <2>. QED BY <2>2, <2>3 DEF SchedulerStep
<1>4. UNCHANGED uxPriority
  BY <1>1, PrioritiesStay
<1>5. \A x \in Task : pc'[x] \in {"inherit", "place"} => pc'[x] = pc[x] /\ call'[x] = call[x]
  BY <1>1, <1>3 DEF QueueLabel
<1>. QED BY <1>1, <1>2, <1>4, <1>5, QuietUrgent

LEMMA NextUrgent ==
    ASSUME NewPriorities = {}, NEW A, NEW B
    PROVE  /\ QInv /\ HoldersInv /\ WakeInv
           /\ SharedByTwo(A, B) /\ WaitsWithEmptyHands
           /\ UrgentInv(A, B) /\ [QueueNext]_allVars
           => UrgentInv(A, B)'
<1>. SUFFICES ASSUME QInv, HoldersInv, WakeInv, SharedByTwo(A, B), WaitsWithEmptyHands,
                     UrgentInv(A, B), [QueueNext]_allVars
              PROVE  UrgentInv(A, B)'
  OBVIOUS
<1>1. CASE UNCHANGED allVars
  <2>1. UNCHANGED <<call, pc, eventList, pxMutexHolder, uxPriority>>
    BY <1>1 DEF allVars, vars, queueVars, listVars, controlVars, mutexVars, priorityVars
  <2>. QED BY <2>1, QuietUrgent
<1>2. CASE SchedulerStep
  BY <1>2, SchedulerUrgent
<1>3. CASE QueueInterrupt
  <2>1. UNCHANGED <<call, pc, pxMutexHolder, uxPriority>>
    BY <1>3 DEF QueueInterrupt, xQueueGenericSendFromISR, xQueueReceiveFromISR, controlVars,
       mutexVars, priorityVars
  <2>2. \/ UNCHANGED eventList
        \/ \E q \in Queue, o \in Op : WakeOne(ListFor(q, o))
    <3>1. ASSUME NEW q \in IsrSends, NEW position, NEW item,
                 xQueueGenericSendFromISR(q, item, position)
          PROVE  UNCHANGED eventList \/ WakeOne(ListFor(q, "receive"))
      BY <3>1 DEF xQueueGenericSendFromISR, ListFor
    <3>2. ASSUME NEW q \in IsrReceives, xQueueReceiveFromISR(q)
          PROVE  UNCHANGED eventList \/ WakeOne(ListFor(q, "send"))
      BY <3>2 DEF xQueueReceiveFromISR, ListFor
    <3>3. IsrSends \subseteq Queue /\ IsrReceives \subseteq Queue /\ Op = {"send", "receive"}
      BY QueueAssumption DEF Op
    <3>. QED BY <1>3, <3>1, <3>2, <3>3 DEF QueueInterrupt
  <2>3. \A x \in Task : eventList'[x] \in {eventList[x], "none", "pending"}
    BY <2>2, ListsApart, WakeOneIs DEF QInv
  <2>. QED BY <2>1, <2>3, QuietUrgent
<1>4. ASSUME NEW t \in Task, QueueCall(t) PROVE UrgentInv(A, B)'
  <2>1. ASSUME NEW args, NEW n, Begin(t, args, n) PROVE UrgentInv(A, B)'
    <3>1. /\ pc[t] = "run" /\ call' = [call EXCEPT ![t] = args]
          /\ UNCHANGED <<pc, eventList, pxMutexHolder, uxPriority>>
          /\ call \in [Task -> CallType]
      BY <2>1 DEF Begin, Calls, At, vars, listVars, controlVars, mutexVars, priorityVars,
         QInv, QueueTypes
    <3>2. \A x \in Task \ {t} : call'[x] = call[x]
      BY <3>1
    <3>. QED BY <3>1, <3>2, QuietUrgent
  <2>2. ASSUME NEW q \in Queue, NEW position, NEW n \in SendWaits, NEW item,
               xQueueGenericSend(t, q, item, position, n)
        PROVE  UrgentInv(A, B)'
    BY <2>1, <2>2 DEF xQueueGenericSend
  <2>3. ASSUME NEW q \in Queue, NEW mode, NEW n \in ReceiveWaits,
               xQueueGenericReceive(t, q, mode, n)
        PROVE  UrgentInv(A, B)'
    BY <2>1, <2>3 DEF xQueueGenericReceive
  <2>4. ASSUME NEW q \in Resettable, xQueueReset(t, q) PROVE UrgentInv(A, B)'
    <3>. DEFINE yields == WokeMoreUrgent(xTasksWaitingToSend[q], uxPriority, t)
                top == TopWithFirst(xTasksWaitingToSend[q], {}, uxPriority)
    <3>1. /\ WakeOne(ListFor(q, "send")) /\ pc[t] = "run"
          /\ UNCHANGED <<call, pxMutexHolder, uxPriority>>
      BY <2>4 DEF xQueueReset, ListFor, Calls, At, mutexVars, priorityVars
    <3>2. YieldThenExit(t, yields, "run", top)
      BY <2>4 DEF xQueueReset
    <3>. HIDE DEF yields, top
    <3>3. q \in Queue /\ "send" \in Op
      BY QueueAssumption DEF Op
    <3>4. \A x \in Task : eventList'[x] \in {eventList[x], "none", "pending"}
      BY <3>1, <3>3, ListsApart, WakeOneIs DEF QInv
    <3>5. pc \in [Task -> Label]
      BY ListTypes DEF QInv
    <3>6. \A x \in Task : pc'[x] \in {"inherit", "place"} => pc'[x] = pc[x]
      BY <3>2, <3>5 DEF YieldThenExit, Goto
    <3>. QED BY <3>1, <3>4, <3>6, QuietUrgent
  <2>. QED BY <1>4, <2>2, <2>3, <2>4 DEF QueueCall
<1>5. ASSUME NEW t \in Task, QueueContinue(t) PROVE UrgentInv(A, B)'
  <2>1. CASE SendItem(t) \/ ReceiveItem(t) \/ vTaskPriorityInherit(t) \/ vTaskPlaceOnEventList(t)
    BY <2>1, GiveUrgent, TakeUrgent, InheritUrgent, PlaceUrgent
  <2>2. CASE ~(SendItem(t) \/ ReceiveItem(t) \/ vTaskPriorityInherit(t)
               \/ vTaskPlaceOnEventList(t))
    BY <1>5, <2>2, LoopUrgent DEF QueueContinue
  <2>. QED BY <2>1, <2>2
<1>. QED BY <1>1, <1>2, <1>3, <1>4, <1>5 DEF QueueNext

LEMMA InitUrgent ==
    ASSUME QueueInit, NEW A, NEW B
    PROVE  UrgentInv(A, B)
<1>1. /\ \A q \in Mutex : pxMutexHolder[q] = "NULL"
      /\ \A t \in Task : eventList[t] = "none" /\ call[t] = NoCall /\ pc[t] = "run"
  BY DEF QueueInit, Init
<1>. QED BY <1>1, ReceiveList DEF UrgentInv

(***************************************************************************)
(* No priority inversion over a mutex that two tasks share: whoever is in  *)
(* its event list waits for a holder at least as urgent as himself,        *)
(* however the two take, give, time out, try again and are suspended or    *)
(* deleted, whatever else runs and wherever the ticks fall.  Of the        *)
(* application it is asked that it does not change priorities, that two    *)
(* tasks use each mutex, and that nobody blocks on one with another in his *)
(* hand: without each of these the code does leave an urgent task waiting  *)
(* for a less urgent one (README, section 7).                              *)
(***************************************************************************)
THEOREM HolderOfASharedMutex ==
    ASSUME CountsFit, NewPriorities = {}, NEW A, NEW B
    PROVE  QueueSpec /\ [](SharedByTwo(A, B) /\ WaitsWithEmptyHands) => []HolderIsAsUrgent
<1>1. QueueInit => UrgentInv(A, B)
  BY InitUrgent
<1>2. /\ QInv /\ HoldersInv /\ WakeInv
      /\ SharedByTwo(A, B) /\ WaitsWithEmptyHands
      /\ UrgentInv(A, B) /\ [QueueNext]_allVars
      => UrgentInv(A, B)'
  BY NextUrgent
<1>3. UrgentInv(A, B) => HolderIsAsUrgent
  BY DEF UrgentInv, Covered, HolderIsAsUrgent
<1>4. QueueSpec => []WakeInv
  BY AlwaysWake
<1>. QED BY <1>1, <1>2, <1>3, <1>4, AlwaysQInv, AlwaysHolders, PTL DEF QueueSpec
===========================================================================
