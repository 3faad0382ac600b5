--------------------------- MODULE Timers_proofs --------------------------
(***************************************************************************)
(* The timer task never sleeps through anything, and, for any number of    *)
(* timers, any width of the tick count and any length of the queue, its    *)
(* two lists, the wraps and the three ways in which it catches up add up   *)
(* to what TimerService promises.                                          *)
(***************************************************************************)
EXTENDS Timers, SequenceTheorems, FiniteSetTheorems, WellFoundedInduction, TLAPS

(***************************************************************************)
(* The inductive invariant.  Time first: what the lists, the messages and  *)
(* the samples say of it.                                                  *)
(***************************************************************************)
Command ==
    [id : {"start", "restart", "stop", "changePeriod", "delete", "execute"},
     timer : Timer \union {None}, value : Tick, age : Nat]

PlaceOfTask == {"next", "process", "expired", "switch", "switchSuspended", "receive", "sample",
                "handle", "blocked"}

TypeInv ==
    /\ xTickCount \in Tick /\ xLastTime \in Tick /\ xTimeNow \in Tick /\ xNextExpireTime \in Tick
    /\ uxPendedTicks \in Nat /\ busy \in 0 .. MaxBusy
    /\ pxCurrentTimerList \in Seq(Timer) /\ pxOverflowTimerList \in Seq(Timer)
    /\ xItemValue \in [Timer -> Tick]
    /\ xTimerPeriodInTicks \in [Timer -> Tick \ {0}]
    /\ exists \in [Timer -> BOOLEAN]
    /\ xTimerQueue \in Seq(Command) /\ Len(xTimerQueue) <= QueueLength
    /\ pc \in PlaceOfTask
    /\ xListWasEmpty \in BOOLEAN
    /\ xMessage \in Command \union {NoMessage}
    /\ wake \in Nat \union {Off}
    /\ halted \in BOOLEAN
    /\ called \in Timer \union {None}
    /\ stopped \subseteq Timer

\* A list, with the values of its timers.
InOrder(list, value) ==
    \A i, j \in DOMAIN list : i <= j => value[list[i]] <= value[list[j]]

ListsInv ==
    /\ IsInjective(pxCurrentTimerList) /\ IsInjective(pxOverflowTimerList)
    /\ Range(pxCurrentTimerList) \intersect Range(pxOverflowTimerList) = {}
    /\ InOrder(pxCurrentTimerList, xItemValue)
    /\ InOrder(pxOverflowTimerList, xItemValue)

\* The real time.
Now == xTickCount + uxPendedTicks

\* A message, when the real time is now and no message is older than oldest.
Timely(m, now, oldest) ==
    /\ m.age <= oldest
    /\ m.id = "execute" <=> m.timer = None
    /\ m.id = "changePeriod" => m.value # 0
    /\ m.id \in {"start", "restart"} => m.value + m.age - now \in {-TickMod, 0, TickMod}

MessagesInv ==
    /\ \A i \in DOMAIN xTimerQueue : Timely(xTimerQueue[i], Now, busy + MaxDelay)
    /\ IF pc \in {"sample", "switch", "handle"}
       THEN /\ xMessage \in Command
            /\ Timely(xMessage, Now, busy + MaxDelay)
            /\ xMessage.timer \in Timer
            /\ xMessage.timer \notin InLists
       ELSE xMessage = NoMessage

ClockInv ==
    /\ InLists # {} => Clock - xLastTime <= TickMod - 1
    /\ uxPendedTicks <= busy
    /\ pc # "switchSuspended" => uxPendedTicks = 0

\* What the timer task has read is still so.
TaskInv ==
    /\ pc = "process" =>
           IF xListWasEmpty THEN pxCurrentTimerList = <<>> /\ xNextExpireTime = 0
           ELSE pxCurrentTimerList # <<>> /\ xNextExpireTime = xItemValue[Head(pxCurrentTimerList)]
    /\ pc = "expired" => /\ pxCurrentTimerList # <<>>
                         /\ xNextExpireTime = xItemValue[Head(pxCurrentTimerList)]
                         /\ xNextExpireTime <= xTimeNow
                         /\ xTimeNow = xLastTime
    /\ pc = "handle" => xTimeNow = xLastTime
    /\ pc \in {"switch", "handle"} => Minus(xTickCount, xTimeNow) <= xMessage.age
    /\ pc = "switch" /\ InLists # {} => xTimeNow <= xTickCount /\ xTickCount < xLastTime
    /\ pc = "switchSuspended" => xTickCount = xTimeNow /\ xTickCount < xLastTime

\* When a timer in the lists is due.
ListDue(t) ==
    IF t \in Range(pxCurrentTimerList) THEN xItemValue[t] - Clock ELSE xItemValue[t] + TickMod - Clock

DueInv ==
    IF pc = "blocked"
    THEN /\ xTimerQueue = <<>>
         /\ \A t \in InLists : wake # Off /\ ListDue(t) >= wake /\ ListDue(t) >= 1
    ELSE \A t \in InLists : ListDue(t) >= -(busy + MaxDelay)

TimeInv == TypeInv /\ ListsInv /\ MessagesInv /\ ClockInv /\ TaskInv /\ DueInv

(***************************************************************************)
(* The messages of a timer that starts again when it expires.              *)
(***************************************************************************)
Active(t) == t \in InLists \/ t = xMessage.timer

\* It has one message at most, and a restart only while it is in no list.
OneMessage ==
    /\ \A i, j \in DOMAIN xTimerQueue :
           xTimerQueue[i].timer = xTimerQueue[j].timer /\ xTimerQueue[i].timer \in AutoReload => i = j
    /\ xMessage.timer \in AutoReload =>
           \A i \in DOMAIN xTimerQueue : xTimerQueue[i].timer # xMessage.timer
    /\ \A i \in DOMAIN xTimerQueue :
           /\ xTimerQueue[i].id = "restart" =>
                  xTimerQueue[i].timer \in AutoReload /\ xTimerQueue[i].timer \notin InLists
           /\ xTimerQueue[i].id # "restart" /\ xTimerQueue[i].timer \in AutoReload =>
                  i = 1 /\ pc = "receive"
    /\ xMessage.id = "restart" => xMessage.timer \in AutoReload

\* What is in the lists or on its way exists, and nothing comes after a delete.
ExistInv ==
    /\ \A t \in InLists : exists[t]
    /\ \A i \in DOMAIN xTimerQueue : xTimerQueue[i].timer \in Timer => exists[xTimerQueue[i].timer]
    /\ xMessage.timer \in Timer => exists[xMessage.timer]
    /\ \A i, j \in DOMAIN xTimerQueue :
           xTimerQueue[i].id = "delete" /\ i < j => xTimerQueue[j].timer # xTimerQueue[i].timer
    /\ xMessage.id = "delete" =>
           \A i \in DOMAIN xTimerQueue : xTimerQueue[i].timer # xMessage.timer

\* There is room for a restart of every timer that may need one.
RoomInv ==
    /\ Len(xTimerQueue) + Cardinality({t \in AutoReload : Active(t)})
           <= QueueLength - Reserved + Cardinality(AutoReload)
    /\ ~halted

ReloadInv == OneMessage /\ ExistInv /\ RoomInv
---------------------------------------------------------------------------
(* Numbers *)

\* Division of what is less than twice the modulus.
LEMMA ModTwice ==
    ASSUME NEW T \in Nat \ {0}, NEW x \in 0 .. 2 * T - 1
    PROVE  x % T = IF x < T THEN x ELSE x - T
BY Z3

LEMMA ModBelow ==
    ASSUME NEW T \in Nat \ {0}, NEW x \in 1 - T .. T - 1
    PROVE  x % T = IF x < 0 THEN x + T ELSE x
BY Z3

LEMMA SumOfNat == \A a, b \in Nat : a + b \in Nat
OBVIOUS

\* The arithmetic of ticks (TickType_t) without the remainder.
LEMMA PlusIs ==
    ASSUME NEW x \in Tick, NEW n \in 0 .. TickMod
    PROVE  /\ Plus(x, n) = IF x + n < TickMod THEN x + n ELSE x + n - TickMod
           /\ Plus(x, n) \in Tick
<1>1. TickMod \in Nat \ {0} /\ x + n \in 0 .. 2 * TickMod - 1
  BY TimersAssumption DEF Tick
<1>. DEFINE y == x + n
<1>2. y % TickMod = IF y < TickMod THEN y ELSE y - TickMod
  <2>. HIDE DEF y
  <2>. QED BY <1>1, ModTwice DEF y
<1>3. Plus(x, n) = IF x + n < TickMod THEN x + n ELSE x + n - TickMod
  BY <1>1, <1>2 DEF Plus, Tick
<1>. QED BY <1>1, <1>3 DEF Tick

LEMMA MinusIs ==
    ASSUME NEW x \in Tick, NEW n \in Tick
    PROVE  /\ Minus(x, n) = IF n <= x THEN x - n ELSE x - n + TickMod
           /\ Minus(x, n) \in Tick
<1>1. TickMod \in Nat \ {0} /\ x - n \in 1 - TickMod .. TickMod - 1
  BY TimersAssumption DEF Tick
<1>2. (x - n) % TickMod = IF x - n < 0 THEN x - n + TickMod ELSE x - n
  BY <1>1, ModBelow, Zenon
<1>3. Minus(x, n) = IF n <= x THEN x - n ELSE x - n + TickMod
  BY <1>1, <1>2 DEF Minus, Tick
<1>. QED BY <1>1, <1>3 DEF Tick

(***************************************************************************)
(* What prvInsertTimerInActiveList decides: a timer that is called at once *)
(* has expired, and one that is placed expires when it should, in the      *)
(* round of its list.                                                      *)
(***************************************************************************)
LEMMA PlacementIs ==
    ASSUME NEW now \in Tick, NEW command \in Tick, NEW period \in Tick \ {0}, NEW next \in Tick,
           next = Plus(command, period), NEW where, where = Placement(next, now, command, period),
           NEW age \in Tick, age = Minus(now, command)
    PROVE  /\ where \in {"now", "overflow", "current"}
           /\ where = "now" => age >= period
           /\ where = "current" => next - now = period - age
           /\ where = "overflow" => next + TickMod - now = period - age
<1>1. age = IF command <= now THEN now - command ELSE now - command + TickMod
  BY MinusIs
<1>2. next = IF command + period < TickMod THEN command + period ELSE command + period - TickMod
  <2>1. period \in 0 .. TickMod
    BY TimersAssumption DEF Tick
  <2>. QED BY <2>1, PlusIs
<1>3. where = IF next <= now THEN IF age >= period THEN "now" ELSE "overflow"
              ELSE IF now < command /\ next >= command THEN "now" ELSE "current"
  BY DEF Placement
<1>4. /\ TickMod \in Nat /\ now \in 0 .. TickMod - 1 /\ command \in 0 .. TickMod - 1
      /\ period \in 1 .. TickMod - 1 /\ next \in 0 .. TickMod - 1 /\ age \in 0 .. TickMod - 1
  BY TimersAssumption DEF Tick
<1>. QED BY <1>1, <1>2, <1>3, <1>4
---------------------------------------------------------------------------
(* Sequences *)

\* A nonempty set of naturals that are at most b has a greatest element.
LEMMA GreatestElement ==
    ASSUME NEW b \in Nat, NEW S \in SUBSET (1 .. b), S # {}
    PROVE  \E m \in S : \A k \in S : k <= m
<1>. DEFINE F(m) == S \cap (m .. b)
            X == 1 .. b
            T == {F(m) : m \in S}
<1>1. IsFiniteSet(X)
  BY FS_Interval, b \in Int, 1 \in Int
<1>2. T \subseteq FiniteSubsetsOf(X)
  <2>. SUFFICES ASSUME NEW m \in S PROVE F(m) \in FiniteSubsetsOf(X)
    OBVIOUS
  <2>1. F(m) \in SUBSET X
    OBVIOUS
  <2>2. IsFiniteSet(F(m))
    BY <1>1, <2>1, FS_Subset
  <2>. QED BY <2>1, <2>2 DEF FiniteSubsetsOf
<1>3. T # {}
  <2>1. PICK m \in S : TRUE
    OBVIOUS
  <2>2. F(m) \in T
    BY <2>1
  <2>. QED BY <2>2
<1>. HIDE DEF T
<1>4. PICK x \in T : \A y \in T : ~ (<<y, x>> \in StrictSubsetOrdering(X))
  BY <1>2, <1>3, WFMin, FS_StrictSubsetOrderingWellFounded, <1>1, Zenon
<1>. USE DEF T
<1>5. PICK m \in S : x = F(m)
  BY <1>4
<1>6. SUFFICES ASSUME NEW k \in S, m < k PROVE FALSE
  BY <1>5
<1>7. F(k) \subseteq F(m) /\ m \in F(m) /\ m \notin F(k) /\ F(k) \in T
  BY <1>6
<1>8. <<F(k), F(m)>> \in StrictSubsetOrdering(X)
  BY <1>7 DEF StrictSubsetOrdering
<1>. QED BY <1>4, <1>5, <1>7, <1>8

\* A sequence with a new element behind the first n.
LEMMA InsertIs ==
    ASSUME NEW s \in Seq(Timer), NEW n \in 0 .. Len(s), NEW t \in Timer
    PROVE  /\ InsertAt(s, n + 1, t) \in Seq(Timer)
           /\ Len(InsertAt(s, n + 1, t)) = Len(s) + 1
           /\ \A i \in 1 .. n : InsertAt(s, n + 1, t)[i] = s[i]
           /\ InsertAt(s, n + 1, t)[n + 1] = t
           /\ \A i \in n + 2 .. Len(s) + 1 : InsertAt(s, n + 1, t)[i] = s[i - 1]
<1>. DEFINE low == SubSeq(s, 1, n)
            high == SubSeq(s, n + 1, Len(s))
            left == low \o <<t>>
<1>1. low \in Seq(Timer) /\ Len(low) = n /\ \A i \in 1 .. n : low[i] = s[i]
  BY SubSeqProperties
<1>2. /\ high \in Seq(Timer) /\ Len(high) = Len(s) - n
      /\ \A i \in 1 .. Len(s) - n : high[i] = s[n + i]
  BY SubSeqProperties
<1>3. /\ left \in Seq(Timer) /\ Len(left) = n + 1 /\ left[n + 1] = t
      /\ \A i \in 1 .. n : left[i] = s[i]
  <2>. HIDE DEF low
  <2>. QED BY <1>1
<1>4. InsertAt(s, n + 1, t) = left \o high
  <2>1. (n + 1) - 1 = n
    OBVIOUS
  <2>. QED BY <2>1 DEF InsertAt
<1>. HIDE DEF left, high
<1>5. left \o high \in Seq(Timer) /\ Len(left \o high) = Len(s) + 1
  BY <1>2, <1>3
<1>6. \A i \in 1 .. n + 1 : (left \o high)[i] = left[i]
  BY <1>2, <1>3
<1>7. \A i \in n + 2 .. Len(s) + 1 : (left \o high)[i] = high[i - (n + 1)]
  BY <1>2, <1>3
<1>8. \A i \in n + 2 .. Len(s) + 1 :
          i - (n + 1) \in 1 .. Len(s) - n /\ n + (i - (n + 1)) = i - 1
  BY <1>3
<1>9. \A i \in n + 2 .. Len(s) + 1 : (left \o high)[i] = s[i - 1]
  BY <1>2, <1>7, <1>8
<1>10. (\A i \in 1 .. n : (left \o high)[i] = s[i]) /\ (left \o high)[n + 1] = t
  BY <1>3, <1>6
<1>. QED BY <1>4, <1>5, <1>9, <1>10

\* A sequence without its element n.
LEMMA RemoveIs ==
    ASSUME NEW S, NEW s \in Seq(S), NEW n \in 1 .. Len(s)
    PROVE  /\ RemoveAt(s, n) \in Seq(S)
           /\ Len(RemoveAt(s, n)) = Len(s) - 1
           /\ \A i \in 1 .. n - 1 : RemoveAt(s, n)[i] = s[i]
           /\ \A i \in n .. Len(s) - 1 : RemoveAt(s, n)[i] = s[i + 1]
<1>. DEFINE low == SubSeq(s, 1, n - 1)
            high == SubSeq(s, n + 1, Len(s))
<1>1. low \in Seq(S) /\ Len(low) = n - 1 /\ \A i \in 1 .. n - 1 : low[i] = s[i]
  BY SubSeqProperties
<1>2. /\ high \in Seq(S) /\ Len(high) = Len(s) - n
      /\ \A i \in 1 .. Len(s) - n : high[i] = s[n + i]
  BY SubSeqProperties
<1>3. RemoveAt(s, n) = low \o high
  BY DEF RemoveAt
<1>. HIDE DEF low, high
<1>4. low \o high \in Seq(S) /\ Len(low \o high) = Len(s) - 1
  BY <1>1, <1>2
<1>5. \A i \in 1 .. n - 1 : (low \o high)[i] = s[i]
  BY <1>1, <1>2
<1>6. \A i \in n .. Len(s) - 1 : (low \o high)[i] = high[i - (n - 1)]
  BY <1>1, <1>2
<1>7. \A i \in n .. Len(s) - 1 : i - (n - 1) \in 1 .. Len(s) - n /\ n + (i - (n - 1)) = i + 1
  OBVIOUS
<1>8. \A i \in n .. Len(s) - 1 : (low \o high)[i] = s[i + 1]
  BY <1>2, <1>6, <1>7
<1>. QED BY <1>3, <1>4, <1>5, <1>8
---------------------------------------------------------------------------
(* The timer lists *)

\* A list as vListInsert keeps it.
Fits(list, value) == list \in Seq(Timer) /\ IsInjective(list) /\ InOrder(list, value)

\* Only the values of its own timers count.
LEMMA SameValues ==
    ASSUME NEW list, NEW value, NEW new, Fits(list, value), \A t \in Range(list) : new[t] = value[t]
    PROVE  Fits(list, new)
<1>1. \A i \in DOMAIN list : new[list[i]] = value[list[i]]
  BY DEF Range
<1>. QED BY <1>1 DEF Fits, InOrder

LEMMA RangeIn ==
    ASSUME NEW list \in Seq(Timer)
    PROVE  Range(list) \subseteq Timer /\ (Range(list) = {} <=> list = <<>>)
<1>1. Range(list) \subseteq Timer
  BY DEF Range
<1>2. list # <<>> => list[1] \in Range(list)
  <2>. SUFFICES ASSUME list # <<>> PROVE list[1] \in Range(list)
    OBVIOUS
  <2>1. 1 \in DOMAIN list
    BY EmptySeq, LenProperties
  <2>. QED BY <2>1 DEF Range
<1>3. list = <<>> => Range(list) = {}
  BY DEF Range
<1>. QED BY <1>1, <1>2, <1>3

\* The head of a list expires first.
LEMMA HeadIs ==
    ASSUME NEW list, NEW value, Fits(list, value), list # <<>>
    PROVE  /\ Head(list) \in Range(list) /\ Head(list) \in Timer
           /\ \A t \in Range(list) : value[Head(list)] <= value[t]
<1>1. Head(list) = list[1] /\ DOMAIN list = 1 .. Len(list) /\ 1 \in DOMAIN list
  BY HeadTailProperties, EmptySeq, LenProperties DEF Fits
<1>2. ASSUME NEW t \in Range(list) PROVE value[list[1]] <= value[t]
  <2>1. PICK i \in DOMAIN list : list[i] = t
    BY DEF Range
  <2>2. 1 <= i
    BY <1>1
  <2>. QED BY <1>1, <2>1, <2>2 DEF Fits, InOrder
<1>. QED BY <1>1, <1>2, RangeIn DEF Fits, Range

LEMMA TailIs ==
    ASSUME NEW list, NEW value, Fits(list, value), list # <<>>
    PROVE  Fits(Tail(list), value) /\ Range(Tail(list)) = Range(list) \ {Head(list)}
<1>. DEFINE r == Tail(list)
<1>1. /\ list \in Seq(Timer) /\ Len(list) \in Nat \ {0} /\ DOMAIN list = 1 .. Len(list)
      /\ Head(list) = list[1]
      /\ r \in Seq(Timer) /\ Len(r) = Len(list) - 1 /\ DOMAIN r = 1 .. Len(list) - 1
      /\ \A i \in 1 .. Len(r) : r[i] = list[i + 1]
  BY HeadTailProperties, EmptySeq, LenProperties DEF Fits
<1>. HIDE DEF r
<1>2. \A i \in DOMAIN r : i + 1 \in DOMAIN list /\ r[i] = list[i + 1]
  BY <1>1
<1>3. IsInjective(r)
  <2>. SUFFICES ASSUME NEW i \in DOMAIN r, NEW j \in DOMAIN r, r[i] = r[j] PROVE i = j
    BY DEF IsInjective
  <2>1. i + 1 = j + 1
    BY <1>2 DEF Fits, IsInjective
  <2>. QED BY <1>1, <2>1
<1>4. InOrder(r, value)
  <2>. SUFFICES ASSUME NEW i \in DOMAIN r, NEW j \in DOMAIN r, i <= j
                PROVE  value[r[i]] <= value[r[j]]
    BY DEF InOrder
  <2>1. i + 1 <= j + 1
    BY <1>1
  <2>. QED BY <1>2, <2>1 DEF Fits, InOrder
<1>5. ASSUME NEW t \in Range(r) PROVE t \in Range(list) /\ t # Head(list)
  <2>1. PICK i \in DOMAIN r : r[i] = t
    BY DEF Range
  <2>2. i + 1 \in DOMAIN list /\ list[i + 1] = t /\ i + 1 # 1 /\ 1 \in DOMAIN list
    BY <1>1, <1>2, <2>1
  <2>. QED BY <1>1, <2>2 DEF Range, Fits, IsInjective
<1>6. ASSUME NEW t \in Range(list), t # Head(list) PROVE t \in Range(r)
  <2>1. PICK i \in DOMAIN list : list[i] = t
    BY DEF Range
  <2>2. i - 1 \in DOMAIN r /\ (i - 1) + 1 = i
    BY <1>1, <1>6, <2>1
  <2>. QED BY <1>2, <2>1, <2>2 DEF Range
<1>. QED BY <1>1, <1>3, <1>4, <1>5, <1>6 DEF r, Fits

LEMMA WithoutIs ==
    ASSUME NEW list, NEW value, Fits(list, value), NEW t
    PROVE  Fits(Without(list, t), value) /\ Range(Without(list, t)) = Range(list) \ {t}
<1>1. CASE t \notin Range(list)
  BY <1>1 DEF Without
<1>2. CASE t \in Range(list)
  <2>. DEFINE n == CHOOSE i \in DOMAIN list : list[i] = t
              r == Without(list, t)
              From(i) == IF i < n THEN i ELSE i + 1
  <2>1. /\ list \in Seq(Timer) /\ Len(list) \in Nat /\ DOMAIN list = 1 .. Len(list)
        /\ n \in 1 .. Len(list) /\ list[n] = t
    <3>1. \E i \in DOMAIN list : list[i] = t
      BY <1>2 DEF Range
    <3>2. n \in DOMAIN list /\ list[n] = t
      BY <3>1
    <3>. QED BY <3>2, LenProperties DEF Fits
  <2>2. r = RemoveAt(list, n)
    BY <1>2 DEF Without
  <2>. HIDE DEF n, r
  <2>3. /\ r \in Seq(Timer) /\ Len(r) = Len(list) - 1
        /\ \A i \in 1 .. n - 1 : r[i] = list[i]
        /\ \A i \in n .. Len(list) - 1 : r[i] = list[i + 1]
    BY <2>1, <2>2, RemoveIs
  <2>4. DOMAIN r = 1 .. Len(list) - 1
    BY <2>1, <2>3, LenProperties
  <2>5. \A i \in DOMAIN r : From(i) \in DOMAIN list /\ From(i) # n /\ r[i] = list[From(i)]
    BY <2>1, <2>3, <2>4
  <2>6. \A i, j \in DOMAIN r : (i <= j <=> From(i) <= From(j)) /\ (From(i) = From(j) => i = j)
    BY <2>1, <2>4
  <2>. HIDE DEF From
  <2>7. IsInjective(r)
    BY <2>5, <2>6 DEF Fits, IsInjective
  <2>8. InOrder(r, value)
    BY <2>5, <2>6 DEF Fits, InOrder
  <2>9. ASSUME NEW u \in Range(r) PROVE u \in Range(list) /\ u # t
    <3>1. PICK i \in DOMAIN r : r[i] = u
      BY DEF Range
    <3>. QED BY <2>1, <2>5, <3>1 DEF Range, Fits, IsInjective
  <2>10. ASSUME NEW u \in Range(list), u # t PROVE u \in Range(r)
    <3>1. PICK i \in DOMAIN list : list[i] = u
      BY DEF Range
    <3>2. i # n
      BY <2>1, <2>10, <3>1
    <3>3. i < n => i \in DOMAIN r /\ r[i] = u
      BY <2>1, <2>3, <2>4, <3>1
    <3>4. i > n => i - 1 \in DOMAIN r /\ r[i - 1] = u
      BY <2>1, <2>3, <2>4, <3>1
    <3>5. \E k \in DOMAIN r : r[k] = u
      BY <2>1, <3>1, <3>2, <3>3, <3>4
    <3>. QED BY <3>5 DEF Range
  <2>. QED BY <2>3, <2>7, <2>8, <2>9, <2>10 DEF Fits, r
<1>. QED BY <1>1, <1>2

\* vListInsert counts the timers that expire no later: in a sorted list they come first.
LEMMA InsertedIs ==
    ASSUME xItemValue \in [Timer -> Tick], NEW list, Fits(list, xItemValue),
           NEW t \in Timer, t \notin Range(list), NEW v \in Tick,
           NEW value, value[t] = v, \A u \in Range(list) : value[u] = xItemValue[u]
    PROVE  /\ Fits(Inserted(list, t, v), value)
           /\ Range(Inserted(list, t, v)) = Range(list) \union {t}
<1>. DEFINE S == {i \in DOMAIN list : xItemValue[list[i]] <= v}
            r == Inserted(list, t, v)
<1>1. /\ list \in Seq(Timer) /\ Len(list) \in Nat /\ DOMAIN list = 1 .. Len(list)
      /\ \A i \in DOMAIN list : list[i] \in Timer /\ list[i] # t
      /\ v \in Int /\ \A u \in Timer : xItemValue[u] \in Int
      /\ \A i \in DOMAIN list : value[list[i]] = xItemValue[list[i]]
  BY LenProperties DEF Fits, Range, Tick
<1>2. \E n \in 0 .. Len(list) : S = 1 .. n
  <2>1. CASE S = {}
    BY <1>1, <2>1
  <2>2. CASE S # {}
    <3>1. PICK n \in S : \A k \in S : k <= n
      <4>1. S \in SUBSET (1 .. Len(list))
        BY <1>1
      <4>. HIDE DEF S
      <4>. QED BY <1>1, <2>2, <4>1, GreatestElement
    <3>2. ASSUME NEW i \in 1 .. n PROVE i \in S
      <4>1. i \in DOMAIN list /\ n \in DOMAIN list /\ i <= n
        BY <1>1
      <4>2. xItemValue[list[i]] <= xItemValue[list[n]]
        BY <4>1 DEF Fits, InOrder
      <4>3. xItemValue[list[n]] <= v /\ xItemValue[list[i]] \in Int /\ xItemValue[list[n]] \in Int
        BY <1>1, <4>1
      <4>. QED BY <1>1, <4>1, <4>2, <4>3
    <3>3. S = 1 .. n
      BY <1>1, <3>1, <3>2
    <3>. QED BY <1>1, <3>3
  <2>. QED BY <2>1, <2>2
<1>3. PICK n \in 0 .. Len(list) : S = 1 .. n
  BY <1>2
<1>4. Cardinality(S) = n
  <2>1. n \in Int /\ 1 \in Int /\ n >= 0
    BY <1>1
  <2>2. Cardinality(1 .. n) = n
    BY <2>1, FS_Interval
  <2>. QED BY <1>3, <2>2
<1>5. r = InsertAt(list, n + 1, t)
  BY <1>1, <1>4 DEF Inserted
<1>6. /\ \A i \in 1 .. n : xItemValue[list[i]] <= v
      /\ \A i \in n + 1 .. Len(list) : v <= xItemValue[list[i]]
  <2>1. ASSUME NEW i \in 1 .. n PROVE xItemValue[list[i]] <= v
    BY <1>3, <2>1
  <2>2. ASSUME NEW i \in n + 1 .. Len(list) PROVE v <= xItemValue[list[i]]
    <3>1. i \notin S /\ i \in DOMAIN list
      BY <1>1, <1>3, <2>2
    <3>. QED BY <1>1, <3>1
  <2>. QED BY <2>1, <2>2
<1>. HIDE DEF S, r
<1>7. /\ r \in Seq(Timer) /\ Len(r) = Len(list) + 1
      /\ \A i \in 1 .. n : r[i] = list[i]
      /\ r[n + 1] = t
      /\ \A i \in n + 2 .. Len(list) + 1 : r[i] = list[i - 1]
  <2>1. list \in Seq(Timer)
    BY <1>1
  <2>2. /\ InsertAt(list, n + 1, t) \in Seq(Timer)
        /\ Len(InsertAt(list, n + 1, t)) = Len(list) + 1
        /\ \A i \in 1 .. n : InsertAt(list, n + 1, t)[i] = list[i]
        /\ InsertAt(list, n + 1, t)[n + 1] = t
        /\ \A i \in n + 2 .. Len(list) + 1 : InsertAt(list, n + 1, t)[i] = list[i - 1]
    BY <2>1, InsertIs
  <2>. QED BY <1>5, <2>2, Zenon
<1>8. DOMAIN r = 1 .. Len(list) + 1
  BY <1>1, <1>7, LenProperties
<1>. DEFINE From(i) == IF i <= n THEN i ELSE i - 1
<1>9. \A i \in DOMAIN r : i # n + 1 => From(i) \in DOMAIN list /\ r[i] = list[From(i)]
  <2>. SUFFICES ASSUME NEW i \in DOMAIN r, i # n + 1
                PROVE  From(i) \in DOMAIN list /\ r[i] = list[From(i)]
    OBVIOUS
  <2>1. i <= n => i \in 1 .. n /\ i \in DOMAIN list
    BY <1>1, <1>8
  <2>2. i > n => i \in n + 2 .. Len(list) + 1 /\ i - 1 \in DOMAIN list
    BY <1>1, <1>8
  <2>3. i <= n \/ i > n
    BY <1>1, <1>8
  <2>. QED BY <1>7, <2>1, <2>2, <2>3
<1>10. \A i, j \in DOMAIN r : i # n + 1 /\ j # n + 1 =>
           (i <= j <=> From(i) <= From(j)) /\ (From(i) = From(j) => i = j)
  <2>. SUFFICES ASSUME NEW i \in Int, NEW j \in Int, i # n + 1, j # n + 1
                PROVE  (i <= j <=> From(i) <= From(j)) /\ (From(i) = From(j) => i = j)
    BY <1>1, <1>8
  <2>1. n \in Int
    BY <1>1
  <2>2. (i <= n => From(i) = i) /\ (i > n => From(i) = i - 1)
    BY <2>1
  <2>3. (j <= n => From(j) = j) /\ (j > n => From(j) = j - 1)
    BY <2>1
  <2>. HIDE DEF From
  <2>. QED BY <2>1, <2>2, <2>3
<1>11. \A i \in DOMAIN r : i # n + 1 =>
           /\ i < n + 1 => value[r[i]] <= v
           /\ i > n + 1 => v <= value[r[i]]
  <2>. SUFFICES ASSUME NEW i \in DOMAIN r, i # n + 1
                PROVE  (i < n + 1 => value[r[i]] <= v) /\ (i > n + 1 => v <= value[r[i]])
    OBVIOUS
  <2>1. From(i) \in DOMAIN list /\ r[i] = list[From(i)]
    BY <1>9
  <2>2. value[r[i]] = xItemValue[list[From(i)]]
    BY <1>1, <2>1
  <2>3. i < n + 1 => From(i) \in 1 .. n
    BY <1>1, <1>8
  <2>4. i > n + 1 => From(i) \in n + 1 .. Len(list)
    BY <1>1, <1>8
  <2>. QED BY <1>6, <2>2, <2>3, <2>4
<1>. HIDE DEF From
<1>12. IsInjective(r)
  <2>. SUFFICES ASSUME NEW i \in DOMAIN r, NEW j \in DOMAIN r, r[i] = r[j] PROVE i = j
    BY DEF IsInjective
  <2>1. CASE i # n + 1 /\ j # n + 1
    BY <1>9, <1>10, <2>1 DEF Fits, IsInjective
  <2>2. CASE i = n + 1 /\ j # n + 1
    BY <1>1, <1>7, <1>9, <2>2
  <2>3. CASE i # n + 1 /\ j = n + 1
    BY <1>1, <1>7, <1>9, <2>3
  <2>. QED BY <2>1, <2>2, <2>3
<1>13. InOrder(r, value)
  <2>. SUFFICES ASSUME NEW i \in DOMAIN r, NEW j \in DOMAIN r, i <= j
                PROVE  value[r[i]] <= value[r[j]]
    BY DEF InOrder
  <2>1. CASE i # n + 1 /\ j # n + 1
    <3>1. /\ From(i) \in DOMAIN list /\ From(j) \in DOMAIN list /\ From(i) <= From(j)
          /\ r[i] = list[From(i)] /\ r[j] = list[From(j)]
      BY <1>9, <1>10, <2>1
    <3>2. xItemValue[list[From(i)]] <= xItemValue[list[From(j)]]
      BY <3>1 DEF Fits, InOrder
    <3>. QED BY <1>1, <3>1, <3>2
  <2>2. CASE i = n + 1 /\ j # n + 1
    <3>1. j > n + 1
      BY <1>8, <2>2
    <3>. QED BY <1>7, <1>11, <2>2, <3>1
  <2>3. CASE i # n + 1 /\ j = n + 1
    <3>1. i < n + 1
      BY <1>8, <2>3
    <3>. QED BY <1>7, <1>11, <2>3, <3>1
  <2>4. CASE i = n + 1 /\ j = n + 1
    BY <1>1, <1>7, <2>4
  <2>. QED BY <2>1, <2>2, <2>3, <2>4
<1>14. ASSUME NEW u \in Range(r) PROVE u \in Range(list) \union {t}
  <2>1. PICK i \in DOMAIN r : r[i] = u
    BY DEF Range
  <2>. QED BY <1>7, <1>9, <2>1 DEF Range
<1>15. ASSUME NEW u \in Range(list) \union {t} PROVE u \in Range(r)
  <2>1. CASE u = t
    <3>1. n + 1 \in DOMAIN r
      BY <1>8
    <3>. QED BY <1>7, <2>1, <3>1 DEF Range
  <2>2. CASE u \in Range(list)
    <3>1. PICK i \in DOMAIN list : list[i] = u
      BY <2>2 DEF Range
    <3>2. i <= n => i \in DOMAIN r /\ r[i] = u
      BY <1>1, <1>7, <1>8, <3>1
    <3>3. i > n => i + 1 \in DOMAIN r /\ r[i + 1] = u
      <4>. SUFFICES ASSUME i > n PROVE i + 1 \in DOMAIN r /\ r[i + 1] = u
        OBVIOUS
      <4>1. i + 1 \in n + 2 .. Len(list) + 1 /\ (i + 1) - 1 = i
        BY <1>1
      <4>. QED BY <1>7, <1>8, <3>1, <4>1
    <3>4. \E k \in DOMAIN r : r[k] = u
      BY <1>1, <3>1, <3>2, <3>3
    <3>. QED BY <3>4 DEF Range
  <2>. QED BY <1>15, <2>1, <2>2
<1>. QED BY <1>7, <1>12, <1>13, <1>14, <1>15 DEF r, Fits
---------------------------------------------------------------------------
(* Messages *)

LEMMA OlderIs ==
    ASSUME NEW m \in Command
    PROVE  /\ Older(m) \in Command
           /\ Older(m).id = m.id /\ Older(m).timer = m.timer /\ Older(m).value = m.value
           /\ Older(m).age = m.age + 1 /\ m.age \in Nat /\ m.value \in Tick
           /\ Older(m) # NoMessage /\ m # NoMessage
BY DEF Command, Older, NoMessage

\* A tick later.
LEMMA OlderTimely ==
    ASSUME NEW m \in Command, NEW now \in Nat, NEW new \in Nat, NEW oldest \in Nat,
           Timely(m, now, oldest), new = now + 1 \/ new = now + 1 - TickMod,
           oldest + 1 <= TickMod - 1
    PROVE  Timely(Older(m), new, oldest + 1)
<1>1. /\ Older(m).id = m.id /\ Older(m).timer = m.timer /\ Older(m).value = m.value
      /\ Older(m).age = m.age + 1 /\ m.age \in Nat /\ m.value \in Tick
  BY OlderIs
<1>2. m.age <= oldest /\ TickMod \in Nat
  BY TimersAssumption DEF Timely
<1>3. ASSUME m.value + m.age - now \in {-TickMod, 0, TickMod}
      PROVE  m.value + (m.age + 1) - new \in {-TickMod, 0, TickMod}
  BY <1>1, <1>2, <1>3 DEF Tick
<1>. QED BY <1>1, <1>2, <1>3 DEF Timely

LEMMA OlderQueue ==
    ASSUME NEW q \in Seq(Command)
    PROVE  LET r == [i \in DOMAIN q |-> Older(q[i])] IN
           /\ r \in Seq(Command) /\ Len(r) = Len(q) /\ DOMAIN r = DOMAIN q
           /\ \A i \in DOMAIN q : q[i] \in Command /\ r[i] = Older(q[i])
<1>. DEFINE r == [i \in DOMAIN q |-> Older(q[i])]
<1>1. Len(q) \in Nat /\ DOMAIN q = 1 .. Len(q) /\ \A i \in DOMAIN q : q[i] \in Command
  BY LenProperties
<1>2. \A i \in DOMAIN q : Older(q[i]) \in Command
  BY <1>1, OlderIs
<1>3. r \in [1 .. Len(q) -> Command]
  BY <1>1, <1>2
<1>4. r \in Seq(Command)
  BY <1>1, <1>3, SeqDef
<1>5. DOMAIN r = 1 .. Len(q) /\ DOMAIN r = 1 .. Len(r) /\ Len(r) \in Nat
  BY <1>3, <1>4, LenProperties
<1>6. Len(r) = Len(q)
  BY <1>1, <1>5
<1>. QED BY <1>1, <1>4, <1>5, <1>6

LEMMA AppendIs ==
    ASSUME NEW q \in Seq(Command), NEW m \in Command
    PROVE  /\ Append(q, m) \in Seq(Command) /\ Len(Append(q, m)) = Len(q) + 1
           /\ Len(q) \in Nat /\ DOMAIN q = 1 .. Len(q)
           /\ DOMAIN Append(q, m) = 1 .. Len(q) + 1
           /\ \A i \in DOMAIN q : Append(q, m)[i] = q[i]
           /\ Append(q, m)[Len(q) + 1] = m
OBVIOUS

LEMMA FirstIs ==
    ASSUME NEW q \in Seq(Command), q # <<>>
    PROVE  /\ Head(q) \in Command /\ Head(q) = q[1] /\ 1 \in DOMAIN q
           /\ Tail(q) \in Seq(Command) /\ Len(Tail(q)) = Len(q) - 1
           /\ Len(q) \in Nat \ {0} /\ DOMAIN q = 1 .. Len(q) /\ DOMAIN Tail(q) = 1 .. Len(q) - 1
           /\ \A i \in DOMAIN Tail(q) : Tail(q)[i] = q[i + 1] /\ i + 1 \in DOMAIN q
<1>1. Len(q) \in Nat \ {0} /\ DOMAIN q = 1 .. Len(q) /\ Head(q) = q[1]
  BY EmptySeq, LenProperties
<1>2. /\ Head(q) \in Command /\ Tail(q) \in Seq(Command) /\ Len(Tail(q)) = Len(q) - 1
      /\ \A i \in 1 .. Len(Tail(q)) : Tail(q)[i] = q[i + 1]
  BY HeadTailProperties
<1>3. DOMAIN Tail(q) = 1 .. Len(q) - 1
  BY <1>2, LenProperties
<1>. QED BY <1>1, <1>2, <1>3
---------------------------------------------------------------------------
(* What a step does to the time of the lists *)

\* The numbers that the lists refer to.
LEMMA Numbers ==
    ASSUME TypeInv
    PROVE  /\ TickMod \in Nat \ {0} /\ MaxDelay \in Nat /\ MaxBusy \in Nat /\ Off \notin Int
           /\ MaxBusy + MaxDelay <= TickMod - 1
           /\ xTickCount \in 0 .. TickMod - 1 /\ xLastTime \in 0 .. TickMod - 1
           /\ xTimeNow \in 0 .. TickMod - 1 /\ xNextExpireTime \in 0 .. TickMod - 1
           /\ uxPendedTicks \in Nat /\ busy \in 0 .. MaxBusy
           /\ \A t \in Timer : xItemValue[t] \in 0 .. TickMod - 1
           /\ \A t \in Timer : xTimerPeriodInTicks[t] \in 1 .. TickMod - 1
           /\ Clock = IF xTickCount < xLastTime THEN xTickCount + uxPendedTicks + TickMod
                      ELSE xTickCount + uxPendedTicks
           /\ Clock \in Nat /\ Clock >= xLastTime
           /\ Now \in Nat /\ Now = xTickCount + uxPendedTicks
<1>1. /\ TickMod \in Nat \ {0} /\ MaxDelay \in Nat /\ MaxBusy \in Nat /\ Off \notin Int
      /\ MaxBusy + MaxDelay <= TickMod - 1
  BY TimersAssumption
<1>2. /\ xTickCount \in 0 .. TickMod - 1 /\ xLastTime \in 0 .. TickMod - 1
      /\ xTimeNow \in 0 .. TickMod - 1 /\ xNextExpireTime \in 0 .. TickMod - 1
      /\ uxPendedTicks \in Nat /\ busy \in 0 .. MaxBusy
      /\ \A t \in Timer : xItemValue[t] \in 0 .. TickMod - 1
      /\ \A t \in Timer : xTimerPeriodInTicks[t] \in 1 .. TickMod - 1
  BY <1>1 DEF TypeInv, Tick
<1>3. Clock = IF xTickCount < xLastTime THEN xTickCount + uxPendedTicks + TickMod
              ELSE xTickCount + uxPendedTicks
  BY <1>1, <1>2 DEF Clock
<1>4. Clock \in Nat /\ Clock >= xLastTime /\ Now \in Nat /\ Now = xTickCount + uxPendedTicks
  BY <1>1, <1>2, <1>3 DEF Now
<1>. QED BY <1>1, <1>2, <1>3, <1>4

LEMMA ListsFit ==
    ASSUME TypeInv, ListsInv
    PROVE  /\ Fits(pxCurrentTimerList, xItemValue) /\ Fits(pxOverflowTimerList, xItemValue)
           /\ Range(pxCurrentTimerList) \intersect Range(pxOverflowTimerList) = {}
           /\ Range(pxCurrentTimerList) \subseteq Timer /\ Range(pxOverflowTimerList) \subseteq Timer
           /\ InLists \subseteq Timer
           /\ InLists = Range(pxCurrentTimerList) \union Range(pxOverflowTimerList)
           /\ Range(pxCurrentTimerList) = {} <=> pxCurrentTimerList = <<>>
           /\ Range(pxOverflowTimerList) = {} <=> pxOverflowTimerList = <<>>
<1>1. /\ Range(pxCurrentTimerList) \subseteq Timer /\ Range(pxOverflowTimerList) \subseteq Timer
      /\ Range(pxCurrentTimerList) = {} <=> pxCurrentTimerList = <<>>
      /\ Range(pxOverflowTimerList) = {} <=> pxOverflowTimerList = <<>>
  BY RangeIn DEF TypeInv
<1>. QED BY <1>1 DEF TypeInv, ListsInv, Fits, InLists

LEMMA DueIsInt ==
    ASSUME TypeInv, ListsInv
    PROVE  \A t \in InLists : t \in Timer /\ ListDue(t) \in Int
<1>. SUFFICES ASSUME NEW t \in InLists PROVE t \in Timer /\ ListDue(t) \in Int
  OBVIOUS
<1>1. t \in Timer
  BY ListsFit
<1>2. xItemValue[t] \in Int /\ Clock \in Int /\ TickMod \in Int
  BY <1>1, Numbers
<1>. QED BY <1>1, <1>2 DEF ListDue

(***************************************************************************)
(* Place: the lists stay as they should be, the timer is in the list that  *)
(* was decided on with the tick it expires at, or in none, and nothing     *)
(* else changes.                                                           *)
(***************************************************************************)
LEMMA PlaceIs ==
    ASSUME TypeInv, NEW current, Fits(current, xItemValue), Fits(pxOverflowTimerList, xItemValue),
           Range(current) \intersect Range(pxOverflowTimerList) = {},
           NEW t \in Timer, t \notin Range(current), t \notin Range(pxOverflowTimerList),
           NEW next \in Tick, NEW where, Place(t, next, where, current)
    PROVE  /\ pxCurrentTimerList' \in Seq(Timer) /\ pxOverflowTimerList' \in Seq(Timer)
           /\ xItemValue' \in [Timer -> Tick]
           /\ ListsInv'
           /\ \A u \in Timer : u # t => xItemValue'[u] = xItemValue[u]
           /\ where = "current" => /\ Range(pxCurrentTimerList') = Range(current) \union {t}
                                   /\ Range(pxOverflowTimerList') = Range(pxOverflowTimerList)
                                   /\ xItemValue'[t] = next
           /\ where = "overflow" => /\ Range(pxCurrentTimerList') = Range(current)
                                    /\ Range(pxOverflowTimerList')
                                           = Range(pxOverflowTimerList) \union {t}
                                    /\ xItemValue'[t] = next
           /\ where \notin {"current", "overflow"} =>
                  /\ Range(pxCurrentTimerList') = Range(current)
                  /\ Range(pxOverflowTimerList') = Range(pxOverflowTimerList)
<1>. DEFINE over == pxOverflowTimerList
            new == xItemValue'
<1>1. /\ xItemValue' = [xItemValue EXCEPT ![t] = IF where \in {"current", "overflow"} THEN next ELSE 0]
      /\ xItemValue \in [Timer -> Tick] /\ 0 \in Tick
  BY TimersAssumption DEF Place, TypeInv, Tick
<1>2. /\ xItemValue' \in [Timer -> Tick]
      /\ \A u \in Timer : u # t => xItemValue'[u] = xItemValue[u]
      /\ where \in {"current", "overflow"} => xItemValue'[t] = next
  BY <1>1
<1>3. \A u \in Range(current) \union Range(pxOverflowTimerList) : xItemValue'[u] = xItemValue[u]
  BY <1>2, RangeIn DEF Fits
<1>4. Fits(current, xItemValue') /\ Fits(pxOverflowTimerList, xItemValue')
  BY <1>3, SameValues
<1>5. CASE where = "current"
  <2>1. pxCurrentTimerList' = Inserted(current, t, next) /\ pxOverflowTimerList' = over
    BY <1>5 DEF Place
  <2>2. /\ Fits(Inserted(current, t, next), xItemValue')
        /\ Range(Inserted(current, t, next)) = Range(current) \union {t}
    <3>1. new[t] = next /\ \A u \in Range(current) : new[u] = xItemValue[u]
      BY <1>2, <1>3, <1>5
    <3>2. t \notin Range(current) /\ Fits(current, xItemValue) /\ xItemValue \in [Timer -> Tick]
      BY <1>1
    <3>. HIDE DEF new, over
    <3>3. /\ Fits(Inserted(current, t, next), new)
          /\ Range(Inserted(current, t, next)) = Range(current) \union {t}
      BY <3>1, <3>2, InsertedIs
    <3>. QED BY <3>3 DEF new
  <2>. QED BY <1>2, <1>4, <1>5, <2>1, <2>2 DEF ListsInv, Fits
<1>6. CASE where = "overflow"
  <2>1. pxCurrentTimerList' = current /\ pxOverflowTimerList' = Inserted(over, t, next)
    BY <1>6 DEF Place
  <2>2. /\ Fits(Inserted(over, t, next), xItemValue')
        /\ Range(Inserted(over, t, next)) = Range(over) \union {t}
    <3>1. new[t] = next /\ \A u \in Range(over) : new[u] = xItemValue[u]
      BY <1>2, <1>3, <1>6
    <3>2. t \notin Range(over) /\ Fits(over, xItemValue) /\ xItemValue \in [Timer -> Tick]
      BY <1>1
    <3>. HIDE DEF new, over
    <3>3. /\ Fits(Inserted(over, t, next), new)
          /\ Range(Inserted(over, t, next)) = Range(over) \union {t}
      BY <3>1, <3>2, InsertedIs
    <3>. QED BY <3>3 DEF new
  <2>. QED BY <1>2, <1>4, <1>6, <2>1, <2>2 DEF ListsInv, Fits
<1>7. CASE where \notin {"current", "overflow"}
  <2>1. pxCurrentTimerList' = current /\ pxOverflowTimerList' = over
    BY <1>7 DEF Place
  <2>. QED BY <1>2, <1>4, <1>7, <2>1 DEF ListsInv, Fits
<1>. QED BY <1>5, <1>6, <1>7
---------------------------------------------------------------------------
(* Every step keeps the invariant of the time *)

LEMMA InitTime == Init => TimeInv
<1>. SUFFICES ASSUME Init PROVE TimeInv
  OBVIOUS
<1>1. TickMod \in Nat \ {0} /\ MaxDelay \in Nat /\ MaxBusy \in Nat /\ 0 \in Tick
      /\ QueueLength \in Nat
  BY TimersAssumption DEF Tick
<1>2. Range(<<>>) = {}
  BY DEF Range
<1>3. InLists = {}
  BY <1>2 DEF InLists, Init
<1>4. TypeInv
  <2>1. InitialPeriod \in [Timer -> Tick \ {0}]
    BY TimersAssumption DEF Tick
  <2>2. /\ <<>> \in Seq(Timer) /\ <<>> \in Seq(Command) /\ Len(<<>>) = 0
        /\ 0 \in 0 .. MaxBusy /\ 0 \in Nat /\ [t \in Timer |-> 0] \in [Timer -> Tick]
    BY <1>1
  <2>3. [t \in Timer |-> TRUE] \in [Timer -> BOOLEAN]
    OBVIOUS
  <2>4. pc \in PlaceOfTask
    BY DEF Init, PlaceOfTask
  <2>5. Len(xTimerQueue) <= QueueLength
    BY <1>1, <2>2 DEF Init
  <2>. QED BY <1>1, <2>1, <2>2, <2>3, <2>4, <2>5 DEF Init, TypeInv
<1>5. ListsInv
  BY <1>2 DEF Init, ListsInv, IsInjective, InOrder
<1>6. MessagesInv
  BY DEF Init, MessagesInv
<1>7. ClockInv
  BY <1>3 DEF Init, ClockInv
<1>8. TaskInv
  BY DEF Init, TaskInv
<1>9. DueInv
  BY <1>3 DEF Init, DueInv
<1>. QED BY <1>4, <1>5, <1>6, <1>7, <1>8, <1>9 DEF TimeInv

\* What a tick does to the clock; a wrap of the tick count is one of the list that follows.
LEMMA TickClock ==
    ASSUME TimeInv, TickInterrupt
    PROVE  /\ xTickCount' \in Tick /\ uxPendedTicks' \in Nat
           /\ Now' = Now + 1 \/ Now' = Now + 1 - TickMod
           /\ Now' \in Nat
           /\ InLists' = InLists
           /\ InLists # {} => Clock' = Clock + 1 /\ Clock' - xLastTime' <= TickMod - 1
           /\ pc = "switchSuspended" => uxPendedTicks' = uxPendedTicks + 1 /\ xTickCount' = xTickCount
           /\ pc # "switchSuspended" => /\ uxPendedTicks' = 0 /\ uxPendedTicks = 0
                                        /\ xTickCount' = IF xTickCount + 1 < TickMod
                                                         THEN xTickCount + 1 ELSE 0
<1>1. /\ TickMod \in Nat \ {0} /\ xTickCount \in 0 .. TickMod - 1 /\ xLastTime \in 0 .. TickMod - 1
      /\ uxPendedTicks \in Nat
      /\ Clock = IF xTickCount < xLastTime THEN xTickCount + uxPendedTicks + TickMod
                 ELSE xTickCount + uxPendedTicks
      /\ Now = xTickCount + uxPendedTicks
      /\ Clock \in Nat
  BY Numbers DEF TimeInv
<1>2. /\ UNCHANGED <<pxCurrentTimerList, pxOverflowTimerList, xLastTime>>
      /\ InLists # {} => Clock - xLastTime < TickMod - 1
  BY DEF TickInterrupt, listVars
<1>3. InLists' = InLists /\ Now' = xTickCount' + uxPendedTicks'
      /\ Clock' = xTickCount' + uxPendedTicks' + IF xTickCount' < xLastTime' THEN TickMod ELSE 0
  BY <1>2 DEF InLists, Now, Clock
<1>4. CASE pc = "switchSuspended"
  <2>1. uxPendedTicks' = uxPendedTicks + 1 /\ xTickCount' = xTickCount
    BY <1>4 DEF TickInterrupt, Suspended
  <2>. QED BY <1>1, <1>2, <1>3, <1>4, <2>1 DEF Tick
<1>5. CASE pc # "switchSuspended"
  <2>1. uxPendedTicks = 0 /\ uxPendedTicks' = 0
    BY <1>5 DEF TickInterrupt, Suspended, TimeInv, ClockInv
  <2>2. xTickCount' = Plus(xTickCount, 1) /\ xTickCount \in Tick /\ 1 \in 0 .. TickMod
    BY <1>1, <1>5 DEF TickInterrupt, Suspended, Tick
  <2>3. xTickCount' = IF xTickCount + 1 < TickMod THEN xTickCount + 1 ELSE 0
    <3>1. xTickCount' = IF xTickCount + 1 < TickMod THEN xTickCount + 1 ELSE xTickCount + 1 - TickMod
      BY <2>2, PlusIs
    <3>. QED BY <1>1, <3>1
  <2>. QED BY <1>1, <1>2, <1>3, <1>5, <2>1, <2>3 DEF Tick
<1>. QED BY <1>4, <1>5

LEMMA TickTime ==
    ASSUME TimeInv, TickInterrupt
    PROVE  TimeInv'
<1>1. /\ TickMod \in Nat \ {0} /\ MaxDelay \in Nat /\ MaxBusy \in Nat /\ Off \notin Int
      /\ MaxBusy + MaxDelay <= TickMod - 1
      /\ xTickCount \in 0 .. TickMod - 1 /\ xLastTime \in 0 .. TickMod - 1
      /\ xTimeNow \in 0 .. TickMod - 1
      /\ uxPendedTicks \in Nat /\ busy \in 0 .. MaxBusy
      /\ \A t \in Timer : xItemValue[t] \in 0 .. TickMod - 1
      /\ Clock = IF xTickCount < xLastTime THEN xTickCount + uxPendedTicks + TickMod
                 ELSE xTickCount + uxPendedTicks
      /\ Clock \in Nat /\ Now \in Nat
  BY Numbers DEF TimeInv
<1>2. /\ xTickCount' \in Tick /\ uxPendedTicks' \in Nat
      /\ Now' = Now + 1 \/ Now' = Now + 1 - TickMod
      /\ InLists' = InLists
      /\ InLists # {} => Clock' = Clock + 1 /\ Clock' - xLastTime' <= TickMod - 1
      /\ pc = "switchSuspended" => uxPendedTicks' = uxPendedTicks + 1 /\ xTickCount' = xTickCount
      /\ pc # "switchSuspended" => /\ uxPendedTicks' = 0
                                   /\ xTickCount' = IF xTickCount + 1 < TickMod
                                                    THEN xTickCount + 1 ELSE 0
      /\ Now' \in Nat
  BY TickClock
<1>3. /\ UNCHANGED <<pxCurrentTimerList, pxOverflowTimerList, xItemValue, xLastTime, xTimeNow,
                     xNextExpireTime, xListWasEmpty, xTimerPeriodInTicks, exists, stopped, halted>>
      /\ called' = None
      /\ xTimerQueue' = [i \in DOMAIN xTimerQueue |-> Older(xTimerQueue[i])]
      /\ xMessage' = IF xMessage = NoMessage THEN xMessage ELSE Older(xMessage)
      /\ pc' = IF pc = "blocked" /\ wake # Off /\ wake' = Off THEN "receive" ELSE pc
      /\ wake' = IF pc # "blocked" \/ wake = Off THEN wake ELSE IF wake <= 1 THEN Off ELSE wake - 1
  BY DEF TickInterrupt, listVars, timerVars
<1>4. /\ pc # "blocked" => busy' = busy + 1 /\ busy' <= MaxBusy
      /\ pc = "blocked" => busy' = 0 /\ xTimerQueue = <<>> /\ xMessage = NoMessage
      /\ busy' \in 0 .. MaxBusy
  BY <1>1 DEF TickInterrupt, TimeInv, DueInv, MessagesInv
<1>5. /\ xTimerQueue' \in Seq(Command) /\ Len(xTimerQueue') = Len(xTimerQueue)
      /\ DOMAIN xTimerQueue' = DOMAIN xTimerQueue
      /\ \A i \in DOMAIN xTimerQueue : /\ xTimerQueue[i] \in Command
                                       /\ xTimerQueue'[i] = Older(xTimerQueue[i])
  BY <1>3, OlderQueue DEF TimeInv, TypeInv
<1>6. TypeInv'
  <2>1. xMessage' \in Command \union {NoMessage}
    BY <1>3, OlderIs DEF TimeInv, TypeInv
  <2>2. wake' \in Nat \union {Off} /\ pc' \in PlaceOfTask
    BY <1>1, <1>3 DEF TimeInv, TypeInv, PlaceOfTask
  <2>3. Len(xTimerQueue') <= QueueLength
    BY <1>5 DEF TimeInv, TypeInv
  <2>. QED BY <1>2, <1>3, <1>4, <1>5, <2>1, <2>2, <2>3 DEF TimeInv, TypeInv
<1>7. ListsInv'
  BY <1>3 DEF TimeInv, ListsInv
<1>8. MessagesInv'
  <2>0. Now' \in Nat
    BY <1>2
  <2>1. pc # "blocked" => busy + MaxDelay \in Nat /\ busy + MaxDelay + 1 <= TickMod - 1
                          /\ busy' + MaxDelay = busy + MaxDelay + 1
    BY <1>1, <1>4
  <2>2. ASSUME NEW i \in DOMAIN xTimerQueue'
        PROVE  Timely(xTimerQueue'[i], Now', busy' + MaxDelay)
    <3>1. pc # "blocked"
      BY <1>4, <1>5
    <3>2. Timely(xTimerQueue[i], Now, busy + MaxDelay) /\ xTimerQueue[i] \in Command
      BY <1>5 DEF TimeInv, MessagesInv
    <3>3. Timely(Older(xTimerQueue[i]), Now', busy + MaxDelay + 1)
      BY <1>1, <1>2, <2>0, <2>1, <3>1, <3>2, OlderTimely
    <3>. QED BY <1>5, <2>1, <3>1, <3>3
  <2>3. CASE pc \in {"sample", "switch", "handle"}
    <3>1. /\ xMessage \in Command /\ Timely(xMessage, Now, busy + MaxDelay)
          /\ xMessage.timer \in Timer /\ xMessage.timer \notin InLists
      BY <2>3 DEF TimeInv, MessagesInv
    <3>2. /\ xMessage' = Older(xMessage) /\ Older(xMessage) \in Command
          /\ Older(xMessage).timer = xMessage.timer
      BY <1>3, <3>1, OlderIs
    <3>3. Timely(Older(xMessage), Now', busy + MaxDelay + 1)
      BY <1>1, <1>2, <2>0, <2>1, <2>3, <3>1, OlderTimely
    <3>. QED BY <1>2, <1>3, <2>1, <2>2, <2>3, <3>1, <3>2, <3>3 DEF MessagesInv
  <2>4. CASE pc \notin {"sample", "switch", "handle"}
    <3>1. xMessage = NoMessage /\ xMessage' = NoMessage
      BY <1>3, <2>4 DEF TimeInv, MessagesInv
    <3>2. pc' \notin {"sample", "switch", "handle"}
      BY <1>3, <2>4
    <3>. QED BY <2>2, <3>1, <3>2 DEF MessagesInv
  <2>. QED BY <2>3, <2>4
<1>9. ClockInv'
  <2>1. uxPendedTicks' <= busy'
    BY <1>1, <1>2, <1>4 DEF TimeInv, ClockInv
  <2>2. pc' # "switchSuspended" => uxPendedTicks' = 0
    BY <1>2, <1>3
  <2>. QED BY <1>2, <2>1, <2>2 DEF ClockInv
<1>10. TaskInv'
  <2>1. CASE pc \in {"switch", "handle"}
    <3>1. pc' = pc /\ xMessage \in Command /\ xMessage' = Older(xMessage)
          /\ xMessage'.age = xMessage.age + 1 /\ xMessage.age \in Nat
      BY <1>3, <2>1, OlderIs DEF TimeInv, MessagesInv
    <3>2. Minus(xTickCount, xTimeNow) <= xMessage.age
      BY <2>1 DEF TimeInv, TaskInv
    <3>3. Minus(xTickCount', xTimeNow) <= xMessage.age + 1
      <4>1. /\ Minus(xTickCount, xTimeNow) = IF xTimeNow <= xTickCount THEN xTickCount - xTimeNow
                                             ELSE xTickCount - xTimeNow + TickMod
            /\ Minus(xTickCount', xTimeNow) = IF xTimeNow <= xTickCount' THEN xTickCount' - xTimeNow
                                              ELSE xTickCount' - xTimeNow + TickMod
        BY <1>1, <1>2, MinusIs DEF Tick
      <4>2. xTickCount' = IF xTickCount + 1 < TickMod THEN xTickCount + 1 ELSE 0
        BY <1>2, <2>1
      <4>. QED BY <1>1, <3>1, <3>2, <4>1, <4>2
    <3>4. pc = "switch" /\ InLists # {} => xTimeNow <= xTickCount' /\ xTickCount' < xLastTime
      <4>. SUFFICES ASSUME pc = "switch", InLists # {}
                    PROVE  xTimeNow <= xTickCount' /\ xTickCount' < xLastTime
        OBVIOUS
      <4>1. xTimeNow <= xTickCount /\ xTickCount < xLastTime
        BY DEF TimeInv, TaskInv
      <4>2. uxPendedTicks = 0 /\ Clock - xLastTime < TickMod - 1
        BY DEF TimeInv, ClockInv, TickInterrupt
      <4>. QED BY <1>1, <1>2, <4>1, <4>2
    <3>5. pc = "handle" => xTimeNow' = xLastTime'
      BY <1>3 DEF TimeInv, TaskInv
    <3>. QED BY <1>2, <1>3, <2>1, <3>1, <3>3, <3>4, <3>5 DEF TaskInv
  <2>2. CASE pc \in {"process", "expired", "switchSuspended"}
    <3>1. pc' = pc
      BY <1>3, <2>2
    <3>. QED BY <1>2, <1>3, <2>2, <3>1 DEF TimeInv, TaskInv
  <2>3. CASE pc \notin {"process", "expired", "switchSuspended", "switch", "handle"}
    <3>1. pc' \notin {"process", "expired", "switchSuspended", "switch", "handle"}
      BY <1>3, <2>3
    <3>. QED BY <3>1 DEF TaskInv
  <2>. QED BY <2>1, <2>2, <2>3
<1>11. DueInv'
  <2>1. \A t \in InLists : t \in Timer /\ ListDue(t) \in Int /\ ListDue(t)' = ListDue(t) - 1
    <3>. SUFFICES ASSUME NEW t \in InLists
                  PROVE  t \in Timer /\ ListDue(t) \in Int /\ ListDue(t)' = ListDue(t) - 1
      OBVIOUS
    <3>1. t \in Timer /\ xItemValue[t] \in Int
      BY <1>1, ListsFit DEF TimeInv
    <3>2. Clock' = Clock + 1
      BY <1>2
    <3>. QED BY <1>1, <1>3, <3>1, <3>2 DEF ListDue
  <2>2. CASE pc # "blocked"
    <3>1. pc' = pc
      BY <1>3, <2>2
    <3>2. \A t \in InLists : ListDue(t) >= -(busy + MaxDelay)
      BY <2>2 DEF TimeInv, DueInv
    <3>. QED BY <1>1, <1>2, <1>4, <2>1, <2>2, <3>1, <3>2 DEF DueInv
  <2>3. CASE pc = "blocked"
    <3>1. \A t \in InLists : wake # Off /\ ListDue(t) >= wake /\ ListDue(t) >= 1
      BY <2>3 DEF TimeInv, DueInv
    <3>2. wake \in Nat \union {Off}
      BY DEF TimeInv, TypeInv
    <3>3. CASE pc' = "blocked"
      <4>1. wake # Off => wake' = wake - 1 /\ wake - 1 >= 1
        <5>. SUFFICES ASSUME wake # Off PROVE wake' = wake - 1 /\ wake - 1 >= 1
          OBVIOUS
        <5>1. wake \in Nat /\ wake' # Off
          BY <1>3, <2>3, <3>2, <3>3
        <5>2. wake' = IF wake <= 1 THEN Off ELSE wake - 1
          BY <1>3, <2>3
        <5>3. ~(wake <= 1)
          BY <5>1, <5>2
        <5>. QED BY <5>1, <5>2, <5>3
      <4>2. xTimerQueue' = <<>>
        BY <1>4, <1>5, <2>3
      <4>3. wake # Off => wake \in Nat /\ wake' # Off
        BY <1>1, <3>2, <4>1
      <4>. QED BY <1>2, <2>1, <3>1, <3>3, <4>1, <4>2, <4>3 DEF DueInv
    <3>4. CASE pc' # "blocked"
      <4>1. \A t \in InLists : ListDue(t)' >= 0
        BY <2>1, <3>1
      <4>2. busy' = 0
        BY <1>4, <2>3
      <4>. QED BY <1>1, <1>2, <2>1, <3>4, <4>1, <4>2 DEF DueInv
    <3>. QED BY <3>3, <3>4
  <2>. QED BY <2>2, <2>3
<1>. QED BY <1>6, <1>7, <1>8, <1>9, <1>10, <1>11 DEF TimeInv
\* Place, seen from the clock.
LEMMA PlaceDue ==
    ASSUME TypeInv, ListsInv, NEW current,
           \/ current = pxCurrentTimerList
           \/ pxCurrentTimerList # <<>> /\ current = Tail(pxCurrentTimerList),
           NEW t \in Timer, t \notin Range(current), t \notin Range(pxOverflowTimerList),
           NEW next \in Tick, NEW where, Place(t, next, where, current),
           UNCHANGED <<xTickCount, uxPendedTicks, xLastTime>>
    PROVE  /\ pxCurrentTimerList' \in Seq(Timer) /\ pxOverflowTimerList' \in Seq(Timer)
           /\ xItemValue' \in [Timer -> Tick]
           /\ ListsInv'
           /\ Clock' = Clock /\ Now' = Now
           /\ Range(current) \subseteq Range(pxCurrentTimerList)
           /\ InLists' = Range(current) \union Range(pxOverflowTimerList)
                             \union IF where \in {"current", "overflow"} THEN {t} ELSE {}
           /\ \A u \in Range(current) \union Range(pxOverflowTimerList) : ListDue(u)' = ListDue(u)
           /\ where = "current" => ListDue(t)' = next - Clock
           /\ where = "overflow" => ListDue(t)' = next + TickMod - Clock
           /\ where = "current" => t \in Range(pxCurrentTimerList')
           /\ where = "overflow" => t \in Range(pxOverflowTimerList')
<1>1. /\ Fits(pxCurrentTimerList, xItemValue) /\ Fits(pxOverflowTimerList, xItemValue)
      /\ Range(pxCurrentTimerList) \intersect Range(pxOverflowTimerList) = {}
      /\ Range(pxCurrentTimerList) \subseteq Timer /\ Range(pxOverflowTimerList) \subseteq Timer
  BY ListsFit
<1>2. Fits(current, xItemValue) /\ Range(current) \subseteq Range(pxCurrentTimerList)
  <2>1. CASE current = pxCurrentTimerList
    BY <1>1, <2>1
  <2>2. CASE pxCurrentTimerList # <<>> /\ current = Tail(pxCurrentTimerList)
    <3>1. /\ Fits(Tail(pxCurrentTimerList), xItemValue)
          /\ Range(Tail(pxCurrentTimerList)) \subseteq Range(pxCurrentTimerList)
      BY <1>1, <2>2, TailIs
    <3>. QED BY <2>2, <3>1
  <2>. QED BY <2>1, <2>2
<1>3. Range(current) \intersect Range(pxOverflowTimerList) = {}
  BY <1>1, <1>2
<1>4. /\ pxCurrentTimerList' \in Seq(Timer) /\ pxOverflowTimerList' \in Seq(Timer)
      /\ xItemValue' \in [Timer -> Tick]
      /\ ListsInv'
      /\ \A u \in Timer : u # t => xItemValue'[u] = xItemValue[u]
      /\ where = "current" => /\ Range(pxCurrentTimerList') = Range(current) \union {t}
                              /\ Range(pxOverflowTimerList') = Range(pxOverflowTimerList)
                              /\ xItemValue'[t] = next
      /\ where = "overflow" => /\ Range(pxCurrentTimerList') = Range(current)
                               /\ Range(pxOverflowTimerList')
                                      = Range(pxOverflowTimerList) \union {t}
                               /\ xItemValue'[t] = next
      /\ where \notin {"current", "overflow"} =>
             /\ Range(pxCurrentTimerList') = Range(current)
             /\ Range(pxOverflowTimerList') = Range(pxOverflowTimerList)
  BY <1>1, <1>2, <1>3, PlaceIs
<1>5. Clock' = Clock /\ Now' = Now
  BY DEF Clock, Now
<1>6. InLists' = Range(current) \union Range(pxOverflowTimerList)
                     \union IF where \in {"current", "overflow"} THEN {t} ELSE {}
  BY <1>4 DEF InLists
<1>7. ASSUME NEW u \in Range(current) \union Range(pxOverflowTimerList)
      PROVE  ListDue(u)' = ListDue(u)
  <2>1. u \in Timer /\ u # t /\ xItemValue'[u] = xItemValue[u]
    BY <1>1, <1>2, <1>4
  <2>2. u \in Range(pxCurrentTimerList) <=> u \in Range(pxCurrentTimerList')
    BY <1>1, <1>2, <1>3, <1>4, <2>1
  <2>. QED BY <1>5, <2>1, <2>2 DEF ListDue
<1>8. where = "current" => ListDue(t)' = next - Clock
  BY <1>4, <1>5 DEF ListDue
<1>9. where = "overflow" => ListDue(t)' = next + TickMod - Clock
  BY <1>4, <1>5 DEF ListDue
<1>. QED BY <1>2, <1>4, <1>5, <1>6, <1>7, <1>8, <1>9

\* The command with which the timer task starts a timer again.
LEMMA RestartIs ==
    ASSUME TypeInv, \A i \in DOMAIN xTimerQueue : Timely(xTimerQueue[i], Now, busy + MaxDelay),
           UNCHANGED <<xTickCount, uxPendedTicks, busy>>,
           \/ NoRestart
           \/ \E t \in Timer, value \in Tick, late \in Nat :
                  /\ Restart(t, value, late)
                  /\ late <= busy + MaxDelay
                  /\ value + late - Now \in {-TickMod, 0, TickMod}
    PROVE  /\ xTimerQueue' \in Seq(Command) /\ Len(xTimerQueue') <= QueueLength
           /\ \A i \in DOMAIN xTimerQueue' : Timely(xTimerQueue'[i], Now', busy' + MaxDelay)
           /\ halted' \in BOOLEAN
<1>1. Now' = Now /\ busy' = busy
  BY DEF Now
<1>2. /\ xTimerQueue \in Seq(Command) /\ Len(xTimerQueue) <= QueueLength /\ halted \in BOOLEAN
      /\ Len(xTimerQueue) \in Nat /\ QueueLength \in Nat
  BY TimersAssumption DEF TypeInv
<1>3. CASE NoRestart
  BY <1>1, <1>2, <1>3 DEF NoRestart
<1>4. ASSUME NEW t \in Timer, NEW value \in Tick, NEW late \in Nat, Restart(t, value, late),
             late <= busy + MaxDelay, value + late - Now \in {-TickMod, 0, TickMod}
      PROVE  /\ xTimerQueue' \in Seq(Command) /\ Len(xTimerQueue') <= QueueLength
             /\ \A i \in DOMAIN xTimerQueue' : Timely(xTimerQueue'[i], Now', busy' + MaxDelay)
             /\ halted' \in BOOLEAN
  <2>. DEFINE m == [id |-> "restart", timer |-> t, value |-> value, age |-> late]
  <2>1. CASE ~(Len(xTimerQueue) < QueueLength)
    BY <1>1, <1>2, <1>4, <2>1 DEF Restart
  <2>2. CASE Len(xTimerQueue) < QueueLength
    <3>1. xTimerQueue' = Append(xTimerQueue, m) /\ halted' \in BOOLEAN
      BY <1>4, <2>2 DEF Restart
    <3>2. m \in Command /\ Timely(m, Now, busy + MaxDelay)
      BY <1>4, TimersAssumption DEF Command, Timely
    <3>. HIDE DEF m
    <3>3. /\ xTimerQueue' \in Seq(Command) /\ Len(xTimerQueue') = Len(xTimerQueue) + 1
          /\ DOMAIN xTimerQueue' = 1 .. Len(xTimerQueue) + 1
          /\ DOMAIN xTimerQueue = 1 .. Len(xTimerQueue)
          /\ \A i \in DOMAIN xTimerQueue : xTimerQueue'[i] = xTimerQueue[i]
          /\ xTimerQueue'[Len(xTimerQueue) + 1] = m
      BY <1>2, <3>1, <3>2, AppendIs
    <3>4. ASSUME NEW i \in DOMAIN xTimerQueue' PROVE Timely(xTimerQueue'[i], Now', busy' + MaxDelay)
      <4>1. i \in DOMAIN xTimerQueue \/ i = Len(xTimerQueue) + 1
        BY <1>2, <3>3
      <4>. QED BY <1>1, <3>2, <3>3, <4>1
    <3>. QED BY <1>2, <2>2, <3>1, <3>3, <3>4
  <2>. QED BY <2>1, <2>2
<1>. QED BY <1>3, <1>4
---------------------------------------------------------------------------
\* A command of the application, or a function to call.
LEMMA SendTime ==
    ASSUME TimeInv, NEW m \in Command,
           m.age <= uxPendedTicks + MaxDelay,
           m.id = "execute" <=> m.timer = None, m.id = "changePeriod" => m.value # 0,
           m.id \in {"start", "restart"} => m.value + m.age - Now \in {-TickMod, 0, TickMod},
           Len(xTimerQueue) < QueueLength - Reserved,
           xTimerQueue' = Append(xTimerQueue, m),
           IF pc = "blocked" THEN pc' = "receive" /\ wake' = Off /\ busy' = 0
           ELSE UNCHANGED <<pc, wake, busy>>,
           called' = None,
           UNCHANGED <<xNextExpireTime, xListWasEmpty, xTimeNow, xMessage, xTickCount, uxPendedTicks,
                       listVars, timerVars, xLastTime, halted>>
    PROVE  TimeInv'
<1>1. /\ MaxDelay \in Nat /\ MaxBusy \in Nat /\ uxPendedTicks \in Nat /\ busy \in 0 .. MaxBusy
      /\ QueueLength \in Nat /\ Reserved \in Nat
  BY Numbers, TimersAssumption DEF TimeInv
<1>2. /\ Clock' = Clock /\ Now' = Now /\ InLists' = InLists
      /\ UNCHANGED <<pxCurrentTimerList, pxOverflowTimerList, xItemValue, xTimerPeriodInTicks,
                     exists, stopped>>
  BY DEF Clock, Now, InLists, listVars, timerVars
<1>3. /\ pc = "blocked" => pc' = "receive" /\ busy' = 0 /\ xTimerQueue = <<>> /\ uxPendedTicks = 0
      /\ pc # "blocked" => pc' = pc /\ busy' = busy
      /\ busy' \in 0 .. MaxBusy /\ wake' \in Nat \union {Off}
      /\ uxPendedTicks <= busy'
  BY <1>1 DEF TimeInv, TypeInv, DueInv, ClockInv
<1>4. /\ xTimerQueue \in Seq(Command) /\ Len(xTimerQueue) \in Nat
      /\ xTimerQueue' \in Seq(Command) /\ Len(xTimerQueue') = Len(xTimerQueue) + 1
      /\ DOMAIN xTimerQueue' = 1 .. Len(xTimerQueue) + 1
      /\ DOMAIN xTimerQueue = 1 .. Len(xTimerQueue)
      /\ \A i \in DOMAIN xTimerQueue : xTimerQueue'[i] = xTimerQueue[i]
      /\ xTimerQueue'[Len(xTimerQueue) + 1] = m
  BY AppendIs DEF TimeInv, TypeInv
<1>5. TypeInv'
  <2>1. pc' \in PlaceOfTask /\ Len(xTimerQueue') <= QueueLength
    BY <1>1, <1>3, <1>4 DEF TimeInv, TypeInv, PlaceOfTask
  <2>. QED BY <1>2, <1>3, <1>4, <2>1 DEF TimeInv, TypeInv
<1>6. ListsInv'
  BY <1>2 DEF TimeInv, ListsInv
<1>7. MessagesInv'
  <2>1. ASSUME NEW i \in DOMAIN xTimerQueue' PROVE Timely(xTimerQueue'[i], Now', busy' + MaxDelay)
    <3>1. CASE i = Len(xTimerQueue) + 1
      <4>1. m.age <= busy' + MaxDelay
        <5>1. m.age \in Nat
          BY DEF Command
        <5>. QED BY <1>1, <1>3, <5>1
      <4>. QED BY <1>2, <1>4, <3>1, <4>1 DEF Timely
    <3>2. CASE i \in DOMAIN xTimerQueue
      <4>1. pc # "blocked"
        BY <1>3, <1>4, <3>2
      <4>. QED BY <1>2, <1>3, <1>4, <3>2, <4>1 DEF TimeInv, MessagesInv
    <3>. QED BY <1>4, <3>1, <3>2
  <2>2. CASE pc = "blocked"
    BY <1>3, <2>1, <2>2 DEF TimeInv, MessagesInv
  <2>3. CASE pc # "blocked"
    BY <1>2, <1>3, <2>1, <2>3 DEF TimeInv, MessagesInv
  <2>. QED BY <2>2, <2>3
<1>8. ClockInv'
  BY <1>2, <1>3 DEF TimeInv, ClockInv
<1>9. TaskInv'
  BY <1>2, <1>3 DEF TimeInv, TaskInv
<1>10. DueInv'
  <2>1. \A t \in InLists : ListDue(t)' = ListDue(t)
    BY <1>2 DEF ListDue
  <2>2. pc' # "blocked"
    BY <1>3
  <2>3. \A t \in InLists : ListDue(t) >= -(busy' + MaxDelay)
    <3>1. CASE pc = "blocked"
      <4>. SUFFICES ASSUME NEW t \in InLists PROVE ListDue(t) >= -(busy' + MaxDelay)
        OBVIOUS
      <4>1. ListDue(t) >= 1
        BY <3>1 DEF TimeInv, DueInv
      <4>2. ListDue(t) \in Int
        BY DueIsInt DEF TimeInv
      <4>. QED BY <1>1, <1>3, <3>1, <4>1, <4>2
    <3>2. CASE pc # "blocked"
      BY <1>3, <3>2 DEF TimeInv, DueInv
    <3>. QED BY <3>1, <3>2
  <2>. QED BY <1>2, <2>1, <2>2, <2>3 DEF DueInv
<1>. QED BY <1>5, <1>6, <1>7, <1>8, <1>9, <1>10 DEF TimeInv

LEMMA CommandTime ==
    ASSUME TimeInv, NEW t \in Timer, xTimerStart(t) \/ xTimerStop(t) \/ xTimerChangePeriod(t) \/ xTimerDelete(t)
    PROVE  TimeInv'
<1>1. /\ TickMod \in Nat \ {0} /\ MaxDelay \in Nat /\ MaxBusy \in Nat /\ 0 \in Tick
      /\ MaxBusy + MaxDelay <= TickMod - 1 /\ uxPendedTicks \in Nat /\ xTickCount \in Tick
      /\ Now = xTickCount + uxPendedTicks /\ t # None
  BY Numbers, TimersAssumption DEF TimeInv, Tick
<1>2. ASSUME NEW id \in {"start", "stop", "changePeriod", "delete"}, NEW value \in Tick, NEW age \in Nat,
             xTimerGenericCommand(t, id, value, age), age <= uxPendedTicks + MaxDelay,
             id = "changePeriod" => value # 0,
             id = "start" => value + age - Now \in {-TickMod, 0, TickMod}
      PROVE  TimeInv'
  <2>. DEFINE m == [id |-> id, timer |-> t, value |-> value, age |-> age]
  <2>1. /\ m \in Command
        /\ m.id = id /\ m.timer = t /\ m.value = value /\ m.age = age
    BY <1>2 DEF Command
  <2>2. /\ Len(xTimerQueue) < QueueLength - Reserved
        /\ xTimerQueue' = Append(xTimerQueue, m)
        /\ IF pc = "blocked" THEN pc' = "receive" /\ wake' = Off /\ busy' = 0
           ELSE UNCHANGED <<pc, wake, busy>>
        /\ called' = None
        /\ UNCHANGED <<xNextExpireTime, xListWasEmpty, xTimeNow, xMessage, xTickCount, uxPendedTicks,
                       listVars, timerVars, xLastTime, halted>>
    BY <1>2 DEF xTimerGenericCommand
  <2>. HIDE DEF m
  <2>3. /\ m.age <= uxPendedTicks + MaxDelay
        /\ m.id = "execute" <=> m.timer = None
        /\ m.id = "changePeriod" => m.value # 0
        /\ m.id \in {"start", "restart"} => m.value + m.age - Now \in {-TickMod, 0, TickMod}
    BY <1>1, <1>2, <2>1
  <2>. QED BY <2>1, <2>2, <2>3, SendTime
<1>3. CASE xTimerStart(t)
  <2>1. PICK d \in 0 .. MaxDelay :
            xTimerGenericCommand(t, "start", Minus(xTickCount, d), uxPendedTicks + d)
    BY <1>3 DEF xTimerStart
  <2>2. d \in Tick
    BY <1>1 DEF Tick
  <2>3. /\ Minus(xTickCount, d) \in Tick
        /\ Minus(xTickCount, d) = IF d <= xTickCount THEN xTickCount - d ELSE xTickCount - d + TickMod
    BY <1>1, <2>2, MinusIs
  <2>4. Minus(xTickCount, d) + (uxPendedTicks + d) - Now \in {-TickMod, 0, TickMod}
    BY <1>1, <2>2, <2>3 DEF Tick
  <2>5. uxPendedTicks + d \in Nat /\ uxPendedTicks + d <= uxPendedTicks + MaxDelay
    BY <1>1
  <2>. QED BY <1>2, <2>1, <2>3, <2>4, <2>5
<1>4. CASE xTimerStop(t)
  BY <1>1, <1>2, <1>4 DEF xTimerStop
<1>5. CASE xTimerChangePeriod(t)
  <2>1. PICK p \in Periods : xTimerGenericCommand(t, "changePeriod", p, 0)
    BY <1>5 DEF xTimerChangePeriod
  <2>2. p \in Tick /\ p # 0
    BY TimersAssumption DEF Tick
  <2>. QED BY <1>1, <1>2, <2>1, <2>2
<1>6. CASE xTimerDelete(t)
  BY <1>1, <1>2, <1>6 DEF xTimerDelete
<1>. QED BY <1>3, <1>4, <1>5, <1>6

LEMMA PendTime ==
    ASSUME TimeInv, xTimerPendFunctionCall
    PROVE  TimeInv'
<1>. DEFINE m == [NoMessage EXCEPT !.id = "execute"]
<1>1. /\ MaxDelay \in Nat /\ 0 \in Tick /\ uxPendedTicks \in Nat
  BY Numbers, TimersAssumption DEF TimeInv, Tick
<1>2. /\ m \in Command /\ m.id = "execute" /\ m.timer = None /\ m.age = 0
  BY <1>1 DEF Command, NoMessage
<1>3. /\ Len(xTimerQueue) < QueueLength - Reserved
      /\ xTimerQueue' = Append(xTimerQueue, m)
      /\ IF pc = "blocked" THEN pc' = "receive" /\ wake' = Off /\ busy' = 0
         ELSE UNCHANGED <<pc, wake, busy>>
      /\ called' = None
      /\ UNCHANGED <<xNextExpireTime, xListWasEmpty, xTimeNow, xMessage, xTickCount, uxPendedTicks,
                     listVars, timerVars, xLastTime, halted>>
  BY DEF xTimerPendFunctionCall
<1>. HIDE DEF m
<1>4. /\ m.age <= uxPendedTicks + MaxDelay
      /\ m.id = "execute" <=> m.timer = None
      /\ m.id = "changePeriod" => m.value # 0
      /\ m.id \in {"start", "restart"} => m.value + m.age - Now \in {-TickMod, 0, TickMod}
  BY <1>1, <1>2
<1>. QED BY <1>2, <1>3, <1>4, SendTime

LEMMA CreateTime ==
    ASSUME TimeInv, NEW t \in Timer, xTimerCreate(t)
    PROVE  TimeInv'
<1>1. /\ UNCHANGED <<pc, xNextExpireTime, xListWasEmpty, xTimeNow, xMessage, wake, xTickCount,
                     uxPendedTicks, busy, pxCurrentTimerList, pxOverflowTimerList, xItemValue,
                     xTimerQueue, xLastTime, halted, stopped>>
      /\ called' = None
      /\ exists' = [exists EXCEPT ![t] = TRUE]
      /\ xTimerPeriodInTicks' = [xTimerPeriodInTicks EXCEPT ![t] = InitialPeriod[t]]
  BY DEF xTimerCreate, taskVars, timeVars, listVars
<1>2. TypeInv'
  <2>1. InitialPeriod[t] \in Tick \ {0}
    BY TimersAssumption DEF Tick
  <2>. QED BY <1>1, <2>1 DEF TimeInv, TypeInv
<1>3. Clock' = Clock /\ Now' = Now /\ InLists' = InLists
  BY <1>1 DEF Clock, Now, InLists
<1>4. \A u \in InLists : ListDue(u)' = ListDue(u)
  BY <1>1, <1>3 DEF ListDue
<1>. QED BY <1>1, <1>2, <1>3, <1>4 DEF TimeInv, ListsInv, MessagesInv, ClockInv, TaskInv, DueInv
---------------------------------------------------------------------------
(* The timer task *)

LEMMA NextExpireTime ==
    ASSUME TimeInv, prvGetNextExpireTime
    PROVE  TimeInv'
<1>1. /\ UNCHANGED <<xTimeNow, xMessage, wake, xTickCount, uxPendedTicks, busy, pxCurrentTimerList,
                     pxOverflowTimerList, xItemValue, xTimerPeriodInTicks, exists, stopped,
                     xTimerQueue, xLastTime, halted>>
      /\ called' = None /\ pc = "next" /\ pc' = "process"
      /\ xListWasEmpty' = (pxCurrentTimerList = <<>>)
      /\ xNextExpireTime' = IF pxCurrentTimerList = <<>> THEN 0
                            ELSE xItemValue[Head(pxCurrentTimerList)]
  BY DEF prvGetNextExpireTime, timeVars, listVars, timerVars
<1>2. TypeInv'
  <2>1. xNextExpireTime' \in Tick
    <3>1. pxCurrentTimerList # <<>> => Head(pxCurrentTimerList) \in Timer
      BY HeadIs, ListsFit DEF TimeInv
    <3>. QED BY <1>1, <3>1, TimersAssumption DEF TimeInv, TypeInv, Tick
  <2>2. xListWasEmpty' \in BOOLEAN /\ pc' \in PlaceOfTask
    BY <1>1 DEF PlaceOfTask
  <2>. QED BY <1>1, <2>1, <2>2 DEF TimeInv, TypeInv
<1>3. Clock' = Clock /\ Now' = Now /\ InLists' = InLists
  BY <1>1 DEF Clock, Now, InLists
<1>4. \A u \in InLists : ListDue(u)' = ListDue(u)
  BY <1>1, <1>3 DEF ListDue
<1>5. TaskInv'
  BY <1>1 DEF TaskInv
<1>6. MessagesInv'
  BY <1>1, <1>3 DEF TimeInv, MessagesInv
<1>. QED BY <1>1, <1>2, <1>3, <1>4, <1>5, <1>6 DEF TimeInv, ListsInv, ClockInv, DueInv

\* Sampling the time sets the clock of the lists back to the tick count, or waits for the wrap.
LEMMA SampleClock ==
    ASSUME TimeInv, uxPendedTicks = 0, UNCHANGED <<xTickCount, uxPendedTicks, listVars>>,
           IF xTickCount < xLastTime THEN UNCHANGED xLastTime ELSE xLastTime' = xTickCount
    PROVE  /\ Clock' = Clock /\ Now' = Now /\ InLists' = InLists
           /\ \A t \in InLists : ListDue(t)' = ListDue(t)
           /\ InLists' # {} => Clock' - xLastTime' <= TickMod - 1
           /\ ListsInv'
<1>1. UNCHANGED <<pxCurrentTimerList, pxOverflowTimerList, xItemValue>>
  BY DEF listVars
<1>2. /\ TickMod \in Nat \ {0} /\ xTickCount \in 0 .. TickMod - 1
      /\ xLastTime \in 0 .. TickMod - 1
  BY Numbers DEF TimeInv
<1>3. Clock' = Clock /\ Now' = Now /\ InLists' = InLists
  BY <1>1, <1>2 DEF Clock, Now, InLists
<1>4. \A t \in InLists : ListDue(t)' = ListDue(t)
  BY <1>1, <1>3 DEF ListDue
<1>5. InLists' # {} => Clock' - xLastTime' <= TickMod - 1
  BY <1>2, <1>3 DEF Clock, TimeInv, ClockInv
<1>6. ListsInv'
  BY <1>1 DEF TimeInv, ListsInv
<1>. QED BY <1>3, <1>4, <1>5, <1>6

LEMMA ProcessTime ==
    ASSUME TimeInv, prvProcessTimerOrBlockTask
    PROVE  TimeInv'
<1>1. /\ TickMod \in Nat \ {0} /\ MaxDelay \in Nat /\ Off \notin Int
      /\ xTickCount \in 0 .. TickMod - 1 /\ xLastTime \in 0 .. TickMod - 1
      /\ xNextExpireTime \in 0 .. TickMod - 1 /\ busy \in 0 .. MaxBusy
      /\ \A t \in Timer : xItemValue[t] \in 0 .. TickMod - 1
      /\ 0 \in Tick
  BY Numbers, TimersAssumption DEF TimeInv, Tick
<1>2. /\ UNCHANGED <<xMessage, xTickCount, uxPendedTicks, busy, listVars, pxCurrentTimerList,
                     pxOverflowTimerList, xItemValue, xTimerPeriodInTicks, exists, stopped,
                     xTimerQueue, halted>>
      /\ pc = "process" /\ called' = None /\ xListWasEmpty' = TRUE
      /\ uxPendedTicks = 0 /\ xMessage = NoMessage
  BY DEF prvProcessTimerOrBlockTask, timeVars, listVars, timerVars, TimeInv, ClockInv, MessagesInv
<1>3. IF xTickCount < xLastTime THEN UNCHANGED xLastTime ELSE xLastTime' = xTickCount
  <2>1. CASE SampleTimeNow("expired", "switchSuspended")
    BY <2>1 DEF SampleTimeNow
  <2>2. CASE xTickCount >= xLastTime /\ xLastTime' = xTickCount
    <3>1. ~(xTickCount < xLastTime)
      BY <1>1, <2>2
    <3>. QED BY <2>2, <3>1
  <2>. QED BY <2>1, <2>2 DEF prvProcessTimerOrBlockTask
<1>4. /\ Clock' = Clock /\ Now' = Now /\ InLists' = InLists
      /\ \A t \in InLists : ListDue(t)' = ListDue(t)
      /\ InLists' # {} => Clock' - xLastTime' <= TickMod - 1
      /\ ListsInv'
  BY <1>2, <1>3, SampleClock
<1>. DEFINE expired == ~xListWasEmpty /\ xNextExpireTime <= xTickCount
<1>5. /\ xListWasEmpty => pxCurrentTimerList = <<>>
      /\ ~xListWasEmpty => /\ pxCurrentTimerList # <<>>
                           /\ xNextExpireTime = xItemValue[Head(pxCurrentTimerList)]
      /\ xListWasEmpty \in BOOLEAN
  BY <1>2 DEF TimeInv, TaskInv, TypeInv
<1>6. \A t \in InLists : ListDue(t) >= -(busy + MaxDelay)
  BY <1>2 DEF TimeInv, DueInv
<1>7. CASE xTickCount < xLastTime \/ expired
  <2>1. /\ xTimeNow' = xTickCount /\ UNCHANGED wake
        /\ xNextExpireTime' = IF xTickCount < xLastTime THEN 0 ELSE xNextExpireTime
        /\ pc' = IF xTickCount < xLastTime THEN "switchSuspended" ELSE "expired"
    BY <1>1, <1>7 DEF prvProcessTimerOrBlockTask, SampleTimeNow
  <2>2. TypeInv'
    <3>1. /\ xTimeNow' \in Tick /\ xLastTime' \in Tick /\ xNextExpireTime' \in Tick
          /\ pc' \in PlaceOfTask /\ xListWasEmpty' \in BOOLEAN
      BY <1>1, <1>2, <1>3, <2>1 DEF Tick, PlaceOfTask
    <3>. QED BY <1>2, <2>1, <3>1 DEF TimeInv, TypeInv
  <2>3. MessagesInv'
    BY <1>2, <1>4, <2>1 DEF TimeInv, MessagesInv
  <2>4. ClockInv'
    BY <1>1, <1>2, <1>4 DEF TimeInv, ClockInv
  <2>5. TaskInv'
    BY <1>1, <1>2, <1>3, <1>5, <1>7, <2>1 DEF TaskInv
  <2>6. DueInv'
    BY <1>2, <1>4, <1>6, <2>1 DEF DueInv
  <2>. QED BY <1>4, <2>2, <2>3, <2>4, <2>5, <2>6 DEF TimeInv
<1>8. CASE ~(xTickCount < xLastTime) /\ ~expired
  <2>1. /\ xLastTime' = xTickCount /\ xNextExpireTime' = 0 /\ UNCHANGED xTimeNow
        /\ Block(Minus(xNextExpireTime, xTickCount),
                 xListWasEmpty /\ pxOverflowTimerList = <<>>)
    BY <1>1, <1>8 DEF prvProcessTimerOrBlockTask
  <2>2. Minus(xNextExpireTime, xTickCount) = IF xTickCount <= xNextExpireTime
                                             THEN xNextExpireTime - xTickCount
                                             ELSE xNextExpireTime - xTickCount + TickMod
    BY <1>1, MinusIs DEF Tick
  <2>3. /\ Minus(xNextExpireTime, xTickCount) \in Nat
        /\ pc' \in {"blocked", "receive"}
        /\ pc' = "blocked" => /\ xTimerQueue = <<>>
                              /\ wake' = IF xListWasEmpty /\ pxOverflowTimerList = <<>> THEN Off
                                         ELSE Minus(xNextExpireTime, xTickCount)
        /\ pc' # "blocked" => UNCHANGED wake
    BY <1>1, <2>1, <2>2 DEF Block
  <2>4. TypeInv'
    <3>1. /\ xLastTime' \in Tick /\ xNextExpireTime' \in Tick
          /\ pc' \in PlaceOfTask /\ xListWasEmpty' \in BOOLEAN
      BY <1>1, <1>2, <2>1, <2>3 DEF Tick, PlaceOfTask
    <3>2. wake' \in Nat \union {Off}
      BY <2>3 DEF TimeInv, TypeInv
    <3>. QED BY <1>2, <2>1, <3>1, <3>2 DEF TimeInv, TypeInv
  <2>5. MessagesInv'
    BY <1>2, <1>4, <2>3 DEF TimeInv, MessagesInv
  <2>6. ClockInv'
    BY <1>1, <1>2, <1>4 DEF TimeInv, ClockInv
  <2>7. TaskInv'
    BY <2>3 DEF TaskInv
  <2>8. DueInv'
    <3>1. CASE pc' = "receive"
      BY <1>2, <1>4, <1>6, <3>1 DEF DueInv
    <3>2. CASE pc' = "blocked"
      <4>1. ASSUME NEW t \in InLists
            PROVE  wake' # Off /\ ListDue(t) >= wake' /\ ListDue(t) >= 1
        <5>1. /\ t \in Timer /\ xItemValue[t] \in 0 .. TickMod - 1
              /\ t \in Range(pxCurrentTimerList) \/ t \in Range(pxOverflowTimerList)
              /\ Clock = xTickCount
          BY <1>1, <1>2, <1>8, ListsFit DEF TimeInv, Clock
        <5>2. CASE pxCurrentTimerList # <<>>
          <6>1. xNextExpireTime = xItemValue[Head(pxCurrentTimerList)] /\ xNextExpireTime > xTickCount
            BY <1>1, <1>5, <1>8, <5>2
          <6>2. wake' = xNextExpireTime - xTickCount
            BY <1>1, <1>5, <2>2, <2>3, <3>2, <5>2, <6>1
          <6>3. t \in Range(pxCurrentTimerList) => xNextExpireTime <= xItemValue[t]
            BY <5>2, <6>1, HeadIs, ListsFit DEF TimeInv
          <6>. QED BY <1>1, <5>1, <6>1, <6>2, <6>3 DEF ListDue
        <5>3. CASE pxCurrentTimerList = <<>>
          <6>1. t \in Range(pxOverflowTimerList) /\ t \notin Range(pxCurrentTimerList)
            BY <5>1, <5>3, ListsFit DEF TimeInv
          <6>2. pxOverflowTimerList # <<>>
            BY <6>1, ListsFit DEF TimeInv
          <6>3. wake' = Minus(xNextExpireTime, xTickCount)
            BY <2>3, <3>2, <6>2
          <6>4. xNextExpireTime = 0 \/ ~xListWasEmpty
            BY <1>2 DEF TimeInv, TaskInv
          <6>5. xListWasEmpty
            BY <1>5, <5>3
          <6>6. ListDue(t) = xItemValue[t] + TickMod - Clock
            BY <6>1 DEF ListDue
          <6>. QED BY <1>1, <2>2, <5>1, <6>3, <6>4, <6>5, <6>6
        <5>. QED BY <5>2, <5>3
      <4>. QED BY <1>2, <1>4, <2>3, <3>2, <4>1 DEF DueInv
    <3>. QED BY <2>3, <3>1, <3>2
  <2>. QED BY <1>4, <2>4, <2>5, <2>6, <2>7, <2>8 DEF TimeInv
<1>. QED BY <1>7, <1>8
---------------------------------------------------------------------------
(***************************************************************************)
(* The timer at the head of the current list expires: called and, if it    *)
(* starts again, put in the list where it is due a period later, or sent   *)
(* to the queue when it has expired again.  prvProcessExpiredTimer and     *)
(* prvSwitchTimerLists do the same to the time.                            *)
(***************************************************************************)
Expires(t) ==
    \E next \in Tick, expired \in Tick, where \in {"current", "overflow", "now", "none"} :
        /\ pxCurrentTimerList # <<>> /\ t = Head(pxCurrentTimerList)
        /\ Place(t, next, where, Tail(pxCurrentTimerList))
        /\ expired - Clock = ListDue(t) /\ ListDue(t) <= 0
        /\ where = "none" <=> t \notin AutoReload
        /\ where = "current" => next - Clock = ListDue(t) + xTimerPeriodInTicks[t]
        /\ where = "overflow" => next + TickMod - Clock = ListDue(t) + xTimerPeriodInTicks[t]
        /\ IF where = "now" THEN Restart(t, expired, Clock - expired) ELSE NoRestart
        /\ called' = t
        /\ UNCHANGED <<xTickCount, uxPendedTicks, busy, xLastTime, xTimerPeriodInTicks, exists,
                       stopped, xMessage, wake>>

\* The head of the current list.
LEMMA HeadDue ==
    ASSUME TypeInv, ListsInv, pxCurrentTimerList # <<>>, NEW t, t = Head(pxCurrentTimerList)
    PROVE  /\ t \in Timer /\ t \in InLists /\ t \in Range(pxCurrentTimerList)
           /\ t \notin Range(Tail(pxCurrentTimerList)) /\ t \notin Range(pxOverflowTimerList)
           /\ Range(Tail(pxCurrentTimerList)) = Range(pxCurrentTimerList) \ {t}
           /\ xItemValue[t] \in Tick /\ xTimerPeriodInTicks[t] \in Tick \ {0}
           /\ ListDue(t) = xItemValue[t] - Clock
<1>1. /\ Fits(pxCurrentTimerList, xItemValue)
      /\ Range(pxCurrentTimerList) \intersect Range(pxOverflowTimerList) = {}
      /\ InLists = Range(pxCurrentTimerList) \union Range(pxOverflowTimerList)
  BY ListsFit
<1>2. t \in Range(pxCurrentTimerList) /\ t \in Timer
  BY <1>1, HeadIs
<1>3. Range(Tail(pxCurrentTimerList)) = Range(pxCurrentTimerList) \ {t}
  BY <1>1, TailIs
<1>4. xItemValue[t] \in Tick /\ xTimerPeriodInTicks[t] \in Tick \ {0}
  BY <1>2 DEF TypeInv
<1>. QED BY <1>1, <1>2, <1>3, <1>4 DEF ListDue

LEMMA ExpiredIs ==
    ASSUME TimeInv, prvProcessExpiredTimer
    PROVE  Expires(Head(pxCurrentTimerList))
<1>. DEFINE t == Head(pxCurrentTimerList)
            period == xTimerPeriodInTicks[t]
            next == Plus(xNextExpireTime, period)
            where == IF t \in AutoReload
                     THEN Placement(next, xTimeNow, xNextExpireTime, period) ELSE "none"
<1>1. /\ pxCurrentTimerList # <<>> /\ xNextExpireTime = xItemValue[t]
      /\ xNextExpireTime <= xTimeNow /\ xTimeNow = xLastTime
  BY DEF prvProcessExpiredTimer, TimeInv, TaskInv
<1>2. t \in Timer /\ period \in Tick \ {0} /\ ListDue(t) = xNextExpireTime - Clock
  BY <1>1, HeadDue DEF TimeInv
<1>3. /\ TickMod \in Nat \ {0} /\ xTimeNow \in 0 .. TickMod - 1 /\ xNextExpireTime \in 0 .. TickMod - 1
      /\ Clock \in Nat /\ Clock >= xLastTime
      /\ xTimeNow \in Tick /\ xNextExpireTime \in Tick
  BY Numbers DEF TimeInv, Tick
<1>4. /\ Place(t, next, where, Tail(pxCurrentTimerList))
      /\ IF where = "now" THEN Restart(t, xNextExpireTime, Clock - xNextExpireTime) ELSE NoRestart
      /\ called' = t
      /\ UNCHANGED <<xTickCount, uxPendedTicks, busy, xLastTime, xTimerPeriodInTicks, exists,
                     stopped, xMessage, wake>>
  BY DEF prvProcessExpiredTimer, timeVars, timerVars
<1>5. next \in Tick
  <2>1. period \in 0 .. TickMod
    BY <1>2, <1>3 DEF Tick
  <2>. QED BY <1>3, <2>1, PlusIs
<1>6. /\ where \in {"current", "overflow", "now", "none"}
      /\ where = "none" <=> t \notin AutoReload
      /\ where = "current" => next - Clock = ListDue(t) + period
      /\ where = "overflow" => next + TickMod - Clock = ListDue(t) + period
  <2>1. CASE t \notin AutoReload
    BY <2>1
  <2>2. CASE t \in AutoReload
    <3>. DEFINE age == Minus(xTimeNow, xNextExpireTime)
    <3>1. age = xTimeNow - xNextExpireTime /\ age \in Tick
      BY <1>1, <1>3, MinusIs
    <3>2. where = Placement(next, xTimeNow, xNextExpireTime, period)
      BY <2>2
    <3>. HIDE DEF where, age
    <3>3. /\ where \in {"now", "overflow", "current"}
          /\ where = "current" => next - xTimeNow = period - age
          /\ where = "overflow" => next + TickMod - xTimeNow = period - age
      <4>. DEFINE n == next
                  p == period
      <4>1. /\ n \in Tick /\ p \in Tick \ {0} /\ n = Plus(xNextExpireTime, p)
            /\ where = Placement(n, xTimeNow, xNextExpireTime, p)
            /\ age = Minus(xTimeNow, xNextExpireTime)
        BY <1>2, <1>5, <3>2 DEF age
      <4>. HIDE DEF n, p
      <4>2. /\ where \in {"now", "overflow", "current"}
            /\ where = "current" => n - xTimeNow = p - age
            /\ where = "overflow" => n + TickMod - xTimeNow = p - age
        BY <1>3, <3>1, <4>1, PlacementIs
      <4>. QED BY <4>2 DEF n, p
    <3>4. next \in Int /\ period \in Int /\ age \in Int
      BY <1>2, <1>3, <1>5, <3>1 DEF Tick
    <3>. HIDE DEF next, period
    <3>. QED BY <1>2, <1>3, <2>2, <3>1, <3>3, <3>4
  <2>. QED BY <2>1, <2>2
<1>7. ListDue(t) <= 0 /\ xNextExpireTime - Clock = ListDue(t)
  BY <1>1, <1>2, <1>3
<1>. HIDE DEF t, next, where, period
<1>8. \E n \in Tick, e \in Tick, w \in {"current", "overflow", "now", "none"} :
        /\ pxCurrentTimerList # <<>> /\ t = Head(pxCurrentTimerList)
        /\ Place(t, n, w, Tail(pxCurrentTimerList))
        /\ e - Clock = ListDue(t) /\ ListDue(t) <= 0
        /\ w = "none" <=> t \notin AutoReload
        /\ w = "current" => n - Clock = ListDue(t) + period
        /\ w = "overflow" => n + TickMod - Clock = ListDue(t) + period
        /\ IF w = "now" THEN Restart(t, e, Clock - e) ELSE NoRestart
        /\ called' = t
        /\ UNCHANGED <<xTickCount, uxPendedTicks, busy, xLastTime, xTimerPeriodInTicks, exists,
                       stopped, xMessage, wake>>
  <2>1. t = Head(pxCurrentTimerList)
    BY DEF t
  <2>. next \in Tick /\ xNextExpireTime \in Tick /\ where \in {"current", "overflow", "now", "none"}
    BY <1>3, <1>5, <1>6
  <2>. WITNESS next \in Tick, xNextExpireTime \in Tick, where \in {"current", "overflow", "now", "none"}
  <2>. QED BY <1>1, <1>4, <1>6, <1>7, <2>1
<1>. QED BY <1>8 DEF Expires, t, period

LEMMA SwitchIs ==
    ASSUME TimeInv, prvSwitchTimerLists
    PROVE  Expires(Head(pxCurrentTimerList)) /\ UNCHANGED taskVars
<1>. DEFINE t == Head(pxCurrentTimerList)
            period == xTimerPeriodInTicks[t]
            expired == xItemValue[t]
            reload == Plus(expired, period)
            where == IF t \notin AutoReload THEN "none" ELSE IF reload > expired THEN "current" ELSE "now"
<1>1. pc \in {"switch", "switchSuspended"} /\ pxCurrentTimerList # <<>> /\ called' = t
      /\ UNCHANGED <<xTickCount, uxPendedTicks, busy, xLastTime, xTimerPeriodInTicks, exists,
                     stopped, xMessage, wake>>
      /\ UNCHANGED taskVars
  BY DEF prvSwitchTimerLists, timeVars, timerVars, taskVars
<1>2. /\ t \in Timer /\ period \in Tick \ {0} /\ ListDue(t) = expired - Clock /\ expired \in Tick
      /\ t \in InLists
  BY <1>1, HeadDue DEF TimeInv
<1>3. /\ TickMod \in Nat \ {0} /\ Clock \in Nat /\ uxPendedTicks \in Nat /\ xTickCount \in Nat
      /\ Clock = IF xTickCount < xLastTime THEN xTickCount + uxPendedTicks + TickMod
                 ELSE xTickCount + uxPendedTicks
  BY Numbers DEF TimeInv
<1>4. xTickCount < xLastTime
  BY <1>1, <1>2 DEF TimeInv, TaskInv
<1>5. expired - Clock <= 0
  BY <1>2, <1>3, <1>4 DEF Tick
<1>6. reload \in Tick /\ reload = IF expired + period < TickMod THEN expired + period
                                  ELSE expired + period - TickMod
  <2>1. period \in 0 .. TickMod
    BY <1>2, <1>3 DEF Tick
  <2>. QED BY <1>2, <2>1, PlusIs
<1>7. /\ Place(t, reload, where, Tail(pxCurrentTimerList))
      /\ IF where = "now" THEN Restart(t, expired, Clock - expired) ELSE NoRestart
  <2>1. CASE t \in AutoReload /\ reload > expired
    BY <2>1 DEF prvSwitchTimerLists
  <2>2. CASE ~(t \in AutoReload /\ reload > expired)
    <3>1. /\ pxCurrentTimerList' = Tail(pxCurrentTimerList)
          /\ IF t \in AutoReload THEN Restart(t, expired, Clock - expired) ELSE NoRestart
          /\ xItemValue' = [xItemValue EXCEPT ![t] = 0]
          /\ UNCHANGED pxOverflowTimerList
      BY <2>2 DEF prvSwitchTimerLists
    <3>2. where \in {"now", "none"} /\ (where = "now" <=> t \in AutoReload)
      BY <2>2
    <3>. HIDE DEF where, reload, expired, t
    <3>. QED BY <3>1, <3>2 DEF Place
  <2>. QED BY <2>1, <2>2
<1>8. /\ where \in {"current", "overflow", "now", "none"}
      /\ where = "none" <=> t \notin AutoReload
      /\ where = "current" => reload - Clock = expired - Clock + period
      /\ where # "overflow"
  <2>1. where = "current" => reload > expired
    OBVIOUS
  <2>2. where \in {"current", "overflow", "now", "none"} /\ (where = "none" <=> t \notin AutoReload)
        /\ where # "overflow"
    OBVIOUS
  <2>. HIDE DEF where, reload, expired, period
  <2>3. expired \in 0 .. TickMod - 1 /\ period \in 1 .. TickMod - 1
    BY <1>2, <1>3 DEF Tick
  <2>. QED BY <1>3, <1>6, <2>1, <2>2, <2>3
<1>. HIDE DEF t, reload, where, period, expired
<1>9. \E n \in Tick, e \in Tick, w \in {"current", "overflow", "now", "none"} :
        /\ pxCurrentTimerList # <<>> /\ t = Head(pxCurrentTimerList)
        /\ Place(t, n, w, Tail(pxCurrentTimerList))
        /\ e - Clock = ListDue(t) /\ ListDue(t) <= 0
        /\ w = "none" <=> t \notin AutoReload
        /\ w = "current" => n - Clock = ListDue(t) + period
        /\ w = "overflow" => n + TickMod - Clock = ListDue(t) + period
        /\ IF w = "now" THEN Restart(t, e, Clock - e) ELSE NoRestart
        /\ called' = t
        /\ UNCHANGED <<xTickCount, uxPendedTicks, busy, xLastTime, xTimerPeriodInTicks, exists,
                       stopped, xMessage, wake>>
  <2>1. t = Head(pxCurrentTimerList)
    BY DEF t
  <2>. reload \in Tick /\ expired \in Tick /\ where \in {"current", "overflow", "now", "none"}
    BY <1>2, <1>6, <1>8
  <2>. WITNESS reload \in Tick, expired \in Tick, where \in {"current", "overflow", "now", "none"}
  <2>. QED BY <1>1, <1>2, <1>5, <1>7, <1>8, <2>1
<1>. QED BY <1>1, <1>9 DEF Expires, t, period
\* Where the timer is afterwards, and when it is due.
LEMMA ExpiresDue ==
    ASSUME TimeInv, pc # "blocked", NEW t, Expires(t)
    PROVE  /\ t \in Timer /\ t \in InLists /\ ListDue(t) <= 0 /\ called' = t
           /\ pxCurrentTimerList' \in Seq(Timer) /\ pxOverflowTimerList' \in Seq(Timer)
           /\ xItemValue' \in [Timer -> Tick]
           /\ ListsInv'
           /\ Clock' = Clock /\ Now' = Now
           /\ UNCHANGED <<xTickCount, uxPendedTicks, busy, xLastTime, xTimerPeriodInTicks, exists,
                          stopped, xMessage, wake>>
           /\ \A u \in InLists \ {t} : u \in InLists' /\ ListDue(u)' = ListDue(u)
           /\ InLists' \subseteq InLists
           /\ \/ /\ t \in AutoReload /\ t \in InLists' /\ NoRestart
                 /\ ListDue(t)' = ListDue(t) + xTimerPeriodInTicks[t]
              \/ /\ t \in AutoReload /\ t \notin InLists'
                 /\ \E e \in Tick : e - Clock = ListDue(t) /\ Restart(t, e, Clock - e)
              \/ t \notin AutoReload /\ t \notin InLists' /\ NoRestart
<1>1. PICK next \in Tick, expired \in Tick, where \in {"current", "overflow", "now", "none"} :
        /\ pxCurrentTimerList # <<>> /\ t = Head(pxCurrentTimerList)
        /\ Place(t, next, where, Tail(pxCurrentTimerList))
        /\ expired - Clock = ListDue(t) /\ ListDue(t) <= 0
        /\ where = "none" <=> t \notin AutoReload
        /\ where = "current" => next - Clock = ListDue(t) + xTimerPeriodInTicks[t]
        /\ where = "overflow" => next + TickMod - Clock = ListDue(t) + xTimerPeriodInTicks[t]
        /\ IF where = "now" THEN Restart(t, expired, Clock - expired) ELSE NoRestart
        /\ called' = t
        /\ UNCHANGED <<xTickCount, uxPendedTicks, busy, xLastTime, xTimerPeriodInTicks, exists,
                       stopped, xMessage, wake>>
  BY DEF Expires
<1>2. /\ t \in Timer /\ t \in InLists /\ t \in Range(pxCurrentTimerList)
      /\ t \notin Range(Tail(pxCurrentTimerList)) /\ t \notin Range(pxOverflowTimerList)
      /\ Range(Tail(pxCurrentTimerList)) = Range(pxCurrentTimerList) \ {t}
  BY <1>1, HeadDue DEF TimeInv
<1>. DEFINE rest == Tail(pxCurrentTimerList)
<1>3. /\ pxCurrentTimerList' \in Seq(Timer) /\ pxOverflowTimerList' \in Seq(Timer)
      /\ xItemValue' \in [Timer -> Tick]
      /\ ListsInv'
      /\ Clock' = Clock /\ Now' = Now
      /\ Range(rest) \subseteq Range(pxCurrentTimerList)
      /\ InLists' = Range(rest) \union Range(pxOverflowTimerList)
                        \union IF where \in {"current", "overflow"} THEN {t} ELSE {}
      /\ \A u \in Range(rest) \union Range(pxOverflowTimerList) : ListDue(u)' = ListDue(u)
      /\ where = "current" => ListDue(t)' = next - Clock
      /\ where = "overflow" => ListDue(t)' = next + TickMod - Clock
  BY <1>1, <1>2, PlaceDue DEF TimeInv
<1>4. InLists = Range(pxCurrentTimerList) \union Range(pxOverflowTimerList)
  BY DEF InLists
<1>5. /\ \A u \in InLists \ {t} : u \in InLists' /\ ListDue(u)' = ListDue(u)
      /\ InLists' \subseteq InLists
      /\ t \in InLists' <=> where \in {"current", "overflow"}
  BY <1>2, <1>3, <1>4
<1>6. \/ /\ t \in AutoReload /\ t \in InLists' /\ NoRestart
         /\ ListDue(t)' = ListDue(t) + xTimerPeriodInTicks[t]
      \/ /\ t \in AutoReload /\ t \notin InLists'
         /\ \E e \in Tick : e - Clock = ListDue(t) /\ Restart(t, e, Clock - e)
      \/ t \notin AutoReload /\ t \notin InLists' /\ NoRestart
  <2>1. CASE where \in {"current", "overflow"}
    BY <1>1, <1>3, <1>5, <2>1
  <2>2. CASE where = "now"
    BY <1>1, <1>5, <2>2
  <2>3. CASE where = "none"
    BY <1>1, <1>5, <2>3
  <2>. QED BY <2>1, <2>2, <2>3
<1>. QED BY <1>1, <1>2, <1>3, <1>5, <1>6

LEMMA ExpiresTime ==
    ASSUME TimeInv, pc # "blocked", NEW t, Expires(t)
    PROVE  /\ \A u \in InLists' : ListDue(u)' >= -(busy' + MaxDelay)
           /\ xTimerQueue' \in Seq(Command) /\ Len(xTimerQueue') <= QueueLength
           /\ \A i \in DOMAIN xTimerQueue' : Timely(xTimerQueue'[i], Now', busy' + MaxDelay)
           /\ halted' \in BOOLEAN
<1>1. /\ t \in Timer /\ t \in InLists /\ ListDue(t) <= 0
      /\ UNCHANGED <<xTickCount, uxPendedTicks, busy>>
      /\ \A u \in InLists \ {t} : ListDue(u)' = ListDue(u)
      /\ InLists' \subseteq InLists
  BY ExpiresDue
<1>2. \/ /\ t \in AutoReload /\ t \in InLists' /\ NoRestart
         /\ ListDue(t)' = ListDue(t) + xTimerPeriodInTicks[t]
      \/ /\ t \in AutoReload /\ t \notin InLists'
         /\ \E e \in Tick : e - Clock = ListDue(t) /\ Restart(t, e, Clock - e)
      \/ t \notin AutoReload /\ t \notin InLists' /\ NoRestart
  BY ExpiresDue
<1>3. /\ \A u \in InLists : ListDue(u) >= -(busy + MaxDelay)
      /\ \A u \in InLists : ListDue(u) \in Int
      /\ busy \in Nat /\ MaxDelay \in Nat /\ TickMod \in Nat
      /\ Clock = IF xTickCount < xLastTime THEN Now + TickMod ELSE Now
      /\ Clock \in Nat /\ Now \in Nat
      /\ xTimerPeriodInTicks[t] \in Nat
  BY <1>1, Numbers, DueIsInt DEF TimeInv, DueInv
<1>4. \A u \in InLists' : ListDue(u)' >= -(busy' + MaxDelay)
  <2>. SUFFICES ASSUME NEW u \in InLists' PROVE ListDue(u)' >= -(busy' + MaxDelay)
    OBVIOUS
  <2>1. u \in InLists /\ ListDue(u) >= -(busy + MaxDelay) /\ ListDue(u) \in Int
    BY <1>1, <1>3
  <2>2. CASE u # t
    BY <1>1, <2>1, <2>2
  <2>3. CASE u = t
    <3>1. ListDue(t)' = ListDue(t) + xTimerPeriodInTicks[t]
      BY <1>2, <2>3
    <3>. QED BY <1>1, <1>3, <2>1, <2>3, <3>1
  <2>. QED BY <2>2, <2>3
<1>5. \/ NoRestart
      \/ \E u \in Timer, value \in Tick, late \in Nat :
             /\ Restart(u, value, late)
             /\ late <= busy + MaxDelay
             /\ value + late - Now \in {-TickMod, 0, TickMod}
  <2>1. ASSUME NEW e \in Tick, e - Clock = ListDue(t), Restart(t, e, Clock - e)
        PROVE  /\ Clock - e \in Nat /\ Clock - e <= busy + MaxDelay
               /\ e + (Clock - e) - Now \in {-TickMod, 0, TickMod}
    <3>1. ListDue(t) >= -(busy + MaxDelay) /\ ListDue(t) \in Int /\ e \in Int
      BY <1>1, <1>3, TimersAssumption DEF Tick
    <3>. QED BY <1>1, <1>3, <2>1, <3>1
  <2>. QED BY <1>1, <1>2, <2>1
<1>6. \A i \in DOMAIN xTimerQueue : Timely(xTimerQueue[i], Now, busy + MaxDelay)
  BY DEF TimeInv, MessagesInv
<1>. QED BY <1>1, <1>4, <1>5, <1>6, RestartIs DEF TimeInv

LEMMA ExpiredTime ==
    ASSUME TimeInv, prvProcessExpiredTimer
    PROVE  TimeInv'
<1>1. PICK t : Expires(t)
  BY ExpiredIs
<1>2. /\ pc = "expired" /\ pc' = "receive" /\ xNextExpireTime' = 0 /\ xTimeNow' = 0
      /\ UNCHANGED <<xListWasEmpty, xMessage, wake>> /\ xMessage = NoMessage
      /\ 0 \in Tick
  BY TimersAssumption DEF prvProcessExpiredTimer, TimeInv, MessagesInv, Tick
<1>3. /\ t \in Timer /\ called' = t /\ t \in InLists
      /\ pxCurrentTimerList' \in Seq(Timer) /\ pxOverflowTimerList' \in Seq(Timer)
      /\ xItemValue' \in [Timer -> Tick]
      /\ ListsInv'
      /\ Clock' = Clock /\ Now' = Now
      /\ UNCHANGED <<xTickCount, uxPendedTicks, busy, xLastTime, xTimerPeriodInTicks, exists,
                     stopped>>
      /\ InLists' \subseteq InLists
  BY <1>1, <1>2, ExpiresDue
<1>4. /\ \A u \in InLists' : ListDue(u)' >= -(busy' + MaxDelay)
      /\ xTimerQueue' \in Seq(Command) /\ Len(xTimerQueue') <= QueueLength
      /\ \A i \in DOMAIN xTimerQueue' : Timely(xTimerQueue'[i], Now', busy' + MaxDelay)
      /\ halted' \in BOOLEAN
  BY <1>1, <1>2, ExpiresTime
<1>5. TypeInv'
  <2>1. pc' \in PlaceOfTask
    BY <1>2 DEF PlaceOfTask
  <2>. QED BY <1>2, <1>3, <1>4, <2>1 DEF TimeInv, TypeInv
<1>6. MessagesInv'
  BY <1>2, <1>3, <1>4 DEF MessagesInv
<1>7. ClockInv'
  BY <1>2, <1>3 DEF TimeInv, ClockInv
<1>8. TaskInv'
  BY <1>2 DEF TaskInv
<1>9. DueInv'
  BY <1>2, <1>4 DEF DueInv
<1>. QED BY <1>3, <1>5, <1>6, <1>7, <1>8, <1>9 DEF TimeInv

LEMMA SwitchTime ==
    ASSUME TimeInv, prvSwitchTimerLists
    PROVE  TimeInv'
<1>1. PICK t : Expires(t) /\ UNCHANGED taskVars
  BY SwitchIs
<1>2. /\ pc \in {"switch", "switchSuspended"}
      /\ UNCHANGED <<pc, xNextExpireTime, xListWasEmpty, xTimeNow, xMessage, wake>>
  BY <1>1 DEF prvSwitchTimerLists, taskVars
<1>3. /\ t \in Timer /\ called' = t /\ t \in InLists
      /\ pxCurrentTimerList' \in Seq(Timer) /\ pxOverflowTimerList' \in Seq(Timer)
      /\ xItemValue' \in [Timer -> Tick]
      /\ ListsInv'
      /\ Clock' = Clock /\ Now' = Now
      /\ UNCHANGED <<xTickCount, uxPendedTicks, busy, xLastTime, xTimerPeriodInTicks, exists,
                     stopped>>
      /\ InLists' \subseteq InLists
  BY <1>1, <1>2, ExpiresDue
<1>4. /\ \A u \in InLists' : ListDue(u)' >= -(busy' + MaxDelay)
      /\ xTimerQueue' \in Seq(Command) /\ Len(xTimerQueue') <= QueueLength
      /\ \A i \in DOMAIN xTimerQueue' : Timely(xTimerQueue'[i], Now', busy' + MaxDelay)
      /\ halted' \in BOOLEAN
  BY <1>1, <1>2, ExpiresTime
<1>5. TypeInv'
  BY <1>2, <1>3, <1>4 DEF TimeInv, TypeInv
<1>6. MessagesInv'
  BY <1>2, <1>3, <1>4 DEF TimeInv, MessagesInv
<1>7. ClockInv'
  BY <1>2, <1>3 DEF TimeInv, ClockInv
<1>8. TaskInv'
  BY <1>2, <1>3 DEF TimeInv, TaskInv
<1>9. DueInv'
  BY <1>2, <1>4 DEF DueInv
<1>. QED BY <1>3, <1>5, <1>6, <1>7, <1>8, <1>9 DEF TimeInv

\* The overflow list becomes the current one when the tick count has wrapped.
LEMMA SwitchDoneDue ==
    ASSUME TimeInv, SwitchDone
    PROVE  /\ Fits(pxCurrentTimerList', xItemValue') /\ Fits(pxOverflowTimerList', xItemValue')
           /\ Range(pxCurrentTimerList') = Range(pxOverflowTimerList)
           /\ Range(pxOverflowTimerList') = {}
           /\ InLists' = InLists
           /\ \A u \in InLists : ListDue(u)' = ListDue(u)
           /\ InLists' # {} => Clock' - xLastTime' <= TickMod - 1
           /\ xTickCount' \in Tick /\ uxPendedTicks' = 0
           /\ Now' = Now \/ (Now' = Now - TickMod /\ pc = "switchSuspended")
           /\ pc = "switch" => xTickCount' = xTickCount
<1>1. /\ TickMod \in Nat \ {0} /\ xTickCount \in 0 .. TickMod - 1 /\ xTimeNow \in 0 .. TickMod - 1
      /\ xLastTime \in 0 .. TickMod - 1 /\ MaxBusy <= TickMod /\ MaxBusy \in Nat
      /\ uxPendedTicks \in Nat /\ busy \in 0 .. MaxBusy
      /\ Clock = IF xTickCount < xLastTime THEN xTickCount + uxPendedTicks + TickMod
                 ELSE xTickCount + uxPendedTicks
      /\ \A t \in Timer : xItemValue[t] \in 0 .. TickMod - 1
      /\ Now = xTickCount + uxPendedTicks
  <2>1. MaxBusy <= TickMod
    BY TimersAssumption
  <2>. QED BY <2>1, Numbers DEF TimeInv
<1>2. /\ pc \in {"switch", "switchSuspended"} /\ pxCurrentTimerList = <<>>
      /\ pxCurrentTimerList' = pxOverflowTimerList /\ pxOverflowTimerList' = <<>>
      /\ xLastTime' = xTimeNow /\ xTickCount' = Plus(xTickCount, uxPendedTicks)
      /\ uxPendedTicks' = 0 /\ UNCHANGED xItemValue
  BY DEF SwitchDone
<1>3. /\ Fits(pxCurrentTimerList, xItemValue) /\ Fits(pxOverflowTimerList, xItemValue)
      /\ InLists = Range(pxCurrentTimerList) \union Range(pxOverflowTimerList)
      /\ Range(pxCurrentTimerList) = {} /\ InLists \subseteq Timer
  BY <1>2, ListsFit DEF TimeInv
<1>4. uxPendedTicks <= busy /\ (pc = "switch" => uxPendedTicks = 0)
  BY DEF TimeInv, ClockInv
<1>5. /\ xTickCount' = IF xTickCount + uxPendedTicks < TickMod THEN xTickCount + uxPendedTicks
                       ELSE xTickCount + uxPendedTicks - TickMod
      /\ xTickCount' \in Tick
  <2>1. uxPendedTicks \in 0 .. TickMod /\ xTickCount \in Tick
    BY <1>1, <1>4 DEF Tick
  <2>. QED BY <1>2, <2>1, PlusIs
<1>6. /\ Fits(pxCurrentTimerList', xItemValue') /\ Fits(pxOverflowTimerList', xItemValue')
      /\ Range(pxCurrentTimerList') = Range(pxOverflowTimerList)
      /\ Range(pxOverflowTimerList') = {}
  <2>1. Range(<<>>) = {}
    BY DEF Range
  <2>. QED BY <1>2, <1>3, <2>1
<1>7. InLists' = InLists
  BY <1>3, <1>6 DEF InLists
<1>8. Clock' = xTickCount' + 0 + IF xTickCount' < xTimeNow THEN TickMod ELSE 0
  BY <1>2 DEF Clock
<1>9. InLists # {} => Clock' = Clock - TickMod /\ Clock' - xTimeNow <= TickMod - 1
  <2>. SUFFICES ASSUME InLists # {} PROVE Clock' = Clock - TickMod /\ Clock' - xTimeNow <= TickMod - 1
    OBVIOUS
  <2>1. xTickCount < xLastTime /\ xTimeNow <= xTickCount
    BY <1>1, <1>2 DEF TimeInv, TaskInv
  <2>2. Clock - xLastTime <= TickMod - 1
    BY DEF TimeInv, ClockInv
  <2>3. xTickCount + uxPendedTicks < TickMod
    BY <1>1, <2>1, <2>2
  <2>. QED BY <1>1, <1>5, <1>8, <2>1, <2>3
<1>10. ASSUME NEW u \in InLists PROVE ListDue(u)' = ListDue(u)
  <2>1. u \in Range(pxOverflowTimerList) /\ u \notin Range(pxCurrentTimerList)
        /\ xItemValue[u] \in Int /\ Clock \in Int /\ Clock' = Clock - TickMod
    BY <1>1, <1>3, <1>9, <1>10
  <2>2. ListDue(u) = xItemValue[u] + TickMod - Clock
    BY <2>1 DEF ListDue
  <2>3. ListDue(u)' = xItemValue[u] - Clock'
    BY <1>2, <1>6, <2>1 DEF ListDue
  <2>. QED BY <1>1, <2>1, <2>2, <2>3
<1>11. Now' = xTickCount' + 0
  BY <1>2 DEF Now
<1>12. /\ Now' = Now \/ (Now' = Now - TickMod /\ pc = "switchSuspended")
       /\ pc = "switch" => xTickCount' = xTickCount
  BY <1>1, <1>2, <1>4, <1>5, <1>11
<1>. QED BY <1>2, <1>5, <1>6, <1>7, <1>9, <1>10, <1>12
LEMMA WrapTimely ==
    ASSUME NEW m \in Command, NEW now \in Nat, NEW new \in Nat, NEW oldest \in Nat,
           Timely(m, now, oldest), new = now - TickMod, oldest <= TickMod - 1
    PROVE  Timely(m, new, oldest)
<1>1. m.age \in Nat /\ m.value \in Tick /\ TickMod \in Nat /\ m.age <= oldest
  BY TimersAssumption DEF Command, Timely
<1>2. ASSUME m.value + m.age - now \in {-TickMod, 0, TickMod}
      PROVE  m.value + m.age - new \in {-TickMod, 0, TickMod}
  BY <1>1, <1>2 DEF Tick
<1>. QED BY <1>2 DEF Timely

LEMMA SwitchDoneTime ==
    ASSUME TimeInv, SwitchDone
    PROVE  TimeInv'
<1>1. /\ Fits(pxCurrentTimerList', xItemValue') /\ Fits(pxOverflowTimerList', xItemValue')
      /\ Range(pxCurrentTimerList') = Range(pxOverflowTimerList)
      /\ Range(pxOverflowTimerList') = {}
      /\ InLists' = InLists
      /\ \A u \in InLists : ListDue(u)' = ListDue(u)
      /\ InLists' # {} => Clock' - xLastTime' <= TickMod - 1
      /\ xTickCount' \in Tick /\ uxPendedTicks' = 0
      /\ Now' = Now \/ (Now' = Now - TickMod /\ pc = "switchSuspended")
      /\ pc = "switch" => xTickCount' = xTickCount
  BY SwitchDoneDue
<1>2. /\ pc \in {"switch", "switchSuspended"}
      /\ pc' = IF pc = "switchSuspended" THEN "receive" ELSE "handle"
      /\ xTimeNow' = IF pc = "switchSuspended" THEN 0 ELSE xTimeNow
      /\ xLastTime' = xTimeNow /\ called' = None
      /\ UNCHANGED <<xNextExpireTime, xListWasEmpty, xMessage, wake, busy, xItemValue,
                     xTimerPeriodInTicks, exists, stopped, xTimerQueue, halted>>
  BY DEF SwitchDone, Suspended, timerVars
<1>3. /\ 0 \in Tick /\ busy \in Nat /\ MaxDelay \in Nat /\ busy + MaxDelay \in Nat
      /\ busy + MaxDelay <= TickMod - 1 /\ Now \in Nat
  BY Numbers, TimersAssumption DEF TimeInv, Tick
<1>4. TypeInv'
  <2>1. pc' \in PlaceOfTask /\ xTimeNow' \in Tick /\ uxPendedTicks' \in Nat /\ xLastTime' \in Tick
    BY <1>1, <1>2, <1>3 DEF PlaceOfTask, TimeInv, TypeInv
  <2>. QED BY <1>1, <1>2, <2>1 DEF TimeInv, TypeInv, Fits
<1>5. ListsInv'
  BY <1>1 DEF ListsInv, Fits
<1>6. MessagesInv'
  <2>1. \A i \in DOMAIN xTimerQueue' : Timely(xTimerQueue'[i], Now', busy' + MaxDelay)
    <3>. SUFFICES ASSUME NEW i \in DOMAIN xTimerQueue
                  PROVE  Timely(xTimerQueue[i], Now', busy + MaxDelay)
      BY <1>2
    <3>1. xTimerQueue[i] \in Command /\ Timely(xTimerQueue[i], Now, busy + MaxDelay)
      BY LenProperties DEF TimeInv, TypeInv, MessagesInv
    <3>2. CASE Now' = Now
      BY <3>1, <3>2
    <3>3. CASE Now' = Now - TickMod
      <4>1. Now' \in Nat
        <5>1. xTickCount' \in Nat /\ uxPendedTicks' \in Nat
          BY <1>1, TimersAssumption DEF Tick
        <5>2. xTickCount' + uxPendedTicks' \in Nat
          BY <5>1, SumOfNat
        <5>. QED BY <5>2, Zenon DEF Now
      <4>. QED BY <1>3, <3>1, <3>3, <4>1, WrapTimely
    <3>. QED BY <1>1, <3>2, <3>3
  <2>2. CASE pc = "switch"
    BY <1>1, <1>2, <2>1, <2>2 DEF TimeInv, MessagesInv
  <2>3. CASE pc = "switchSuspended"
    BY <1>1, <1>2, <2>1, <2>3 DEF TimeInv, MessagesInv
  <2>. QED BY <1>2, <2>2, <2>3
<1>7. ClockInv'
  BY <1>1, <1>2, <1>3 DEF ClockInv
<1>8. TaskInv'
  BY <1>1, <1>2 DEF TimeInv, TaskInv
<1>9. DueInv'
  BY <1>1, <1>2 DEF TimeInv, DueInv
<1>. QED BY <1>4, <1>5, <1>6, <1>7, <1>8, <1>9 DEF TimeInv

\* uxListRemove, seen from the clock.
LEMMA TakeOutIs ==
    ASSUME TimeInv, NEW t, TakeOut(t), UNCHANGED <<xTickCount, uxPendedTicks, xLastTime>>
    PROVE  /\ pxCurrentTimerList' \in Seq(Timer) /\ pxOverflowTimerList' \in Seq(Timer)
           /\ xItemValue' \in [Timer -> Tick]
           /\ ListsInv'
           /\ Clock' = Clock /\ Now' = Now
           /\ InLists' = InLists \ {t}
           /\ \A u \in InLists \ {t} : ListDue(u)' = ListDue(u)
<1>1. /\ Fits(pxCurrentTimerList, xItemValue) /\ Fits(pxOverflowTimerList, xItemValue)
      /\ Range(pxCurrentTimerList) \intersect Range(pxOverflowTimerList) = {}
      /\ InLists \subseteq Timer
      /\ InLists = Range(pxCurrentTimerList) \union Range(pxOverflowTimerList)
  BY ListsFit DEF TimeInv
<1>2. /\ pxCurrentTimerList' = Without(pxCurrentTimerList, t)
      /\ pxOverflowTimerList' = Without(pxOverflowTimerList, t)
      /\ xItemValue' = [u \in Timer |-> IF u = t THEN 0 ELSE xItemValue[u]]
  BY DEF TakeOut
<1>3. /\ Fits(pxCurrentTimerList', xItemValue) /\ Fits(pxOverflowTimerList', xItemValue)
      /\ Range(pxCurrentTimerList') = Range(pxCurrentTimerList) \ {t}
      /\ Range(pxOverflowTimerList') = Range(pxOverflowTimerList) \ {t}
  BY <1>1, <1>2, WithoutIs
<1>4. /\ \A u \in Timer \ {t} : xItemValue'[u] = xItemValue[u]
      /\ xItemValue' \in [Timer -> Tick]
  BY <1>2, TimersAssumption DEF TimeInv, TypeInv, Tick
<1>5. Fits(pxCurrentTimerList', xItemValue') /\ Fits(pxOverflowTimerList', xItemValue')
  <2>. DEFINE c == pxCurrentTimerList'
              o == pxOverflowTimerList'
              v == xItemValue'
  <2>1. /\ Fits(c, xItemValue) /\ Fits(o, xItemValue)
        /\ \A u \in Range(c) : v[u] = xItemValue[u]
        /\ \A u \in Range(o) : v[u] = xItemValue[u]
    BY <1>1, <1>3, <1>4
  <2>. HIDE DEF c, o, v
  <2>2. Fits(c, v) /\ Fits(o, v)
    BY <2>1, SameValues
  <2>. QED BY <2>2 DEF c, o, v
<1>6. Clock' = Clock /\ Now' = Now
  BY DEF Clock, Now
<1>7. InLists' = InLists \ {t}
  BY <1>1, <1>3 DEF InLists
<1>8. \A u \in InLists \ {t} : ListDue(u)' = ListDue(u)
  BY <1>1, <1>3, <1>4, <1>6 DEF ListDue
<1>. QED BY <1>1, <1>3, <1>4, <1>5, <1>6, <1>7, <1>8 DEF ListsInv, Fits

LEMMA ReceiveTime ==
    ASSUME TimeInv, Receive
    PROVE  TimeInv'
<1>1. /\ pc = "receive" /\ called' = None /\ xMessage = NoMessage
      /\ UNCHANGED <<xNextExpireTime, xListWasEmpty, xTimeNow, wake, xTickCount, uxPendedTicks, busy,
                     xTimerPeriodInTicks, exists, stopped, xLastTime, halted>>
  BY DEF Receive, timeVars, timerVars, TimeInv, MessagesInv
<1>2. CASE xTimerQueue = <<>>
  <2>1. /\ pc' = "next"
        /\ UNCHANGED <<xTimerQueue, xMessage, pxCurrentTimerList, pxOverflowTimerList, xItemValue>>
    BY <1>2 DEF Receive, listVars
  <2>2. Clock' = Clock /\ Now' = Now /\ InLists' = InLists
    BY <1>1, <2>1 DEF Clock, Now, InLists
  <2>3. \A u \in InLists : ListDue(u)' = ListDue(u)
    BY <2>1, <2>2 DEF ListDue
  <2>4. TypeInv'
    BY <1>1, <2>1 DEF TimeInv, TypeInv, PlaceOfTask
  <2>5. MessagesInv'
    BY <1>1, <2>1, <2>2 DEF TimeInv, MessagesInv
  <2>6. TaskInv'
    BY <2>1 DEF TaskInv
  <2>7. DueInv'
    BY <1>1, <2>1, <2>2, <2>3 DEF TimeInv, DueInv
  <2>. QED BY <1>1, <2>1, <2>2, <2>4, <2>5, <2>6, <2>7 DEF TimeInv, ListsInv, ClockInv
<1>3. CASE xTimerQueue # <<>>
  <2>. DEFINE m == Head(xTimerQueue)
  <2>1. /\ xTimerQueue' = Tail(xTimerQueue)
        /\ TakeOut(m.timer)
        /\ IF m.id = "execute" THEN UNCHANGED <<pc, xMessage>> ELSE pc' = "sample" /\ xMessage' = m
    BY <1>3 DEF Receive
  <2>2. /\ m \in Command /\ m = xTimerQueue[1] /\ 1 \in DOMAIN xTimerQueue
        /\ xTimerQueue' \in Seq(Command) /\ Len(xTimerQueue') = Len(xTimerQueue) - 1
        /\ Len(xTimerQueue) \in Nat
        /\ \A i \in DOMAIN xTimerQueue' : /\ xTimerQueue'[i] = xTimerQueue[i + 1]
                                          /\ i + 1 \in DOMAIN xTimerQueue
    BY <1>3, <2>1, FirstIs DEF TimeInv, TypeInv
  <2>. HIDE DEF m
  <2>3. /\ pxCurrentTimerList' \in Seq(Timer) /\ pxOverflowTimerList' \in Seq(Timer)
        /\ xItemValue' \in [Timer -> Tick]
        /\ ListsInv'
        /\ Clock' = Clock /\ Now' = Now
        /\ InLists' = InLists \ {m.timer}
        /\ \A u \in InLists \ {m.timer} : ListDue(u)' = ListDue(u)
    BY <1>1, <2>1, TakeOutIs
  <2>4. Timely(m, Now, busy + MaxDelay)
    BY <2>2 DEF TimeInv, MessagesInv
  <2>5. m.id # "execute" => m.timer \in Timer
    BY <2>2, <2>4 DEF Timely, Command
  <2>6. TypeInv'
    <3>1. pc' \in PlaceOfTask /\ xMessage' \in Command \union {NoMessage}
      BY <1>1, <2>1, <2>2 DEF PlaceOfTask
    <3>2. Len(xTimerQueue') <= QueueLength
      BY <2>2, TimersAssumption DEF TimeInv, TypeInv
    <3>. QED BY <1>1, <2>2, <2>3, <3>1, <3>2 DEF TimeInv, TypeInv
  <2>7. MessagesInv'
    <3>1. \A i \in DOMAIN xTimerQueue' : Timely(xTimerQueue'[i], Now', busy' + MaxDelay)
      BY <1>1, <2>2, <2>3 DEF TimeInv, MessagesInv
    <3>2. CASE m.id = "execute"
      BY <1>1, <2>1, <3>1, <3>2 DEF MessagesInv
    <3>3. CASE m.id # "execute"
      BY <1>1, <2>1, <2>2, <2>3, <2>4, <2>5, <3>1, <3>3 DEF MessagesInv
    <3>. QED BY <3>2, <3>3
  <2>8. ClockInv'
    BY <1>1, <2>1, <2>3 DEF TimeInv, ClockInv
  <2>9. TaskInv'
    BY <1>1, <2>1 DEF TaskInv
  <2>10. DueInv'
    BY <1>1, <2>1, <2>3 DEF TimeInv, DueInv
  <2>. QED BY <2>3, <2>6, <2>7, <2>8, <2>9, <2>10 DEF TimeInv
<1>. QED BY <1>2, <1>3

LEMMA SampleTime ==
    ASSUME TimeInv, SampleForCommand
    PROVE  TimeInv'
<1>1. /\ pc = "sample" /\ called' = None /\ uxPendedTicks = 0
      /\ xTimeNow' = xTickCount
      /\ IF xTickCount < xLastTime THEN pc' = "switch" /\ UNCHANGED xLastTime
         ELSE pc' = "handle" /\ xLastTime' = xTickCount
      /\ UNCHANGED <<xNextExpireTime, xListWasEmpty, xMessage, wake, xTickCount, uxPendedTicks, busy,
                     pxCurrentTimerList, pxOverflowTimerList, xItemValue, xTimerPeriodInTicks,
                     exists, stopped, xTimerQueue, halted>>
  BY DEF SampleForCommand, SampleTimeNow, timeVars, listVars, timerVars, TimeInv, ClockInv
<1>2. /\ Clock' = Clock /\ Now' = Now /\ InLists' = InLists
      /\ \A t \in InLists : ListDue(t)' = ListDue(t)
      /\ InLists' # {} => Clock' - xLastTime' <= TickMod - 1
      /\ ListsInv'
  BY <1>1, SampleClock DEF listVars
<1>3. /\ xTickCount \in 0 .. TickMod - 1 /\ xLastTime \in 0 .. TickMod - 1 /\ TickMod \in Nat
      /\ xTickCount \in Tick
  BY Numbers DEF TimeInv, TypeInv
<1>4. TypeInv'
  <2>1. xTimeNow' \in Tick /\ xLastTime' \in Tick /\ pc' \in PlaceOfTask
    BY <1>1, <1>3 DEF Tick, PlaceOfTask
  <2>. QED BY <1>1, <2>1 DEF TimeInv, TypeInv
<1>5. MessagesInv'
  BY <1>1, <1>2 DEF TimeInv, MessagesInv
<1>6. ClockInv'
  <2>1. pc' # "switchSuspended"
    BY <1>1
  <2>. QED BY <1>1, <1>2, <2>1 DEF TimeInv, ClockInv
<1>7. TaskInv'
  <2>1. Minus(xTickCount, xTickCount) = 0
    BY <1>3, MinusIs
  <2>2. xMessage.age \in Nat
    BY <1>1 DEF TimeInv, MessagesInv, Command
  <2>. QED BY <1>1, <1>3, <2>1, <2>2 DEF TaskInv
<1>8. DueInv'
  BY <1>1, <1>2 DEF TimeInv, DueInv
<1>. QED BY <1>2, <1>4, <1>5, <1>6, <1>7, <1>8 DEF TimeInv
---------------------------------------------------------------------------
(* The command in hand *)

\* What the timer task knows of the command that it carries out.
LEMMA InHand ==
    ASSUME TimeInv, pc = "handle"
    PROVE  /\ xMessage \in Command /\ xMessage.timer \in Timer
           /\ xMessage.timer \notin Range(pxCurrentTimerList)
           /\ xMessage.timer \notin Range(pxOverflowTimerList)
           /\ xMessage.age \in Nat /\ xMessage.age <= busy + MaxDelay /\ xMessage.age <= TickMod - 1
           /\ xMessage.id = "changePeriod" => xMessage.value # 0
           /\ xTimeNow = xLastTime
           /\ \E k \in 0 .. xMessage.age :
                  /\ Clock = xTimeNow + k
                  /\ xMessage.id \in {"start", "restart"} =>
                         /\ Minus(xTimeNow, xMessage.value) = xMessage.age - k
                         /\ xMessage.value + xMessage.age - Now \in {-TickMod, 0, TickMod}
<1>. DEFINE m == xMessage
            k == Minus(xTickCount, xTimeNow)
<1>1. /\ TickMod \in Nat \ {0} /\ xTickCount \in 0 .. TickMod - 1 /\ xTimeNow \in 0 .. TickMod - 1
      /\ MaxDelay \in Nat /\ busy \in Nat /\ busy + MaxDelay <= TickMod - 1
      /\ Clock = IF xTickCount < xLastTime THEN xTickCount + uxPendedTicks + TickMod
                 ELSE xTickCount + uxPendedTicks
      /\ Now = xTickCount + uxPendedTicks
      /\ uxPendedTicks = 0
  BY Numbers DEF TimeInv, ClockInv
<1>2. /\ m \in Command /\ m.timer \in Timer /\ m.timer \notin InLists
      /\ Timely(m, Now, busy + MaxDelay)
      /\ m.age \in Nat /\ m.value \in 0 .. TickMod - 1
  BY DEF TimeInv, MessagesInv, Command, Tick
<1>3. /\ m.age <= busy + MaxDelay
      /\ m.id = "changePeriod" => m.value # 0
      /\ m.id \in {"start", "restart"} => m.value + m.age - Now \in {-TickMod, 0, TickMod}
  BY <1>2 DEF Timely
<1>4. xTimeNow = xLastTime /\ k <= m.age
  BY DEF TimeInv, TaskInv
<1>5. /\ k = IF xTimeNow <= xTickCount THEN xTickCount - xTimeNow
             ELSE xTickCount - xTimeNow + TickMod
      /\ Minus(xTimeNow, m.value) = IF m.value <= xTimeNow THEN xTimeNow - m.value
                                    ELSE xTimeNow - m.value + TickMod
  BY <1>1, <1>2, MinusIs DEF Tick
<1>. HIDE DEF k, m
<1>6. Clock = xTimeNow + k /\ k \in 0 .. m.age
  BY <1>1, <1>2, <1>4, <1>5
<1>7. m.age <= TickMod - 1
  BY <1>1, <1>2, <1>3
<1>8. ASSUME m.id \in {"start", "restart"}
      PROVE  Minus(xTimeNow, m.value) = m.age - k
  <2>1. m.value + m.age - xTickCount \in {-TickMod, 0, TickMod}
    BY <1>1, <1>3, <1>8
  <2>. QED BY <1>1, <1>2, <1>5, <1>6, <1>7, <2>1
<1>. QED BY <1>2, <1>3, <1>4, <1>6, <1>7, <1>8 DEF m, InLists

\* A timer that is started is due a period after its command was sent.
LEMMA StartIs ==
    ASSUME TimeInv, pc = "handle", HandleStart
    PROVE  LET t == xMessage.timer
               period == xTimerPeriodInTicks[t] IN
           \E next \in Tick, where \in {"current", "overflow", "now"} :
               /\ Place(t, next, where, pxCurrentTimerList)
               /\ where = "current" => next - Clock = period - xMessage.age
               /\ where = "overflow" => next + TickMod - Clock = period - xMessage.age
               /\ where = "now" => /\ xMessage.age >= period
                                   /\ next + (xMessage.age - period) - Now
                                          \in {-TickMod, 0, TickMod}
               /\ IF where = "now" /\ t \in AutoReload
                  THEN Restart(t, next, xMessage.age - period) ELSE NoRestart
               /\ called' = IF where = "now" THEN t ELSE None
<1>. DEFINE t == xMessage.timer
            value == xMessage.value
            period == xTimerPeriodInTicks[t]
            age == xMessage.age
            next == Plus(value, period)
            where == Placement(next, xTimeNow, value, period)
<1>1. PICK k \in 0 .. age : /\ Clock = xTimeNow + k
                            /\ Minus(xTimeNow, value) = age - k
                            /\ value + age - Now \in {-TickMod, 0, TickMod}
  BY InHand DEF HandleStart
<1>2. t \in Timer /\ age \in Nat /\ age <= TickMod - 1 /\ xMessage \in Command
  BY InHand
<1>3. /\ TickMod \in Nat \ {0} /\ xTimeNow \in Tick /\ value \in Tick
      /\ period \in Tick \ {0} /\ period \in 0 .. TickMod
      /\ xTickCount \in 0 .. TickMod - 1 /\ uxPendedTicks = 0 /\ Now = xTickCount + uxPendedTicks
  <2>1. /\ xTimeNow \in Tick /\ xTickCount \in Tick
        /\ xTimerPeriodInTicks \in [Timer -> Tick \ {0}]
    BY DEF TimeInv, TypeInv
  <2>2. value \in Tick
    BY <1>2 DEF Command
  <2>3. period \in Tick \ {0}
    BY <1>2, <2>1
  <2>4. uxPendedTicks = 0 /\ Now = xTickCount + uxPendedTicks
    BY DEF TimeInv, ClockInv, Now
  <2>. HIDE DEF value, period
  <2>5. TickMod \in Nat \ {0}
    BY TimersAssumption
  <2>6. period \in 0 .. TickMod /\ xTickCount \in 0 .. TickMod - 1
    BY <2>1, <2>3, <2>5 DEF Tick
  <2>. QED BY <2>1, <2>2, <2>3, <2>4, <2>5, <2>6
<1>4. /\ Place(t, next, where, pxCurrentTimerList)
      /\ IF where = "now" /\ t \in AutoReload
         THEN Restart(t, next, age - period) ELSE NoRestart
      /\ called' = IF where = "now" THEN t ELSE None
  BY DEF HandleStart
<1>. HIDE DEF t, value, period, age, next, where
<1>5. /\ next \in Tick
      /\ next = IF value + period < TickMod THEN value + period ELSE value + period - TickMod
  BY <1>3, PlusIs DEF next
<1>6. /\ where \in {"now", "overflow", "current"}
      /\ where = "now" => age - k >= period
      /\ where = "current" => next - xTimeNow = period - (age - k)
      /\ where = "overflow" => next + TickMod - xTimeNow = period - (age - k)
  <2>. DEFINE a == Minus(xTimeNow, value)
  <2>1. a \in Tick /\ a = age - k /\ where = Placement(next, xTimeNow, value, period)
        /\ next = Plus(value, period)
    BY <1>1, <1>3, MinusIs DEF where, next
  <2>. HIDE DEF a
  <2>2. /\ where \in {"now", "overflow", "current"}
        /\ where = "now" => a >= period
        /\ where = "current" => next - xTimeNow = period - a
        /\ where = "overflow" => next + TickMod - xTimeNow = period - a
    <3>1. a = Minus(xTimeNow, value)
      BY DEF a
    <3>. QED BY <1>3, <1>5, <2>1, <3>1, PlacementIs
  <2>. QED BY <2>1, <2>2
<1>7. /\ where = "current" => next - Clock = period - age
      /\ where = "overflow" => next + TickMod - Clock = period - age
      /\ where = "now" => age >= period /\ next + (age - period) - Now \in {-TickMod, 0, TickMod}
  <2>1. /\ k \in Int /\ k >= 0 /\ age \in Int /\ period \in Int /\ next \in 0 .. TickMod - 1
        /\ xTimeNow \in Int /\ value \in Int /\ Clock = xTimeNow + k
        /\ value \in 0 .. TickMod - 1 /\ period \in 1 .. TickMod - 1
    BY <1>1, <1>2, <1>3, <1>5 DEF Tick
  <2>2. where = "current" => next - Clock = period - age
    BY <1>6, <2>1
  <2>3. where = "overflow" => next + TickMod - Clock = period - age
    BY <1>3, <1>6, <2>1
  <2>4. ASSUME where = "now"
        PROVE  age >= period /\ next + (age - period) - Now \in {-TickMod, 0, TickMod}
    <3>1. age >= period
      BY <1>6, <2>1, <2>4
    <3>2. value + age - xTickCount \in {-TickMod, 0, TickMod}
      BY <1>1, <1>3
    <3>3. next + (age - period) - xTickCount \in {-TickMod, 0, TickMod}
      BY <1>2, <1>3, <1>5, <2>1, <3>1, <3>2
    <3>. QED BY <1>3, <3>1, <3>3
  <2>. QED BY <2>2, <2>3, <2>4
<1>8. \E n \in Tick, w \in {"current", "overflow", "now"} :
               /\ Place(t, n, w, pxCurrentTimerList)
               /\ w = "current" => n - Clock = period - age
               /\ w = "overflow" => n + TickMod - Clock = period - age
               /\ w = "now" => /\ age >= period
                               /\ n + (age - period) - Now \in {-TickMod, 0, TickMod}
               /\ IF w = "now" /\ t \in AutoReload
                  THEN Restart(t, n, age - period) ELSE NoRestart
               /\ called' = IF w = "now" THEN t ELSE None
  <2>. next \in Tick /\ where \in {"current", "overflow", "now"}
    BY <1>5, <1>6
  <2>. WITNESS next \in Tick, where \in {"current", "overflow", "now"}
  <2>. QED BY <1>4, <1>7
<1>. QED BY <1>8 DEF t, period, age

\* A timer whose period is changed is due that period after a moment since the command was sent.
LEMMA ChangeIs ==
    ASSUME TimeInv, pc = "handle", HandleChangePeriod
    PROVE  \E next \in Tick, where \in {"current", "overflow"}, n \in 0 .. xMessage.age :
               /\ Place(xMessage.timer, next, where, pxCurrentTimerList)
               /\ where = "current" => next - Clock = xMessage.value - n
               /\ where = "overflow" => next + TickMod - Clock = xMessage.value - n
<1>. DEFINE t == xMessage.timer
            value == xMessage.value
            next == Plus(xTimeNow, value)
            where == Placement(next, xTimeNow, xTimeNow, value)
<1>1. PICK k \in 0 .. xMessage.age : Clock = xTimeNow + k
  BY InHand
<1>2. /\ xMessage.age \in Nat /\ xMessage \in Command /\ value # 0
  BY InHand DEF HandleChangePeriod
<1>3. TickMod \in Nat \ {0} /\ xTimeNow \in Tick /\ value \in Tick \ {0} /\ value \in 0 .. TickMod
  <2>1. xTimeNow \in Tick
    BY DEF TimeInv, TypeInv
  <2>2. value \in Tick \ {0}
    BY <1>2 DEF Command
  <2>. HIDE DEF value
  <2>3. TickMod \in Nat \ {0}
    BY TimersAssumption
  <2>4. value \in 0 .. TickMod
    BY <2>2, <2>3 DEF Tick
  <2>. QED BY <2>1, <2>2, <2>3, <2>4
<1>4. Place(t, next, where, pxCurrentTimerList)
  BY DEF HandleChangePeriod
<1>. HIDE DEF value, next, where
<1>5. next \in Tick
  BY <1>3, PlusIs DEF next
<1>6. /\ where \in {"overflow", "current"}
      /\ where = "current" => next - xTimeNow = value
      /\ where = "overflow" => next + TickMod - xTimeNow = value
  <2>1. Minus(xTimeNow, xTimeNow) = 0 /\ 0 \in Tick
    <3>1. Minus(xTimeNow, xTimeNow) = 0
      <4>1. Minus(xTimeNow, xTimeNow) = xTimeNow - xTimeNow
        BY <1>3, MinusIs DEF Tick
      <4>. QED BY <1>3, <4>1 DEF Tick
    <3>. QED BY <1>3, <3>1 DEF Tick
  <2>2. /\ where \in {"now", "overflow", "current"}
        /\ where = "now" => 0 >= value
        /\ where = "current" => next - xTimeNow = value - 0
        /\ where = "overflow" => next + TickMod - xTimeNow = value - 0
    <3>1. next = Plus(xTimeNow, value) /\ where = Placement(next, xTimeNow, xTimeNow, value)
      BY DEF next, where
    <3>. QED BY <1>3, <1>5, <2>1, <3>1, PlacementIs
  <2>. QED BY <1>3, <2>2 DEF Tick
<1>7. /\ where = "current" => next - Clock = value - k
      /\ where = "overflow" => next + TickMod - Clock = value - k
  <2>1. next \in Int /\ value \in Int /\ xTimeNow \in Int /\ k \in Int /\ TickMod \in Int
    BY <1>1, <1>2, <1>3, <1>5 DEF Tick
  <2>. QED BY <1>1, <1>6, <2>1
<1>8. \E x \in Tick, w \in {"current", "overflow"}, n \in 0 .. xMessage.age :
               /\ Place(t, x, w, pxCurrentTimerList)
               /\ w = "current" => x - Clock = value - n
               /\ w = "overflow" => x + TickMod - Clock = value - n
  <2>. next \in Tick /\ where \in {"current", "overflow"} /\ k \in 0 .. xMessage.age
    BY <1>1, <1>5, <1>6
  <2>. WITNESS next \in Tick, where \in {"current", "overflow"}, k \in 0 .. xMessage.age
  <2>. QED BY <1>4, <1>7
<1>. QED BY <1>8 DEF value

\* The end of a command, whichever it was.
LEMMA HandleDone ==
    ASSUME TimeInv, pc = "handle", pc' = "receive", xMessage' = NoMessage, xTimeNow' = 0,
           UNCHANGED <<xNextExpireTime, xListWasEmpty, wake, timeVars, xLastTime>>,
           pxCurrentTimerList' \in Seq(Timer), pxOverflowTimerList' \in Seq(Timer),
           xItemValue' \in [Timer -> Tick], ListsInv',
           \A u \in InLists' : ListDue(u)' >= -(busy + MaxDelay),
           xTimerPeriodInTicks' \in [Timer -> Tick \ {0}],
           exists' \in [Timer -> BOOLEAN], stopped' \subseteq Timer, called' \in Timer \union {None},
           xTimerQueue' \in Seq(Command), Len(xTimerQueue') <= QueueLength,
           \A i \in DOMAIN xTimerQueue' : Timely(xTimerQueue'[i], Now, busy + MaxDelay),
           halted' \in BOOLEAN
    PROVE  TimeInv'
<1>1. /\ UNCHANGED <<xTickCount, uxPendedTicks, busy, xLastTime>>
      /\ Clock' = Clock /\ Now' = Now /\ 0 \in Tick
  BY TimersAssumption DEF timeVars, Clock, Now, Tick
<1>2. TypeInv'
  <2>1. pc' \in PlaceOfTask
    BY DEF PlaceOfTask
  <2>. QED BY <1>1, <2>1 DEF TimeInv, TypeInv
<1>3. MessagesInv'
  BY <1>1 DEF MessagesInv
<1>4. ClockInv'
  <2>1. Clock' - xLastTime' <= TickMod - 1
    <3>1. PICK k \in 0 .. xMessage.age : Clock = xTimeNow + k
      BY InHand
    <3>2. xMessage.age \in Nat /\ xMessage.age <= TickMod - 1 /\ xTimeNow = xLastTime
      BY InHand
    <3>3. xLastTime \in Int /\ TickMod \in Int
      BY Numbers DEF TimeInv
    <3>. QED BY <1>1, <3>1, <3>2, <3>3
  <2>. QED BY <1>1, <2>1 DEF TimeInv, ClockInv
<1>5. TaskInv'
  BY DEF TaskInv
<1>6. DueInv'
  BY <1>1 DEF DueInv
<1>. QED BY <1>2, <1>3, <1>4, <1>5, <1>6 DEF TimeInv

LEMMA StartTime ==
    ASSUME TimeInv, Handle, HandleStart
    PROVE  TimeInv'
<1>0. PICK t : t = xMessage.timer
  OBVIOUS
<1>. DEFINE period == xTimerPeriodInTicks[t]
            age == xMessage.age
<1>1. /\ pc = "handle" /\ pc' = "receive" /\ xMessage' = NoMessage /\ xTimeNow' = 0
      /\ UNCHANGED <<xNextExpireTime, xListWasEmpty, wake, timeVars, xLastTime>>
      /\ UNCHANGED <<xTickCount, uxPendedTicks, busy>>
      /\ UNCHANGED <<xTimerPeriodInTicks, exists>>
      /\ stopped' \subseteq Timer
  BY DEF Handle, HandleStart, timeVars, TimeInv, TypeInv
<1>2. PICK next \in Tick, where \in {"current", "overflow", "now"} :
               /\ Place(t, next, where, pxCurrentTimerList)
               /\ where = "current" => next - Clock = period - age
               /\ where = "overflow" => next + TickMod - Clock = period - age
               /\ where = "now" => /\ age >= period
                                   /\ next + (age - period) - Now \in {-TickMod, 0, TickMod}
               /\ IF where = "now" /\ t \in AutoReload
                  THEN Restart(t, next, age - period) ELSE NoRestart
               /\ called' = IF where = "now" THEN t ELSE None
  BY <1>0, <1>1, StartIs
<1>3. /\ t \in Timer /\ t \notin Range(pxCurrentTimerList) /\ t \notin Range(pxOverflowTimerList)
      /\ age \in Nat /\ age <= busy + MaxDelay
  BY <1>0, <1>1, InHand
<1>4. period \in Nat \ {0} /\ busy \in Nat /\ MaxDelay \in Nat
  BY <1>3, Numbers DEF TimeInv
<1>. HIDE DEF period, age
<1>5. /\ pxCurrentTimerList' \in Seq(Timer) /\ pxOverflowTimerList' \in Seq(Timer)
      /\ xItemValue' \in [Timer -> Tick]
      /\ ListsInv'
      /\ InLists' = Range(pxCurrentTimerList) \union Range(pxOverflowTimerList)
                        \union IF where \in {"current", "overflow"} THEN {t} ELSE {}
      /\ \A u \in Range(pxCurrentTimerList) \union Range(pxOverflowTimerList) :
             ListDue(u)' = ListDue(u)
      /\ where = "current" => ListDue(t)' = next - Clock
      /\ where = "overflow" => ListDue(t)' = next + TickMod - Clock
  BY <1>1, <1>2, <1>3, PlaceDue DEF TimeInv
<1>6. \A u \in InLists' : ListDue(u)' >= -(busy + MaxDelay)
  <2>. SUFFICES ASSUME NEW u \in InLists' PROVE ListDue(u)' >= -(busy + MaxDelay)
    OBVIOUS
  <2>1. CASE u \in InLists
    <3>1. ListDue(u) >= -(busy + MaxDelay)
      BY <1>1, <2>1 DEF TimeInv, DueInv
    <3>. QED BY <1>5, <2>1, <3>1 DEF InLists
  <2>2. CASE u \notin InLists
    <3>1. u = t /\ where \in {"current", "overflow"}
      BY <1>5, <2>2 DEF InLists
    <3>2. ListDue(u)' = period - age
      BY <1>2, <1>5, <3>1
    <3>. QED BY <1>3, <1>4, <3>2
  <2>. QED BY <2>1, <2>2
<1>7. /\ xTimerQueue' \in Seq(Command) /\ Len(xTimerQueue') <= QueueLength
      /\ \A i \in DOMAIN xTimerQueue' : Timely(xTimerQueue'[i], Now', busy' + MaxDelay)
      /\ halted' \in BOOLEAN
  <2>1. \/ NoRestart
        \/ \E u \in Timer, value \in Tick, late \in Nat :
               /\ Restart(u, value, late)
               /\ late <= busy + MaxDelay
               /\ value + late - Now \in {-TickMod, 0, TickMod}
    <3>1. CASE where = "now" /\ t \in AutoReload
      <4>1. age - period \in Nat /\ age - period <= busy + MaxDelay
        BY <1>2, <1>3, <1>4, <3>1
      <4>. QED BY <1>2, <1>3, <3>1, <4>1
    <3>2. CASE ~(where = "now" /\ t \in AutoReload)
      BY <1>2, <3>2
    <3>. QED BY <3>1, <3>2
  <2>2. \A i \in DOMAIN xTimerQueue : Timely(xTimerQueue[i], Now, busy + MaxDelay)
    BY DEF TimeInv, MessagesInv
  <2>. QED BY <1>1, <2>1, <2>2, RestartIs DEF TimeInv
<1>8. /\ \A i \in DOMAIN xTimerQueue' : Timely(xTimerQueue'[i], Now, busy + MaxDelay)
      /\ called' \in Timer \union {None}
  BY <1>1, <1>2, <1>3, <1>7 DEF Now
<1>9. xTimerPeriodInTicks' \in [Timer -> Tick \ {0}] /\ exists' \in [Timer -> BOOLEAN]
  BY <1>1 DEF TimeInv, TypeInv
<1>. QED BY <1>1, <1>5, <1>6, <1>7, <1>8, <1>9, HandleDone

LEMMA ChangeTime ==
    ASSUME TimeInv, Handle, HandleChangePeriod
    PROVE  TimeInv'
<1>0. PICK t : t = xMessage.timer
  OBVIOUS
<1>. DEFINE value == xMessage.value
            age == xMessage.age
<1>1. /\ pc = "handle" /\ pc' = "receive" /\ xMessage' = NoMessage /\ xTimeNow' = 0
      /\ UNCHANGED <<xNextExpireTime, xListWasEmpty, wake, timeVars, xLastTime>>
      /\ UNCHANGED <<xTickCount, uxPendedTicks, busy>>
      /\ UNCHANGED <<exists, xTimerQueue, halted>> /\ called' = None
      /\ xTimerPeriodInTicks' = [xTimerPeriodInTicks EXCEPT ![t] = value]
      /\ stopped' \subseteq Timer
  BY <1>0 DEF Handle, HandleChangePeriod, NoRestart, timeVars, TimeInv, TypeInv
<1>2. PICK next \in Tick, where \in {"current", "overflow"}, n \in 0 .. age :
               /\ Place(t, next, where, pxCurrentTimerList)
               /\ where = "current" => next - Clock = value - n
               /\ where = "overflow" => next + TickMod - Clock = value - n
  BY <1>0, <1>1, ChangeIs
<1>3. /\ t \in Timer /\ t \notin Range(pxCurrentTimerList) /\ t \notin Range(pxOverflowTimerList)
      /\ age \in Nat /\ age <= busy + MaxDelay /\ value \in Tick /\ value # 0
  BY <1>0, <1>1, InHand DEF HandleChangePeriod, Command
<1>4. value \in Nat /\ busy \in Nat /\ MaxDelay \in Nat
  BY <1>3, Numbers DEF TimeInv, Tick
<1>. HIDE DEF value, age
<1>5. /\ pxCurrentTimerList' \in Seq(Timer) /\ pxOverflowTimerList' \in Seq(Timer)
      /\ xItemValue' \in [Timer -> Tick]
      /\ ListsInv'
      /\ InLists' = Range(pxCurrentTimerList) \union Range(pxOverflowTimerList)
                        \union IF where \in {"current", "overflow"} THEN {t} ELSE {}
      /\ \A u \in Range(pxCurrentTimerList) \union Range(pxOverflowTimerList) :
             ListDue(u)' = ListDue(u)
      /\ where = "current" => ListDue(t)' = next - Clock
      /\ where = "overflow" => ListDue(t)' = next + TickMod - Clock
  BY <1>1, <1>2, <1>3, PlaceDue DEF TimeInv
<1>6. \A u \in InLists' : ListDue(u)' >= -(busy + MaxDelay)
  <2>. SUFFICES ASSUME NEW u \in InLists' PROVE ListDue(u)' >= -(busy + MaxDelay)
    OBVIOUS
  <2>1. CASE u \in InLists
    <3>1. ListDue(u) >= -(busy + MaxDelay)
      BY <1>1, <2>1 DEF TimeInv, DueInv
    <3>. QED BY <1>5, <2>1, <3>1 DEF InLists
  <2>2. CASE u \notin InLists
    <3>1. u = t
      BY <1>5, <2>2 DEF InLists
    <3>2. ListDue(u)' = value - n
      BY <1>2, <1>5, <3>1
    <3>. QED BY <1>3, <1>4, <3>2
  <2>. QED BY <2>1, <2>2
<1>7. /\ xTimerQueue' \in Seq(Command) /\ Len(xTimerQueue') <= QueueLength
      /\ \A i \in DOMAIN xTimerQueue' : Timely(xTimerQueue'[i], Now, busy + MaxDelay)
      /\ halted' \in BOOLEAN /\ exists' \in [Timer -> BOOLEAN]
      /\ called' \in Timer \union {None}
  BY <1>1 DEF TimeInv, TypeInv, MessagesInv
<1>8. xTimerPeriodInTicks' \in [Timer -> Tick \ {0}]
  BY <1>1, <1>3 DEF TimeInv, TypeInv
<1>. QED BY <1>1, <1>5, <1>6, <1>7, <1>8, HandleDone

LEMMA HandleTime ==
    ASSUME TimeInv, Handle
    PROVE  TimeInv'
<1>1. CASE HandleStart
  BY <1>1, StartTime
<1>2. CASE HandleChangePeriod
  BY <1>2, ChangeTime
<1>3. CASE HandleStop \/ HandleDelete
  <2>1. /\ pc = "handle" /\ pc' = "receive" /\ xMessage' = NoMessage /\ xTimeNow' = 0
        /\ UNCHANGED <<xNextExpireTime, xListWasEmpty, wake, timeVars, xLastTime>>
        /\ UNCHANGED <<xTickCount, uxPendedTicks, busy>>
        /\ UNCHANGED <<pxCurrentTimerList, pxOverflowTimerList, xItemValue, xTimerPeriodInTicks,
                       xTimerQueue, halted>>
        /\ called' = None
    BY <1>3 DEF Handle, HandleStop, HandleDelete, NoRestart, timeVars, listVars
  <2>2. exists' \in [Timer -> BOOLEAN] /\ stopped' \subseteq Timer
    <3>1. xMessage.timer \in Timer
      BY <2>1, InHand
    <3>. QED BY <1>3, <3>1 DEF HandleStop, HandleDelete, TimeInv, TypeInv
  <2>3. InLists' = InLists /\ Clock' = Clock
    BY <2>1 DEF InLists, Clock
  <2>4. \A u \in InLists' : ListDue(u)' >= -(busy + MaxDelay)
    <3>1. \A u \in InLists : ListDue(u)' = ListDue(u)
      BY <2>1, <2>3 DEF ListDue
    <3>. QED BY <2>1, <2>3, <3>1 DEF TimeInv, DueInv
  <2>5. ListsInv'
    BY <2>1 DEF TimeInv, ListsInv
  <2>6. /\ pxCurrentTimerList' \in Seq(Timer) /\ pxOverflowTimerList' \in Seq(Timer)
        /\ xItemValue' \in [Timer -> Tick] /\ xTimerPeriodInTicks' \in [Timer -> Tick \ {0}]
        /\ called' \in Timer \union {None}
        /\ xTimerQueue' \in Seq(Command) /\ Len(xTimerQueue') <= QueueLength
        /\ \A i \in DOMAIN xTimerQueue' : Timely(xTimerQueue'[i], Now, busy + MaxDelay)
        /\ halted' \in BOOLEAN
    BY <2>1 DEF TimeInv, TypeInv, MessagesInv
  <2>. QED BY <2>1, <2>2, <2>4, <2>5, <2>6, HandleDone
<1>. QED BY <1>1, <1>2, <1>3 DEF Handle
---------------------------------------------------------------------------
(* The timers sleep through nothing *)

LEMMA StutterTime ==
    ASSUME TimeInv, UNCHANGED vars
    PROVE  TimeInv'
<1>1. UNCHANGED <<xTickCount, uxPendedTicks, busy, pxCurrentTimerList, pxOverflowTimerList,
                  xItemValue, xTimerPeriodInTicks, exists, stopped, xTimerQueue, xLastTime, pc,
                  xNextExpireTime, xListWasEmpty, xTimeNow, xMessage, wake, halted, called>>
  BY DEF vars, taskVars, timeVars, listVars, timerVars
<1>2. Clock' = Clock /\ Now' = Now /\ InLists' = InLists
  BY <1>1 DEF Clock, Now, InLists
<1>3. \A u \in InLists : ListDue(u)' = ListDue(u)
  BY <1>1, <1>2 DEF ListDue
<1>. QED BY <1>1, <1>2, <1>3
         DEF TimeInv, TypeInv, ListsInv, MessagesInv, ClockInv, TaskInv, DueInv

LEMMA NextTime == TimeInv /\ [Next]_vars => TimeInv'
<1>. SUFFICES ASSUME TimeInv, [Next]_vars PROVE TimeInv'
  OBVIOUS
<1>1. CASE TickInterrupt
  BY <1>1, TickTime
<1>2. CASE TimerTask
  BY <1>2, NextExpireTime, ProcessTime, ExpiredTime, SwitchTime, SwitchDoneTime, ReceiveTime,
     SampleTime, HandleTime DEF TimerTask
<1>3. CASE Application
  BY <1>3, CommandTime, CreateTime, PendTime DEF Application
<1>4. CASE UNCHANGED vars
  BY <1>4, StutterTime
<1>. QED BY <1>1, <1>2, <1>3, <1>4 DEF Next

LEMMA TimeKept == Spec => []TimeInv
<1>1. Init => TimeInv
  BY InitTime
<1>2. TimeInv /\ [Next]_vars => TimeInv'
  BY NextTime
<1>. QED BY <1>1, <1>2, PTL DEF Spec

LEMMA DueOfList ==
    ASSUME NEW t \in InLists
    PROVE  Due(t) = ListDue(t)
BY DEF Due, ListDue, InLists

(***************************************************************************)
(* However the tick interrupts, the commands and the wraps of the tick     *)
(* count fall between its steps: when the timer task blocks, no command is *)
(* in its queue and every running timer expires later than now.            *)
(***************************************************************************)
THEOREM TimersSleepSafely == Spec => []SleepsThroughNothing
<1>1. TimeInv => SleepsThroughNothing
  <2>. SUFFICES ASSUME TimeInv, pc = "blocked"
                PROVE  xTimerQueue = <<>> /\ \A t \in InLists : Due(t) > 0
    BY DEF SleepsThroughNothing
  <2>1. xTimerQueue = <<>> /\ \A t \in InLists : ListDue(t) >= 1
    BY DEF TimeInv, DueInv
  <2>2. \A t \in InLists : ListDue(t) \in Int
    BY DueIsInt DEF TimeInv
  <2>3. ASSUME NEW t \in InLists PROVE Due(t) > 0
    <3>1. Due(t) = ListDue(t)
      BY DueOfList
    <3>. QED BY <2>1, <2>2, <3>1
  <2>. QED BY <2>1, <2>3
<1>. QED BY <1>1, TimeKept, PTL
---------------------------------------------------------------------------
(***************************************************************************)
(* The timers that start again.  What the application owes them: their     *)
(* commands come from tasks, which send one only while the timer task is   *)
(* blocked, and the queue keeps an entry free for the restart of each.     *)
(***************************************************************************)
RoomForRestarts ==
    /\ IsrTimers \intersect AutoReload = {}
    /\ IsFiniteSet(AutoReload) /\ Cardinality(AutoReload) <= Reserved

ActiveTimers == {t \in AutoReload : Active(t)}

\* What counting them needs.
LEMMA Counting ==
    ASSUME RoomForRestarts, NEW S \in SUBSET AutoReload
    PROVE  /\ IsFiniteSet(S) /\ Cardinality(S) \in Nat
           /\ Cardinality(AutoReload) \in Nat
           /\ Cardinality(S) <= Cardinality(AutoReload)
           /\ \A T \in SUBSET S : Cardinality(T) <= Cardinality(S) /\ Cardinality(T) \in Nat
           /\ \A x \in S : Cardinality(S \ {x}) = Cardinality(S) - 1
           /\ \A x : Cardinality(S \union {x}) \in Nat
                     /\ Cardinality(S \union {x}) <= Cardinality(S) + 1
<1>1. IsFiniteSet(AutoReload)
  BY DEF RoomForRestarts
<1>2. IsFiniteSet(S) /\ Cardinality(S) \in Nat /\ Cardinality(AutoReload) \in Nat
      /\ Cardinality(S) <= Cardinality(AutoReload)
  BY <1>1, FS_Subset, FS_CardinalityType
<1>3. \A T \in SUBSET S : Cardinality(T) <= Cardinality(S) /\ Cardinality(T) \in Nat
  BY <1>2, FS_Subset, FS_CardinalityType
<1>4. \A x \in S : Cardinality(S \ {x}) = Cardinality(S) - 1
  BY <1>2, FS_RemoveElement
<1>5. ASSUME NEW x PROVE Cardinality(S \union {x}) \in Nat
                         /\ Cardinality(S \union {x}) <= Cardinality(S) + 1
  <2>1. /\ Cardinality(S \union {x}) = IF x \in S THEN Cardinality(S) ELSE Cardinality(S) + 1
        /\ IsFiniteSet(S \union {x})
    BY <1>2, FS_AddElement
  <2>. QED BY <1>2, <2>1
<1>. QED BY <1>2, <1>3, <1>4, <1>5

\* A restart has an entry as long as its timer is active.
LEMMA RoomIs ==
    ASSUME RoomForRestarts, TypeInv, RoomInv
    PROVE  /\ Len(xTimerQueue) \in Nat /\ QueueLength \in Nat /\ Reserved \in Nat
           /\ Reserved <= QueueLength
           /\ Cardinality(ActiveTimers) \in Nat /\ Cardinality(AutoReload) \in Nat
           /\ Cardinality(AutoReload) <= Reserved
           /\ Len(xTimerQueue) + Cardinality(ActiveTimers)
                  <= QueueLength - Reserved + Cardinality(AutoReload)
           /\ \A t \in ActiveTimers : Len(xTimerQueue) < QueueLength
<1>1. /\ Len(xTimerQueue) \in Nat /\ QueueLength \in Nat /\ Reserved \in Nat
      /\ Reserved <= QueueLength
  BY LenProperties, TimersAssumption DEF TypeInv
<1>2. ActiveTimers \in SUBSET AutoReload
  BY DEF ActiveTimers
<1>3. /\ Cardinality(ActiveTimers) \in Nat /\ Cardinality(AutoReload) \in Nat
      /\ \A t \in ActiveTimers : Cardinality(ActiveTimers \ {t}) = Cardinality(ActiveTimers) - 1
      /\ \A T \in SUBSET ActiveTimers : Cardinality(T) \in Nat
  BY <1>2, Counting
<1>4. Cardinality(AutoReload) <= Reserved
  BY DEF RoomForRestarts
<1>5. Len(xTimerQueue) + Cardinality(ActiveTimers) <= QueueLength - Reserved + Cardinality(AutoReload)
  BY DEF RoomInv, ActiveTimers
<1>6. ASSUME NEW t \in ActiveTimers PROVE Len(xTimerQueue) < QueueLength
  <2>1. /\ Cardinality(ActiveTimers \ {t}) \in Nat
        /\ Cardinality(ActiveTimers \ {t}) = Cardinality(ActiveTimers) - 1
    BY <1>3
  <2>. QED BY <1>1, <1>3, <1>4, <1>5, <2>1
<1>. QED BY <1>1, <1>3, <1>4, <1>5, <1>6

\* The same messages, and no timer more in the lists.
LEMMA SameReload ==
    ASSUME RoomForRestarts, TypeInv, ReloadInv,
           InLists' \subseteq InLists, \A t \in Timer : exists[t] => exists'[t], halted' = halted,
           Len(xTimerQueue') = Len(xTimerQueue), DOMAIN xTimerQueue' = DOMAIN xTimerQueue,
           \A i \in DOMAIN xTimerQueue : /\ xTimerQueue'[i].id = xTimerQueue[i].id
                                         /\ xTimerQueue'[i].timer = xTimerQueue[i].timer,
           xMessage'.id = xMessage.id, xMessage'.timer = xMessage.timer,
           pc' = "receive" \/ pc # "receive" \/ xTimerQueue = <<>>,
           InLists \subseteq Timer
    PROVE  ReloadInv'
<1>1. OneMessage'
  <2>1. pc' = "receive" \/ pc # "receive" \/ DOMAIN xTimerQueue = {}
    OBVIOUS
  <2>. QED BY <2>1 DEF ReloadInv, OneMessage
<1>2. ExistInv'
  BY DEF ReloadInv, ExistInv
<1>3. RoomInv'
  <2>1. ActiveTimers' \in SUBSET ActiveTimers /\ ActiveTimers \in SUBSET AutoReload
    BY DEF ActiveTimers, Active
  <2>2. Cardinality(ActiveTimers') <= Cardinality(ActiveTimers) /\ Cardinality(ActiveTimers') \in Nat
    BY <2>1, Counting
  <2>3. /\ Len(xTimerQueue) \in Nat /\ QueueLength \in Nat /\ Reserved \in Nat
        /\ Cardinality(ActiveTimers) \in Nat /\ Cardinality(AutoReload) \in Nat
        /\ Len(xTimerQueue) + Cardinality(ActiveTimers)
               <= QueueLength - Reserved + Cardinality(AutoReload)
    BY RoomIs DEF ReloadInv
  <2>4. Len(xTimerQueue') + Cardinality(ActiveTimers')
            <= QueueLength - Reserved + Cardinality(AutoReload)
    BY <2>2, <2>3
  <2>. QED BY <2>4 DEF RoomInv, ReloadInv, ActiveTimers
<1>. QED BY <1>1, <1>2, <1>3 DEF ReloadInv

\* The timer of the command in hand is put in a list.
LEMMA PlacedReload ==
    ASSUME RoomForRestarts, TimeInv, ReloadInv, pc = "handle", pc' = "receive",
           xMessage' = NoMessage, InLists' \subseteq InLists \union {xMessage.timer},
           UNCHANGED <<xTimerQueue, exists, halted>>
    PROVE  ReloadInv'
<1>1. /\ xMessage.timer \in Timer /\ None \notin Timer /\ AutoReload \subseteq Timer
      /\ NoMessage.timer = None /\ NoMessage.id = "none" /\ InLists \subseteq Timer
  BY InHand, TimersAssumption, ListsFit DEF NoMessage, TimeInv
<1>2. OneMessage'
  BY <1>1 DEF ReloadInv, OneMessage
<1>3. ExistInv'
  BY <1>1 DEF ReloadInv, ExistInv
<1>4. RoomInv'
  <2>1. ActiveTimers' \in SUBSET ActiveTimers /\ ActiveTimers \in SUBSET AutoReload
    BY <1>1 DEF ActiveTimers, Active
  <2>2. Cardinality(ActiveTimers') <= Cardinality(ActiveTimers) /\ Cardinality(ActiveTimers') \in Nat
    BY <2>1, Counting
  <2>3. /\ Len(xTimerQueue) \in Nat /\ QueueLength \in Nat /\ Reserved \in Nat
        /\ Cardinality(ActiveTimers) \in Nat /\ Cardinality(AutoReload) \in Nat
        /\ Len(xTimerQueue) + Cardinality(ActiveTimers)
               <= QueueLength - Reserved + Cardinality(AutoReload)
    BY RoomIs DEF ReloadInv, TimeInv
  <2>4. Len(xTimerQueue') + Cardinality(ActiveTimers')
            <= QueueLength - Reserved + Cardinality(AutoReload)
    BY <2>2, <2>3
  <2>. QED BY <2>4 DEF RoomInv, ReloadInv, ActiveTimers
<1>. QED BY <1>2, <1>3, <1>4 DEF ReloadInv

(***************************************************************************)
(* The timer task sends the restart of a timer: there is room, and no      *)
(* other message of that timer is under way.                               *)
(***************************************************************************)
LEMMA RestartReload ==
    ASSUME RoomForRestarts, TimeInv, ReloadInv, NEW t \in AutoReload, Active(t),
           \A i \in DOMAIN xTimerQueue : xTimerQueue[i].timer # t, exists[t],
           NEW value, NEW late, Restart(t, value, late),
           value \in Tick, late \in Nat,
           InLists' = InLists \ {t}, UNCHANGED exists,
           xMessage' = NoMessage \/ (xMessage' = xMessage /\ xMessage.timer # t),
           pc' = "receive" \/ pc # "receive"
    PROVE  ReloadInv' /\ Len(xTimerQueue) < QueueLength
<1>. DEFINE m == [id |-> "restart", timer |-> t, value |-> value, age |-> late]
<1>1. /\ Len(xTimerQueue) \in Nat /\ QueueLength \in Nat /\ Reserved \in Nat
      /\ Cardinality(ActiveTimers) \in Nat /\ Cardinality(AutoReload) \in Nat
      /\ Len(xTimerQueue) + Cardinality(ActiveTimers)
             <= QueueLength - Reserved + Cardinality(AutoReload)
      /\ \A u \in ActiveTimers : Len(xTimerQueue) < QueueLength
  BY RoomIs DEF ReloadInv, TimeInv
<1>2. t \in ActiveTimers
  BY DEF ActiveTimers
<1>3. Len(xTimerQueue) < QueueLength
  BY <1>1, <1>2
<1>4. /\ m \in Command /\ m.id = "restart" /\ m.timer = t
      /\ AutoReload \subseteq Timer /\ None \notin Timer
  BY TimersAssumption DEF Command
<1>5. xTimerQueue' = Append(xTimerQueue, m) /\ halted' = FALSE
  BY <1>3 DEF Restart
<1>. HIDE DEF m
<1>6. /\ Len(xTimerQueue') = Len(xTimerQueue) + 1
      /\ DOMAIN xTimerQueue' = 1 .. Len(xTimerQueue) + 1
      /\ DOMAIN xTimerQueue = 1 .. Len(xTimerQueue)
      /\ \A i \in DOMAIN xTimerQueue : xTimerQueue'[i] = xTimerQueue[i]
      /\ xTimerQueue'[Len(xTimerQueue) + 1] = m
  BY <1>4, <1>5, AppendIs DEF TimeInv, TypeInv
<1>. DEFINE last == Len(xTimerQueue) + 1
<1>7. /\ \A i \in DOMAIN xTimerQueue' : i = last \/ (i \in DOMAIN xTimerQueue /\ i < last)
      /\ xTimerQueue'[last] = m /\ last \notin DOMAIN xTimerQueue
  BY <1>1, <1>6
<1>8. /\ NoMessage.timer \notin Timer /\ NoMessage.id = "none"
      /\ xMessage'.timer # t
      /\ xMessage'.timer \in AutoReload => xMessage' = xMessage
      /\ xMessage'.timer \in Timer => xMessage' = xMessage
      /\ xMessage'.id \in {"delete", "restart"} => xMessage' = xMessage
  BY <1>4 DEF NoMessage
<1>. HIDE DEF last
<1>9. OneMessage'
  <2>1. \A i, j \in DOMAIN xTimerQueue' :
            xTimerQueue'[i].timer = xTimerQueue'[j].timer /\ xTimerQueue'[i].timer \in AutoReload
                => i = j
    <3>. SUFFICES ASSUME NEW i \in DOMAIN xTimerQueue', NEW j \in DOMAIN xTimerQueue',
                         xTimerQueue'[i].timer = xTimerQueue'[j].timer,
                         xTimerQueue'[i].timer \in AutoReload
                  PROVE  i = j
      OBVIOUS
    <3>1. CASE i \in DOMAIN xTimerQueue /\ j \in DOMAIN xTimerQueue
      BY <1>6, <3>1 DEF ReloadInv, OneMessage
    <3>2. CASE i = last \/ j = last
      BY <1>4, <1>6, <1>7, <3>2
    <3>. QED BY <1>7, <3>1, <3>2
  <2>2. xMessage'.timer \in AutoReload =>
            \A i \in DOMAIN xTimerQueue' : xTimerQueue'[i].timer # xMessage'.timer
    BY <1>4, <1>6, <1>7, <1>8 DEF ReloadInv, OneMessage
  <2>3. ASSUME NEW i \in DOMAIN xTimerQueue'
        PROVE  /\ xTimerQueue'[i].id = "restart" =>
                      xTimerQueue'[i].timer \in AutoReload /\ xTimerQueue'[i].timer \notin InLists'
               /\ xTimerQueue'[i].id # "restart" /\ xTimerQueue'[i].timer \in AutoReload =>
                      i = 1 /\ pc' = "receive"
    <3>1. CASE i \in DOMAIN xTimerQueue
      BY <1>6, <3>1 DEF ReloadInv, OneMessage
    <3>2. CASE i = last
      BY <1>4, <1>7, <3>2
    <3>. QED BY <1>7, <3>1, <3>2
  <2>4. xMessage'.id = "restart" => xMessage'.timer \in AutoReload
    BY <1>8 DEF ReloadInv, OneMessage
  <2>. QED BY <2>1, <2>2, <2>3, <2>4 DEF OneMessage
<1>10. ExistInv'
  <2>1. \A u \in InLists' : exists'[u]
    BY DEF ReloadInv, ExistInv
  <2>2. \A i \in DOMAIN xTimerQueue' :
            xTimerQueue'[i].timer \in Timer => exists'[xTimerQueue'[i].timer]
    BY <1>4, <1>6, <1>7 DEF ReloadInv, ExistInv
  <2>3. xMessage'.timer \in Timer => exists'[xMessage'.timer]
    BY <1>8 DEF ReloadInv, ExistInv
  <2>4. \A i, j \in DOMAIN xTimerQueue' :
            xTimerQueue'[i].id = "delete" /\ i < j =>
                xTimerQueue'[j].timer # xTimerQueue'[i].timer
    <3>. SUFFICES ASSUME NEW i \in DOMAIN xTimerQueue', NEW j \in DOMAIN xTimerQueue',
                         xTimerQueue'[i].id = "delete", i < j
                  PROVE  xTimerQueue'[j].timer # xTimerQueue'[i].timer
      OBVIOUS
    <3>1. i \in DOMAIN xTimerQueue
      BY <1>4, <1>7
    <3>2. CASE j \in DOMAIN xTimerQueue
      BY <1>6, <3>1, <3>2 DEF ReloadInv, ExistInv
    <3>3. CASE j = last
      BY <1>4, <1>6, <1>7, <3>1, <3>3
    <3>. QED BY <1>7, <3>2, <3>3
  <2>5. xMessage'.id = "delete" =>
            \A i \in DOMAIN xTimerQueue' : xTimerQueue'[i].timer # xMessage'.timer
    BY <1>4, <1>6, <1>7, <1>8 DEF ReloadInv, ExistInv
  <2>. QED BY <2>1, <2>2, <2>3, <2>4, <2>5 DEF ExistInv
<1>11. RoomInv'
  <2>1. ActiveTimers' \in SUBSET (ActiveTimers \ {t}) /\ ActiveTimers \in SUBSET AutoReload
        /\ ActiveTimers \ {t} \in SUBSET AutoReload
    BY <1>8 DEF ActiveTimers, Active
  <2>2. Cardinality(ActiveTimers') <= Cardinality(ActiveTimers \ {t})
        /\ Cardinality(ActiveTimers') \in Nat
    BY <2>1, Counting
  <2>3. Cardinality(ActiveTimers \ {t}) = Cardinality(ActiveTimers) - 1
    BY <1>2, <2>1, Counting
  <2>4. Len(xTimerQueue') + Cardinality(ActiveTimers')
            <= QueueLength - Reserved + Cardinality(AutoReload)
    BY <1>1, <1>6, <2>2, <2>3
  <2>. QED BY <1>5, <2>4 DEF RoomInv, ActiveTimers
<1>. QED BY <1>3, <1>9, <1>10, <1>11 DEF ReloadInv

\* A command of the application is behind the last one of its timer, and no delete is before it.
LEMMA SendReload ==
    ASSUME RoomForRestarts, TimeInv, ReloadInv, NEW m \in Command, m.id # "restart",
           \/ m.timer = None
           \/ /\ m.timer \in Timer /\ Usable(m.timer)
              /\ pc = "blocked" \/ m.timer \in IsrTimers,
           Len(xTimerQueue) < QueueLength - Reserved,
           xTimerQueue' = Append(xTimerQueue, m),
           pc' = IF pc = "blocked" THEN "receive" ELSE pc,
           InLists' = InLists, UNCHANGED <<xMessage, exists, halted>>
    PROVE  ReloadInv'
<1>. DEFINE last == Len(xTimerQueue) + 1
<1>1. /\ Len(xTimerQueue) \in Nat
      /\ Len(xTimerQueue') = Len(xTimerQueue) + 1
      /\ DOMAIN xTimerQueue' = 1 .. Len(xTimerQueue) + 1
      /\ DOMAIN xTimerQueue = 1 .. Len(xTimerQueue)
      /\ \A i \in DOMAIN xTimerQueue : xTimerQueue'[i] = xTimerQueue[i]
      /\ xTimerQueue'[Len(xTimerQueue) + 1] = m
  BY AppendIs DEF TimeInv, TypeInv
<1>2. /\ \A i \in DOMAIN xTimerQueue' : i = last \/ (i \in DOMAIN xTimerQueue /\ i < last)
      /\ xTimerQueue'[last] = m /\ last \notin DOMAIN xTimerQueue
      /\ \A i \in DOMAIN xTimerQueue' : last < i => FALSE
  BY <1>1
<1>3. AutoReload \subseteq Timer /\ None \notin Timer /\ NoMessage.timer = None
  BY TimersAssumption DEF NoMessage
<1>4. m.timer \in AutoReload =>
          pc' = "receive" /\ DOMAIN xTimerQueue = {} /\ last = 1 /\ xMessage = NoMessage
  <2>. SUFFICES ASSUME m.timer \in AutoReload
                PROVE  pc' = "receive" /\ DOMAIN xTimerQueue = {} /\ last = 1
                       /\ xMessage = NoMessage
    OBVIOUS
  <2>1. pc = "blocked"
    BY <1>3 DEF RoomForRestarts
  <2>2. xTimerQueue = <<>> /\ xMessage = NoMessage
    BY <2>1 DEF TimeInv, DueInv, MessagesInv
  <2>. QED BY <2>1, <2>2
<1>. HIDE DEF last
<1>5. OneMessage'
  <2>1. \A i, j \in DOMAIN xTimerQueue' :
            xTimerQueue'[i].timer = xTimerQueue'[j].timer /\ xTimerQueue'[i].timer \in AutoReload
                => i = j
    <3>. SUFFICES ASSUME NEW i \in DOMAIN xTimerQueue', NEW j \in DOMAIN xTimerQueue',
                         xTimerQueue'[i].timer = xTimerQueue'[j].timer,
                         xTimerQueue'[i].timer \in AutoReload
                  PROVE  i = j
      OBVIOUS
    <3>1. CASE i \in DOMAIN xTimerQueue /\ j \in DOMAIN xTimerQueue
      BY <1>1, <3>1 DEF ReloadInv, OneMessage
    <3>2. CASE i = last \/ j = last
      BY <1>1, <1>2, <1>4, <3>2
    <3>. QED BY <1>2, <3>1, <3>2
  <2>2. xMessage'.timer \in AutoReload =>
            \A i \in DOMAIN xTimerQueue' : xTimerQueue'[i].timer # xMessage'.timer
    BY <1>1, <1>2, <1>3, <1>4 DEF ReloadInv, OneMessage
  <2>3. ASSUME NEW i \in DOMAIN xTimerQueue'
        PROVE  /\ xTimerQueue'[i].id = "restart" =>
                      xTimerQueue'[i].timer \in AutoReload /\ xTimerQueue'[i].timer \notin InLists'
               /\ xTimerQueue'[i].id # "restart" /\ xTimerQueue'[i].timer \in AutoReload =>
                      i = 1 /\ pc' = "receive"
    <3>1. CASE i \in DOMAIN xTimerQueue
      BY <1>1, <3>1 DEF ReloadInv, OneMessage
    <3>2. CASE i = last
      BY <1>2, <1>4, <3>2
    <3>. QED BY <1>2, <3>1, <3>2
  <2>4. xMessage'.id = "restart" => xMessage'.timer \in AutoReload
    BY DEF ReloadInv, OneMessage
  <2>. QED BY <2>1, <2>2, <2>3, <2>4 DEF OneMessage
<1>6. ExistInv'
  <2>1. \A u \in InLists' : exists'[u]
    BY DEF ReloadInv, ExistInv
  <2>2. \A i \in DOMAIN xTimerQueue' :
            xTimerQueue'[i].timer \in Timer => exists'[xTimerQueue'[i].timer]
    BY <1>1, <1>2, <1>3 DEF ReloadInv, ExistInv, Usable
  <2>3. xMessage'.timer \in Timer => exists'[xMessage'.timer]
    BY DEF ReloadInv, ExistInv
  <2>4. \A i, j \in DOMAIN xTimerQueue' :
            xTimerQueue'[i].id = "delete" /\ i < j =>
                xTimerQueue'[j].timer # xTimerQueue'[i].timer
    <3>. SUFFICES ASSUME NEW i \in DOMAIN xTimerQueue', NEW j \in DOMAIN xTimerQueue',
                         xTimerQueue'[i].id = "delete", i < j
                  PROVE  xTimerQueue'[j].timer # xTimerQueue'[i].timer
      OBVIOUS
    <3>1. i \in DOMAIN xTimerQueue /\ xTimerQueue'[i] = xTimerQueue[i]
      BY <1>1, <1>2
    <3>2. CASE j \in DOMAIN xTimerQueue
      BY <1>1, <3>1, <3>2 DEF ReloadInv, ExistInv
    <3>3. CASE j = last
      <4>1. xTimerQueue[i].timer # None
        BY <3>1 DEF TimeInv, MessagesInv, Timely
      <4>2. xTimerQueue[i] \in Range(xTimerQueue)
        BY <3>1 DEF Range
      <4>. QED BY <1>2, <3>1, <3>3, <4>1, <4>2 DEF Usable
    <3>. QED BY <1>2, <3>2, <3>3
  <2>5. ASSUME xMessage'.id = "delete", NEW i \in DOMAIN xTimerQueue'
        PROVE  xTimerQueue'[i].timer # xMessage'.timer
    <3>1. CASE i \in DOMAIN xTimerQueue
      BY <1>1, <2>5, <3>1 DEF ReloadInv, ExistInv
    <3>2. CASE i = last
      <4>1. xMessage.timer \in Timer
        BY <2>5 DEF TimeInv, MessagesInv, NoMessage
      <4>. QED BY <1>2, <1>3, <2>5, <3>2, <4>1 DEF Usable
    <3>. QED BY <1>2, <3>1, <3>2
  <2>. QED BY <2>1, <2>2, <2>3, <2>4, <2>5 DEF ExistInv
<1>7. RoomInv'
  <2>1. ActiveTimers' = ActiveTimers /\ ActiveTimers \in SUBSET AutoReload
    BY DEF ActiveTimers, Active
  <2>2. /\ Cardinality(ActiveTimers) \in Nat /\ Cardinality(AutoReload) \in Nat
        /\ Cardinality(ActiveTimers) <= Cardinality(AutoReload)
    BY <2>1, Counting
  <2>3. QueueLength \in Nat /\ Reserved \in Nat
    BY TimersAssumption
  <2>4. Len(xTimerQueue') + Cardinality(ActiveTimers')
            <= QueueLength - Reserved + Cardinality(AutoReload)
    BY <1>1, <2>1, <2>2, <2>3
  <2>. QED BY <2>4 DEF RoomInv, ReloadInv, ActiveTimers
<1>. QED BY <1>5, <1>6, <1>7 DEF ReloadInv

LEMMA CommandReload ==
    ASSUME RoomForRestarts, TimeInv, ReloadInv, NEW t \in Timer,
           xTimerStart(t) \/ xTimerStop(t) \/ xTimerChangePeriod(t) \/ xTimerDelete(t)
    PROVE  ReloadInv'
<1>1. ASSUME NEW id \in {"start", "stop", "changePeriod", "delete"}, NEW value \in Tick, NEW age \in Nat,
             xTimerGenericCommand(t, id, value, age)
      PROVE  ReloadInv'
  <2>. DEFINE m == [id |-> id, timer |-> t, value |-> value, age |-> age]
  <2>1. m \in Command /\ m.id = id /\ m.timer = t
    BY <1>1 DEF Command
  <2>2. /\ Usable(t) /\ (pc = "blocked" \/ t \in IsrTimers)
        /\ Len(xTimerQueue) < QueueLength - Reserved
        /\ xTimerQueue' = Append(xTimerQueue, m)
        /\ pc' = IF pc = "blocked" THEN "receive" ELSE pc
        /\ UNCHANGED <<xMessage, exists, halted, pxCurrentTimerList, pxOverflowTimerList>>
    BY <1>1 DEF xTimerGenericCommand, listVars, timerVars
  <2>. HIDE DEF m
  <2>3. InLists' = InLists
    BY <2>2 DEF InLists
  <2>. QED BY <1>1, <2>1, <2>2, <2>3, SendReload
<1>2. MaxDelay \in Nat /\ 0 \in Tick /\ uxPendedTicks \in Nat /\ xTickCount \in Tick
      /\ MaxDelay <= TickMod - 1
  <2>1. MaxDelay <= TickMod - 1
    BY TimersAssumption
  <2>. QED BY <2>1, Numbers, TimersAssumption DEF TimeInv, Tick
<1>3. CASE xTimerStart(t)
  <2>1. PICK d \in 0 .. MaxDelay :
            xTimerGenericCommand(t, "start", Minus(xTickCount, d), uxPendedTicks + d)
    BY <1>3 DEF xTimerStart
  <2>2. d \in Tick /\ uxPendedTicks + d \in Nat
    BY <1>2, TimersAssumption DEF Tick
  <2>3. Minus(xTickCount, d) \in Tick
    BY <1>2, <2>2, MinusIs
  <2>. QED BY <1>1, <2>1, <2>2, <2>3
<1>4. CASE xTimerStop(t)
  BY <1>1, <1>2, <1>4 DEF xTimerStop
<1>5. CASE xTimerChangePeriod(t)
  <2>1. PICK p \in Periods : xTimerGenericCommand(t, "changePeriod", p, 0)
    BY <1>5 DEF xTimerChangePeriod
  <2>2. p \in Tick
    BY TimersAssumption DEF Tick
  <2>. QED BY <1>1, <2>1, <2>2
<1>6. CASE xTimerDelete(t)
  BY <1>1, <1>2, <1>6 DEF xTimerDelete
<1>. QED BY <1>3, <1>4, <1>5, <1>6

LEMMA PendReload ==
    ASSUME RoomForRestarts, TimeInv, ReloadInv, xTimerPendFunctionCall
    PROVE  ReloadInv'
<1>. DEFINE m == [NoMessage EXCEPT !.id = "execute"]
<1>1. m \in Command /\ m.id = "execute" /\ m.timer = None
  BY TimersAssumption DEF Command, NoMessage, Tick
<1>2. /\ Len(xTimerQueue) < QueueLength - Reserved
      /\ xTimerQueue' = Append(xTimerQueue, m)
      /\ pc' = IF pc = "blocked" THEN "receive" ELSE pc
      /\ UNCHANGED <<xMessage, exists, halted, pxCurrentTimerList, pxOverflowTimerList>>
  BY DEF xTimerPendFunctionCall, listVars, timerVars
<1>. HIDE DEF m
<1>3. InLists' = InLists
  BY <1>2 DEF InLists
<1>. QED BY <1>1, <1>2, <1>3, SendReload

\* The steps that leave the messages and the lists alone.
LEMMA IdleReload ==
    ASSUME RoomForRestarts, TimeInv, ReloadInv,
           \/ \E t \in Timer : xTimerCreate(t)
           \/ prvGetNextExpireTime \/ prvProcessTimerOrBlockTask \/ SwitchDone
           \/ SampleForCommand \/ (Receive /\ xTimerQueue = <<>>) \/ UNCHANGED vars
    PROVE  ReloadInv'
<1>1. InLists \subseteq Timer
  BY ListsFit DEF TimeInv
<1>2. /\ \A t \in Timer : exists[t] => exists'[t]
      /\ UNCHANGED <<halted, xTimerQueue, xMessage>>
      /\ pc' = "receive" \/ pc # "receive" \/ xTimerQueue = <<>>
  <2>1. CASE \E t \in Timer : xTimerCreate(t)
    <3>1. PICK t \in Timer : xTimerCreate(t)
      BY <2>1
    <3>2. /\ exists' = [exists EXCEPT ![t] = TRUE]
          /\ UNCHANGED <<halted, xTimerQueue, xMessage, pc>>
      BY <3>1 DEF xTimerCreate, taskVars
    <3>. QED BY <3>2 DEF TimeInv, TypeInv
  <2>2. CASE prvGetNextExpireTime
    BY <2>2 DEF prvGetNextExpireTime, timerVars
  <2>3. CASE prvProcessTimerOrBlockTask
    BY <2>3 DEF prvProcessTimerOrBlockTask, timerVars
  <2>4. CASE SwitchDone
    BY <2>4 DEF SwitchDone, timerVars
  <2>5. CASE SampleForCommand
    BY <2>5 DEF SampleForCommand, timerVars
  <2>6. CASE Receive /\ xTimerQueue = <<>>
    BY <2>6 DEF Receive, timerVars
  <2>7. CASE UNCHANGED vars
    BY <2>7 DEF vars, timerVars, taskVars
  <2>. QED BY <2>1, <2>2, <2>3, <2>4, <2>5, <2>6, <2>7
<1>3. InLists' = InLists
  <2>1. CASE SwitchDone
    BY <2>1, SwitchDoneDue
  <2>2. CASE ~SwitchDone
    <3>1. UNCHANGED listVars
      BY <2>2 DEF xTimerCreate, prvGetNextExpireTime, prvProcessTimerOrBlockTask, SampleForCommand,
                  Receive, vars
    <3>. QED BY <3>1 DEF listVars, InLists
  <2>. QED BY <2>1, <2>2
<1>. QED BY <1>1, <1>2, <1>3, SameReload DEF TimeInv

LEMMA TickReload ==
    ASSUME RoomForRestarts, TimeInv, ReloadInv, TickInterrupt
    PROVE  ReloadInv'
<1>1. /\ UNCHANGED <<pxCurrentTimerList, pxOverflowTimerList, exists, halted>>
      /\ xTimerQueue' = [i \in DOMAIN xTimerQueue |-> Older(xTimerQueue[i])]
      /\ xMessage' = IF xMessage = NoMessage THEN xMessage ELSE Older(xMessage)
      /\ pc' = IF pc = "blocked" /\ wake # Off /\ wake' = Off THEN "receive" ELSE pc
  BY DEF TickInterrupt, listVars, timerVars
<1>2. /\ Len(xTimerQueue') = Len(xTimerQueue) /\ DOMAIN xTimerQueue' = DOMAIN xTimerQueue
      /\ \A i \in DOMAIN xTimerQueue : /\ xTimerQueue[i] \in Command
                                       /\ xTimerQueue'[i] = Older(xTimerQueue[i])
  BY <1>1, OlderQueue DEF TimeInv, TypeInv
<1>3. \A i \in DOMAIN xTimerQueue : /\ xTimerQueue'[i].id = xTimerQueue[i].id
                                    /\ xTimerQueue'[i].timer = xTimerQueue[i].timer
  BY <1>2, OlderIs
<1>4. xMessage'.id = xMessage.id /\ xMessage'.timer = xMessage.timer
  BY <1>1, OlderIs DEF TimeInv, TypeInv
<1>5. InLists' = InLists /\ InLists \subseteq Timer
  BY <1>1, ListsFit DEF InLists, TimeInv
<1>. QED BY <1>1, <1>2, <1>3, <1>4, <1>5, SameReload DEF TimeInv

\* A timer expires; either way of catching up finds room for its restart.
LEMMA ExpiresReload ==
    ASSUME RoomForRestarts, TimeInv, ReloadInv, prvProcessExpiredTimer \/ prvSwitchTimerLists
    PROVE  ReloadInv'
<1>1. PICK t : Expires(t)
  BY ExpiredIs, SwitchIs
<1>2. /\ pc \in {"expired", "switch", "switchSuspended"}
      /\ pc # "blocked" /\ pc # "receive"
  BY DEF prvProcessExpiredTimer, prvSwitchTimerLists
<1>3. /\ t \in Timer /\ t \in InLists /\ UNCHANGED <<exists, xMessage>>
      /\ \A u \in InLists \ {t} : u \in InLists' /\ InLists' \subseteq InLists
      /\ InLists' \subseteq InLists
      /\ Clock' = Clock /\ InLists \subseteq Timer
  BY <1>1, <1>2, ExpiresDue, ListsFit DEF TimeInv
<1>4. \/ NoRestart
      \/ /\ t \in AutoReload /\ t \notin InLists'
         /\ \E e \in Tick : e - Clock = ListDue(t) /\ Restart(t, e, Clock - e)
  BY <1>1, <1>2, ExpiresDue
<1>5. CASE NoRestart
  <2>1. UNCHANGED <<xTimerQueue, halted>>
    BY <1>5 DEF NoRestart
  <2>. QED BY <1>2, <1>3, <2>1, SameReload DEF TimeInv
<1>6. ASSUME t \in AutoReload, t \notin InLists', NEW e \in Tick,
             e - Clock = ListDue(t), Restart(t, e, Clock - e)
      PROVE  ReloadInv'
  <2>1. InLists' = InLists \ {t}
    BY <1>3, <1>6
  <2>2. Clock - e \in Nat
    <3>1. ListDue(t) <= 0 /\ ListDue(t) \in Int
      BY <1>1, <1>2, <1>3, ExpiresDue, DueIsInt DEF TimeInv
    <3>2. Clock \in Int /\ e \in Int
      BY Numbers, TimersAssumption DEF TimeInv, Tick
    <3>. QED BY <1>6, <3>1, <3>2
  <2>3. xMessage.timer # t
    BY <1>2, <1>3, TimersAssumption DEF TimeInv, MessagesInv, NoMessage
  <2>4. \A i \in DOMAIN xTimerQueue : xTimerQueue[i].timer # t
    BY <1>2, <1>3, <1>6 DEF ReloadInv, OneMessage
  <2>5. exists[t] /\ Active(t)
    BY <1>3 DEF ReloadInv, ExistInv, Active
  <2>. QED BY <1>2, <1>3, <1>6, <2>1, <2>2, <2>3, <2>4, <2>5, RestartReload
<1>. QED BY <1>4, <1>5, <1>6

\* The next command: it goes from the queue to the hand.
LEMMA ReceiveReload ==
    ASSUME RoomForRestarts, TimeInv, ReloadInv, Receive, xTimerQueue # <<>>
    PROVE  ReloadInv'
<1>. DEFINE m == Head(xTimerQueue)
<1>1. /\ pc = "receive" /\ xMessage = NoMessage
      /\ xTimerQueue' = Tail(xTimerQueue)
      /\ TakeOut(m.timer)
      /\ IF m.id = "execute" THEN UNCHANGED <<pc, xMessage>> ELSE pc' = "sample" /\ xMessage' = m
      /\ UNCHANGED <<exists, halted, xTickCount, uxPendedTicks, xLastTime>>
  BY DEF Receive, timerVars, timeVars, TimeInv, MessagesInv
<1>2. /\ m \in Command /\ m = xTimerQueue[1] /\ 1 \in DOMAIN xTimerQueue
      /\ Len(xTimerQueue') = Len(xTimerQueue) - 1
      /\ Len(xTimerQueue) \in Nat
      /\ DOMAIN xTimerQueue' = 1 .. Len(xTimerQueue) - 1
      /\ \A i \in DOMAIN xTimerQueue' : /\ xTimerQueue'[i] = xTimerQueue[i + 1]
                                        /\ i + 1 \in DOMAIN xTimerQueue
  BY <1>1, FirstIs DEF TimeInv, TypeInv
<1>. HIDE DEF m
<1>3. InLists' = InLists \ {m.timer}
  <2>. PICK t : t = m.timer
    OBVIOUS
  <2>1. TakeOut(t) /\ UNCHANGED <<xTickCount, uxPendedTicks, xLastTime>>
    BY <1>1
  <2>. QED BY <2>1, TakeOutIs
<1>4. m.id = "execute" <=> m.timer = None
  BY <1>2 DEF TimeInv, MessagesInv, Timely
<1>5. /\ None \notin Timer /\ AutoReload \subseteq Timer
      /\ NoMessage.timer = None /\ NoMessage.id = "none"
  BY TimersAssumption DEF NoMessage
<1>6. /\ xMessage'.timer \in Timer => xMessage' = m
      /\ xMessage'.id \in {"restart", "delete"} => xMessage' = m
      /\ xMessage'.timer = m.timer
  BY <1>1, <1>4, <1>5
<1>7. \A i \in DOMAIN xTimerQueue' : i + 1 # 1 /\ 1 < i + 1
  BY <1>2
<1>8. \A i, j \in DOMAIN xTimerQueue' : (i + 1 = j + 1 => i = j) /\ (i < j => i + 1 < j + 1)
  BY <1>2
<1>9. OneMessage'
  <2>1. \A i, j \in DOMAIN xTimerQueue' :
            xTimerQueue'[i].timer = xTimerQueue'[j].timer /\ xTimerQueue'[i].timer \in AutoReload
                => i = j
    BY <1>2, <1>8 DEF ReloadInv, OneMessage
  <2>2. ASSUME xMessage'.timer \in AutoReload, NEW i \in DOMAIN xTimerQueue'
        PROVE  xTimerQueue'[i].timer # xMessage'.timer
    <3>1. xMessage' = m
      BY <1>5, <1>6, <2>2
    <3>. QED BY <1>2, <1>7, <2>2, <3>1 DEF ReloadInv, OneMessage
  <2>3. ASSUME NEW i \in DOMAIN xTimerQueue'
        PROVE  /\ xTimerQueue'[i].id = "restart" =>
                      xTimerQueue'[i].timer \in AutoReload /\ xTimerQueue'[i].timer \notin InLists'
               /\ xTimerQueue'[i].id # "restart" /\ xTimerQueue'[i].timer \in AutoReload =>
                      i = 1 /\ pc' = "receive"
    BY <1>2, <1>3, <1>7 DEF ReloadInv, OneMessage
  <2>4. xMessage'.id = "restart" => xMessage'.timer \in AutoReload
    BY <1>2, <1>6 DEF ReloadInv, OneMessage
  <2>. QED BY <2>1, <2>2, <2>3, <2>4 DEF OneMessage
<1>10. ExistInv'
  <2>1. \A u \in InLists' : exists'[u]
    BY <1>1, <1>3 DEF ReloadInv, ExistInv
  <2>2. \A i \in DOMAIN xTimerQueue' :
            xTimerQueue'[i].timer \in Timer => exists'[xTimerQueue'[i].timer]
    BY <1>1, <1>2 DEF ReloadInv, ExistInv
  <2>3. xMessage'.timer \in Timer => exists'[xMessage'.timer]
    BY <1>1, <1>2, <1>6 DEF ReloadInv, ExistInv
  <2>4. \A i, j \in DOMAIN xTimerQueue' :
            xTimerQueue'[i].id = "delete" /\ i < j =>
                xTimerQueue'[j].timer # xTimerQueue'[i].timer
    BY <1>2, <1>8 DEF ReloadInv, ExistInv
  <2>5. xMessage'.id = "delete" =>
            \A i \in DOMAIN xTimerQueue' : xTimerQueue'[i].timer # xMessage'.timer
    BY <1>2, <1>6, <1>7 DEF ReloadInv, ExistInv
  <2>. QED BY <2>1, <2>2, <2>3, <2>4, <2>5 DEF ExistInv
<1>11. RoomInv'
  <2>. DEFINE T == (ActiveTimers \union {m.timer}) \intersect AutoReload
  <2>1. ActiveTimers' \in SUBSET T /\ ActiveTimers \in SUBSET AutoReload /\ T \in SUBSET AutoReload
    BY <1>3, <1>6 DEF ActiveTimers, Active
  <2>2. Cardinality(T) \in Nat /\ Cardinality(T) <= Cardinality(ActiveTimers) + 1
    <3>1. CASE m.timer \in AutoReload
      <4>1. T = ActiveTimers \union {m.timer}
        BY <2>1, <3>1
      <4>. QED BY <2>1, <4>1, Counting
    <3>2. CASE m.timer \notin AutoReload
      <4>1. T = ActiveTimers
        BY <2>1, <3>2
      <4>2. Cardinality(ActiveTimers) \in Nat
        BY <2>1, Counting
      <4>. HIDE DEF T
      <4>. QED BY <4>1, <4>2
    <3>. QED BY <3>1, <3>2
  <2>3. Cardinality(ActiveTimers') <= Cardinality(T) /\ Cardinality(ActiveTimers') \in Nat
    <3>. HIDE DEF T
    <3>. QED BY <2>1, Counting
  <2>4. /\ Len(xTimerQueue) \in Nat /\ QueueLength \in Nat /\ Reserved \in Nat
        /\ Cardinality(ActiveTimers) \in Nat /\ Cardinality(AutoReload) \in Nat
        /\ Len(xTimerQueue) + Cardinality(ActiveTimers)
               <= QueueLength - Reserved + Cardinality(AutoReload)
    BY RoomIs DEF ReloadInv, TimeInv
  <2>. HIDE DEF T
  <2>5. Len(xTimerQueue') + Cardinality(ActiveTimers')
            <= QueueLength - Reserved + Cardinality(AutoReload)
    BY <1>2, <2>2, <2>3, <2>4
  <2>. QED BY <1>1, <2>5 DEF RoomInv, ReloadInv, ActiveTimers
<1>. QED BY <1>9, <1>10, <1>11 DEF ReloadInv

LEMMA StartReload ==
    ASSUME RoomForRestarts, TimeInv, ReloadInv, Handle, HandleStart
    PROVE  ReloadInv'
<1>0. PICK t : t = xMessage.timer
  OBVIOUS
<1>. DEFINE age == xMessage.age
            period == xTimerPeriodInTicks[t]
<1>1. /\ pc = "handle" /\ pc' = "receive" /\ xMessage' = NoMessage
      /\ UNCHANGED <<xTickCount, uxPendedTicks, xLastTime, exists>>
  BY DEF Handle, HandleStart, timeVars
<1>2. PICK next \in Tick, where \in {"current", "overflow", "now"} :
               /\ Place(t, next, where, pxCurrentTimerList)
               /\ where = "now" => age >= period
               /\ IF where = "now" /\ t \in AutoReload
                  THEN Restart(t, next, age - period) ELSE NoRestart
  BY <1>0, <1>1, StartIs
<1>3. /\ t \in Timer /\ t \notin Range(pxCurrentTimerList) /\ t \notin Range(pxOverflowTimerList)
      /\ age \in Nat
  BY <1>0, <1>1, InHand
<1>. HIDE DEF age, period
<1>4. InLists' = Range(pxCurrentTimerList) \union Range(pxOverflowTimerList)
                     \union IF where \in {"current", "overflow"} THEN {t} ELSE {}
  BY <1>1, <1>2, <1>3, PlaceDue DEF TimeInv
<1>5. InLists' \subseteq InLists \union {t} /\ (where = "now" => InLists' = InLists \ {t})
  BY <1>3, <1>4 DEF InLists
<1>6. CASE where = "now" /\ t \in AutoReload
  <2>1. Restart(t, next, age - period) /\ age - period \in Nat
    <3>1. period \in Nat
      BY <1>3, Numbers DEF TimeInv, period
    <3>. QED BY <1>2, <1>3, <1>6, <3>1
  <2>2. Active(t) /\ exists[t] /\ \A i \in DOMAIN xTimerQueue : xTimerQueue[i].timer # t
    BY <1>0, <1>3, <1>6 DEF ReloadInv, OneMessage, ExistInv, Active
  <2>. QED BY <1>1, <1>5, <1>6, <2>1, <2>2, RestartReload
<1>7. CASE ~(where = "now" /\ t \in AutoReload)
  <2>1. UNCHANGED <<xTimerQueue, halted>>
    BY <1>2, <1>7 DEF NoRestart
  <2>. QED BY <1>0, <1>1, <1>5, <2>1, PlacedReload
<1>. QED BY <1>6, <1>7

LEMMA HandleReload ==
    ASSUME RoomForRestarts, TimeInv, ReloadInv, Handle
    PROVE  ReloadInv'
<1>0. PICK t : t = xMessage.timer
  OBVIOUS
<1>1. /\ pc = "handle" /\ pc' = "receive" /\ xMessage' = NoMessage
      /\ UNCHANGED <<xTickCount, uxPendedTicks, xLastTime>>
  BY DEF Handle, timeVars
<1>2. /\ t \in Timer /\ t \notin Range(pxCurrentTimerList) /\ t \notin Range(pxOverflowTimerList)
  BY <1>0, <1>1, InHand
<1>3. CASE HandleStart
  BY <1>3, StartReload
<1>4. CASE HandleChangePeriod
  <2>1. PICK next \in Tick, where \in {"current", "overflow"}, n \in 0 .. xMessage.age :
            Place(t, next, where, pxCurrentTimerList)
    BY <1>0, <1>1, <1>4, ChangeIs
  <2>2. InLists' = Range(pxCurrentTimerList) \union Range(pxOverflowTimerList)
                       \union IF where \in {"current", "overflow"} THEN {t} ELSE {}
    BY <1>1, <1>2, <2>1, PlaceDue DEF TimeInv
  <2>3. InLists' \subseteq InLists \union {t}
    BY <2>2 DEF InLists
  <2>4. UNCHANGED <<xTimerQueue, halted, exists>>
    BY <1>4 DEF HandleChangePeriod, NoRestart
  <2>. QED BY <1>0, <1>1, <2>3, <2>4, PlacedReload
<1>5. CASE HandleStop
  <2>1. UNCHANGED <<xTimerQueue, halted, exists>> /\ InLists' = InLists
    BY <1>5 DEF HandleStop, NoRestart, listVars, InLists
  <2>. QED BY <1>1, <2>1, PlacedReload
<1>6. CASE HandleDelete
  <2>1. /\ UNCHANGED <<xTimerQueue, halted>> /\ InLists' = InLists /\ xMessage.id = "delete"
        /\ exists' = [exists EXCEPT ![t] = FALSE]
    BY <1>0, <1>6 DEF HandleDelete, NoRestart, listVars, InLists
  <2>2. /\ None \notin Timer /\ AutoReload \subseteq Timer /\ t \notin InLists
        /\ NoMessage.timer = None /\ NoMessage.id = "none" /\ InLists \subseteq Timer
    BY <1>2, TimersAssumption, ListsFit DEF NoMessage, InLists, TimeInv
  <2>3. \A i \in DOMAIN xTimerQueue : xTimerQueue[i].timer # t
    BY <1>0, <2>1 DEF ReloadInv, ExistInv
  <2>4. \A u \in Timer : u # t => exists'[u] = exists[u]
    BY <2>1 DEF TimeInv, TypeInv
  <2>5. OneMessage'
    BY <1>1, <2>1, <2>2 DEF ReloadInv, OneMessage
  <2>6. ExistInv'
    BY <1>1, <2>1, <2>2, <2>3, <2>4 DEF ReloadInv, ExistInv
  <2>7. RoomInv'
    <3>1. ActiveTimers' \in SUBSET ActiveTimers /\ ActiveTimers \in SUBSET AutoReload
      BY <1>1, <2>1, <2>2 DEF ActiveTimers, Active
    <3>2. Cardinality(ActiveTimers') <= Cardinality(ActiveTimers)
          /\ Cardinality(ActiveTimers') \in Nat
      BY <3>1, Counting
    <3>3. /\ Len(xTimerQueue) \in Nat /\ QueueLength \in Nat /\ Reserved \in Nat
          /\ Cardinality(ActiveTimers) \in Nat /\ Cardinality(AutoReload) \in Nat
          /\ Len(xTimerQueue) + Cardinality(ActiveTimers)
                 <= QueueLength - Reserved + Cardinality(AutoReload)
      BY RoomIs DEF ReloadInv, TimeInv
    <3>4. Len(xTimerQueue') + Cardinality(ActiveTimers')
              <= QueueLength - Reserved + Cardinality(AutoReload)
      BY <2>1, <3>2, <3>3
    <3>. QED BY <2>1, <3>4 DEF RoomInv, ReloadInv, ActiveTimers
  <2>. QED BY <2>5, <2>6, <2>7 DEF ReloadInv
<1>. QED BY <1>3, <1>4, <1>5, <1>6 DEF Handle

LEMMA InitReload ==
    ASSUME RoomForRestarts, Init
    PROVE  ReloadInv
<1>1. InLists = {}
  BY RangeIn DEF Init, InLists, Range
<1>2. xMessage.timer \notin Timer /\ xMessage.id = "none" /\ AutoReload \subseteq Timer
  BY TimersAssumption DEF Init, NoMessage
<1>3. OneMessage
  BY <1>2 DEF Init, OneMessage
<1>4. ExistInv
  BY <1>1, <1>2 DEF Init, ExistInv
<1>5. RoomInv
  <2>1. {t \in AutoReload : Active(t)} = {}
    BY <1>1, <1>2 DEF Active
  <2>2. Cardinality(AutoReload) \in Nat /\ Cardinality({}) = 0
    BY Counting, FS_EmptySet
  <2>3. QueueLength \in Nat /\ Reserved \in 0 .. QueueLength /\ Len(xTimerQueue) = 0
    BY TimersAssumption DEF Init
  <2>4. Len(xTimerQueue) + Cardinality({t \in AutoReload : Active(t)})
            <= QueueLength - Reserved + Cardinality(AutoReload)
    <3>. DEFINE S == {t \in AutoReload : Active(t)}
    <3>1. Cardinality(S) = 0
      BY <2>1, <2>2
    <3>. HIDE DEF S
    <3>2. Len(xTimerQueue) + Cardinality(S) <= QueueLength - Reserved + Cardinality(AutoReload)
      BY <2>2, <2>3, <3>1
    <3>. QED BY <3>2 DEF S
  <2>. QED BY <2>4 DEF RoomInv, Init
<1>. QED BY <1>3, <1>4, <1>5 DEF ReloadInv

LEMMA NextReload ==
    ASSUME RoomForRestarts, TimeInv, ReloadInv, [Next]_vars
    PROVE  ReloadInv'
<1>1. CASE TickInterrupt
  BY <1>1, TickReload
<1>2. CASE TimerTask
  <2>1. Receive => ReloadInv'
    BY IdleReload, ReceiveReload
  <2>. QED BY <1>2, <2>1, IdleReload, ExpiresReload, HandleReload DEF TimerTask
<1>3. CASE Application
  <2>1. CASE xTimerPendFunctionCall
    BY <2>1, PendReload
  <2>2. ASSUME NEW t \in Timer,
               \/ xTimerStart(t) \/ xTimerStop(t) \/ xTimerChangePeriod(t) \/ xTimerDelete(t)
               \/ xTimerCreate(t)
        PROVE  ReloadInv'
    BY <2>2, CommandReload, IdleReload
  <2>. QED BY <1>3, <2>1, <2>2 DEF Application
<1>4. CASE UNCHANGED vars
  BY <1>4, IdleReload
<1>. QED BY <1>1, <1>2, <1>3, <1>4 DEF Next

LEMMA ReloadKept ==
    ASSUME RoomForRestarts
    PROVE  Spec => [](TimeInv /\ ReloadInv)
<1>1. Init => TimeInv /\ ReloadInv
  BY InitTime, InitReload
<1>2. TimeInv /\ ReloadInv /\ [Next]_vars => (TimeInv /\ ReloadInv)'
  BY NextTime, NextReload
<1>. QED BY <1>1, <1>2, PTL DEF Spec

(***************************************************************************)
(* The lists are sorted and hold no timer twice, nothing of a deleted      *)
(* timer is left, and the restart of a timer always finds room, for every  *)
(* number of timers and whenever the ticks and the commands come.          *)
(***************************************************************************)
LEMMA TypesAre == TimeInv => TimersTypeOK
<1>. SUFFICES ASSUME TimeInv PROVE TimersTypeOK
  OBVIOUS
<1>. DEFINE cur == pxCurrentTimerList
            over == pxOverflowTimerList
            both == cur \o over
<1>1. /\ cur \in Seq(Timer) /\ over \in Seq(Timer)
      /\ IsInjective(cur) /\ IsInjective(over) /\ Range(cur) \intersect Range(over) = {}
  BY DEF TimeInv, TypeInv, ListsInv
<1>2. /\ Len(cur) \in Nat /\ DOMAIN cur = 1 .. Len(cur)
      /\ Len(over) \in Nat /\ DOMAIN over = 1 .. Len(over)
  BY <1>1, LenProperties
<1>3. /\ DOMAIN both = 1 .. Len(cur) + Len(over)
      /\ \A i \in 1 .. Len(cur) : both[i] = cur[i]
      /\ \A i \in Len(cur) + 1 .. Len(cur) + Len(over) : both[i] = over[i - Len(cur)]
  <2>. HIDE DEF cur, over
  <2>. QED BY <1>1, <1>2
<1>. HIDE DEF cur, over, both
<1>4. IsInjective(both)
  <2>. SUFFICES ASSUME NEW i \in DOMAIN both, NEW j \in DOMAIN both, both[i] = both[j]
                PROVE  i = j
    BY DEF IsInjective
  <2>. DEFINE m == Len(cur)
  <2>1. /\ i \in 1 .. m \/ (i \in m + 1 .. m + Len(over) /\ i - m \in DOMAIN over)
        /\ j \in 1 .. m \/ (j \in m + 1 .. m + Len(over) /\ j - m \in DOMAIN over)
    BY <1>2, <1>3
  <2>2. CASE i \in 1 .. m /\ j \in 1 .. m
    BY <1>1, <1>2, <1>3, <2>2 DEF IsInjective
  <2>3. CASE i \notin 1 .. m /\ j \notin 1 .. m
    <3>1. i - m = j - m
      BY <1>1, <1>3, <2>1, <2>3 DEF IsInjective
    <3>. QED BY <1>2, <1>3, <3>1
  <2>4. CASE i \in 1 .. m /\ j \notin 1 .. m
    <3>1. both[i] \in Range(cur) /\ both[j] \in Range(over)
      BY <1>2, <1>3, <2>1, <2>4 DEF Range
    <3>. QED BY <1>1, <3>1
  <2>5. CASE i \notin 1 .. m /\ j \in 1 .. m
    <3>1. both[j] \in Range(cur) /\ both[i] \in Range(over)
      BY <1>2, <1>3, <2>1, <2>5 DEF Range
    <3>. QED BY <1>1, <3>1
  <2>. QED BY <2>2, <2>3, <2>4, <2>5
<1>5. Sorted(pxCurrentTimerList) /\ Sorted(pxOverflowTimerList)
  BY DEF TimeInv, ListsInv, InOrder, Sorted
<1>. QED BY <1>4, <1>5 DEF TimeInv, TypeInv, TimersTypeOK, cur, over, both

THEOREM TimersStaySound ==
    ASSUME RoomForRestarts
    PROVE  Spec => []TimersAreSound
<1>1. TimeInv /\ ReloadInv => TimersAreSound
  <2>. SUFFICES ASSUME TimeInv, ReloadInv PROVE TimersAreSound
    OBVIOUS
  <2>1. TimersTypeOK
    BY TypesAre
  <2>2. DeletedIsForgotten
    <3>. SUFFICES ASSUME NEW t \in Timer, ~exists[t]
                  PROVE  t \notin InLists /\ \A m \in Messages : m.timer # t
      BY DEF DeletedIsForgotten
    <3>1. t \notin InLists
      BY DEF ReloadInv, ExistInv
    <3>2. ASSUME NEW m \in Messages PROVE m.timer # t
      <4>1. CASE m = xMessage
        BY <4>1 DEF ReloadInv, ExistInv
      <4>2. CASE m \in Range(xTimerQueue)
        <5>1. PICK i \in DOMAIN xTimerQueue : xTimerQueue[i] = m
          BY <4>2 DEF Range
        <5>. QED BY <5>1 DEF ReloadInv, ExistInv
      <4>. QED BY <4>1, <4>2 DEF Messages
    <3>. QED BY <3>1, <3>2
  <2>3. ~halted
    BY DEF ReloadInv, RoomInv
  <2>. QED BY <2>1, <2>2, <2>3 DEF TimersAreSound
<1>. QED BY <1>1, ReloadKept, PTL
---------------------------------------------------------------------------
(***************************************************************************)
(* The refinement.  Between two steps every timer that runs is either in   *)
(* one of the lists or in one restart under way, and each of these says    *)
(* when it is due.                                                         *)
(***************************************************************************)
IsRestart(m, t) == m.timer = t /\ m.id = "restart"

OneRestart(M) == \A x, y \in M : \A t : IsRestart(x, t) /\ IsRestart(y, t) => x = y

LEMMA DueInList ==
    ASSUME NEW t
    PROVE  /\ t \in InLists => Due(t) = ListDue(t)
           /\ t \in InLists' => Due(t)' = ListDue(t)'
BY DEF Due, ListDue, InLists

LEMMA ChosenIs ==
    ASSUME NEW M, NEW t, NEW m \in M, IsRestart(m, t), OneRestart(M)
    PROVE  /\ \E x \in M : x.timer = t /\ x.id = "restart"
           /\ (CHOOSE x \in M : x.timer = t /\ x.id = "restart") = m
<1>. DEFINE c == CHOOSE x \in M : x.timer = t /\ x.id = "restart"
<1>1. \E x \in M : x.timer = t /\ x.id = "restart"
  BY DEF IsRestart
<1>2. c \in M /\ c.timer = t /\ c.id = "restart"
  BY <1>1
<1>. HIDE DEF c
<1>3. c = m
  BY <1>2 DEF OneRestart, IsRestart
<1>. QED BY <1>1, <1>3 DEF c

LEMMA DueOfRestart ==
    ASSUME NEW t, NEW m, IsRestart(m, t), t \notin InLists, m \in Messages, OneRestart(Messages)
    PROVE  Due(t) = xTimerPeriodInTicks[t] - m.age
<1>. DEFINE c == CHOOSE x \in Messages : x.timer = t /\ x.id = "restart"
<1>1. c = m /\ \E x \in Messages : x.timer = t /\ x.id = "restart"
  BY ChosenIs
<1>2. Due(t) = xTimerPeriodInTicks[t] - c.age
  <2>1. \E x \in Messages : x.timer = t /\ x.id = "restart"
    BY <1>1
  <2>2. t \notin Range(pxCurrentTimerList) /\ t \notin Range(pxOverflowTimerList)
    BY DEF InLists
  <2>. QED BY <2>1, <2>2 DEF Due
<1>. HIDE DEF c
<1>. QED BY <1>1, <1>2

LEMMA DueOfRestartThen ==
    ASSUME NEW t, NEW m, IsRestart(m, t), t \notin InLists', m \in Messages', OneRestart(Messages')
    PROVE  Due(t)' = xTimerPeriodInTicks'[t] - m.age
<1>. DEFINE c == CHOOSE x \in Messages' : x.timer = t /\ x.id = "restart"
<1>1. c = m /\ \E x \in Messages' : x.timer = t /\ x.id = "restart"
  BY ChosenIs
<1>2. Due(t)' = xTimerPeriodInTicks'[t] - c.age
  <2>1. \E x \in Messages' : x.timer = t /\ x.id = "restart"
    BY <1>1
  <2>2. t \notin Range(pxCurrentTimerList') /\ t \notin Range(pxOverflowTimerList')
    BY DEF InLists
  <2>. QED BY <2>1, <2>2 DEF Due
<1>. HIDE DEF c
<1>. QED BY <1>1, <1>2

LEMMA DueOff ==
    ASSUME NEW t
    PROVE  /\ t \notin InLists /\ (\A m \in Messages : ~IsRestart(m, t)) => Due(t) = Off
           /\ t \notin InLists' /\ (\A m \in Messages' : ~IsRestart(m, t)) => Due(t)' = Off
<1>1. t \notin InLists /\ (\A m \in Messages : ~IsRestart(m, t)) => Due(t) = Off
  BY DEF Due, InLists, IsRestart
<1>2. t \notin InLists' /\ (\A m \in Messages' : ~IsRestart(m, t)) => Due(t)' = Off
  BY DEF Due, InLists, IsRestart
<1>. QED BY <1>1, <1>2

LEMMA OneIn ==
    ASSUME NEW q, NEW m,
           \A i, j \in DOMAIN q : q[i].timer = q[j].timer /\ q[i].timer \in AutoReload => i = j,
           m.timer \in AutoReload => \A i \in DOMAIN q : q[i].timer # m.timer,
           \A i \in DOMAIN q : q[i].id = "restart" => q[i].timer \in AutoReload
    PROVE  OneRestart(Range(q) \union {m})
<1>. SUFFICES ASSUME NEW x \in Range(q) \union {m}, NEW y \in Range(q) \union {m}, NEW t,
                     IsRestart(x, t), IsRestart(y, t)
              PROVE  x = y
  BY DEF OneRestart
<1>1. CASE x \in Range(q) /\ y \in Range(q)
  <2>1. PICK i \in DOMAIN q : q[i] = x
    BY <1>1 DEF Range
  <2>2. PICK j \in DOMAIN q : q[j] = y
    BY <1>1 DEF Range
  <2>. QED BY <2>1, <2>2 DEF IsRestart
<1>2. CASE x \in Range(q) /\ y = m
  <2>1. PICK i \in DOMAIN q : q[i] = x
    BY <1>2 DEF Range
  <2>. QED BY <1>2, <2>1 DEF IsRestart
<1>3. CASE x = m /\ y \in Range(q)
  <2>1. PICK i \in DOMAIN q : q[i] = y
    BY <1>3 DEF Range
  <2>. QED BY <1>3, <2>1 DEF IsRestart
<1>4. CASE x = m /\ y = m
  BY <1>4
<1>. QED BY <1>1, <1>2, <1>3, <1>4

\* No timer has two restarts, and only those that start again have one.
LEMMA RestartsAre ==
    ASSUME ReloadInv
    PROVE  /\ OneRestart(Messages)
           /\ \A m \in Messages : m.id = "restart" => m.timer \in AutoReload
<1>1. OneRestart(Messages)
  BY OneIn DEF ReloadInv, OneMessage, Messages
<1>2. \A m \in Messages : m.id = "restart" => m.timer \in AutoReload
  <2>1. \A m \in Range(xTimerQueue) : m.id = "restart" => m.timer \in AutoReload
    BY DEF ReloadInv, OneMessage, Range
  <2>. QED BY <2>1 DEF ReloadInv, OneMessage, Messages
<1>. QED BY <1>1, <1>2

LEMMA RestartsAreThen ==
    ASSUME ReloadInv'
    PROVE  /\ OneRestart(Messages')
           /\ \A m \in Messages' : m.id = "restart" => m.timer \in AutoReload
<1>1. OneRestart(Messages')
  BY OneIn DEF ReloadInv, OneMessage, Messages
<1>2. \A m \in Messages' : m.id = "restart" => m.timer \in AutoReload
  <2>1. \A m \in Range(xTimerQueue') : m.id = "restart" => m.timer \in AutoReload
    BY DEF ReloadInv, OneMessage, Range
  <2>. QED BY <2>1 DEF ReloadInv, OneMessage, Messages
<1>. QED BY <1>1, <1>2

\* A step that leaves a timer where it is does not change when it is due.
LEMMA SameDue ==
    ASSUME OneRestart(Messages), NEW t,
           t \in InLists <=> t \in InLists', t \in InLists => ListDue(t)' = ListDue(t),
           xTimerPeriodInTicks'[t] = xTimerPeriodInTicks[t],
           \A m : IsRestart(m, t) => (m \in Messages <=> m \in Messages')
    PROVE  Due(t)' = Due(t)
<1>1. CASE t \in InLists
  BY <1>1, DueInList
<1>2. CASE t \notin InLists /\ \A m \in Messages : ~IsRestart(m, t)
  BY <1>2, DueOff
<1>3. ASSUME t \notin InLists, NEW m \in Messages, IsRestart(m, t)
      PROVE  Due(t)' = Due(t)
  <2>1. m \in Messages' /\ t \notin InLists'
    BY <1>3
  <2>2. \A x \in Messages' : IsRestart(x, t) => x = m
    BY <1>3 DEF OneRestart
  <2>. DEFINE c == CHOOSE x \in Messages' : x.timer = t /\ x.id = "restart"
  <2>3. \E x \in Messages' : x.timer = t /\ x.id = "restart"
    BY <1>3, <2>1 DEF IsRestart
  <2>4. c = m
    <3>1. c \in Messages' /\ c.timer = t /\ c.id = "restart"
      BY <2>3
    <3>. HIDE DEF c
    <3>. QED BY <2>2, <3>1 DEF IsRestart
  <2>5. Due(t)' = xTimerPeriodInTicks'[t] - c.age
    <3>1. t \notin Range(pxCurrentTimerList') /\ t \notin Range(pxOverflowTimerList')
      BY <2>1 DEF InLists
    <3>. QED BY <2>3, <3>1 DEF Due
  <2>6. Due(t) = xTimerPeriodInTicks[t] - m.age
    BY <1>3, DueOfRestart
  <2>. HIDE DEF c
  <2>. QED BY <2>4, <2>5, <2>6
<1>. QED BY <1>1, <1>2, <1>3

\* What the messages are after a step.
LEMMA AppendRange ==
    ASSUME NEW q \in Seq(Command), NEW m \in Command
    PROVE  Range(Append(q, m)) = Range(q) \union {m}
<1>. DEFINE r == Append(q, m)
<1>1. /\ Len(q) \in Nat /\ DOMAIN q = 1 .. Len(q)
      /\ DOMAIN r = 1 .. Len(q) + 1
      /\ \A i \in DOMAIN q : r[i] = q[i]
      /\ r[Len(q) + 1] = m
  BY AppendIs
<1>. HIDE DEF r
<1>2. ASSUME NEW x \in Range(r) PROVE x \in Range(q) \union {m}
  <2>1. PICK i \in DOMAIN r : r[i] = x
    BY DEF Range
  <2>2. i \in DOMAIN q \/ i = Len(q) + 1
    BY <1>1
  <2>. QED BY <1>1, <2>1, <2>2 DEF Range
<1>3. ASSUME NEW x \in Range(q) PROVE x \in Range(r)
  <2>1. PICK i \in DOMAIN q : q[i] = x
    BY DEF Range
  <2>2. i \in DOMAIN r /\ r[i] = x
    BY <1>1, <2>1
  <2>. QED BY <2>2 DEF Range
<1>4. m \in Range(r)
  <2>1. Len(q) + 1 \in DOMAIN r
    BY <1>1
  <2>. QED BY <1>1, <2>1 DEF Range
<1>. QED BY <1>2, <1>3, <1>4 DEF r

LEMMA TailRange ==
    ASSUME NEW q \in Seq(Command), q # <<>>
    PROVE  Range(q) = Range(Tail(q)) \union {Head(q)}
<1>1. /\ Head(q) = q[1] /\ 1 \in DOMAIN q
      /\ Len(q) \in Nat \ {0} /\ DOMAIN q = 1 .. Len(q) /\ DOMAIN Tail(q) = 1 .. Len(q) - 1
      /\ \A i \in DOMAIN Tail(q) : Tail(q)[i] = q[i + 1] /\ i + 1 \in DOMAIN q
  BY FirstIs
<1>. DEFINE r == Tail(q)
<1>2. ASSUME NEW x \in Range(q) PROVE x \in Range(r) \union {Head(q)}
  <2>1. PICK i \in DOMAIN q : q[i] = x
    BY DEF Range
  <2>2. i = 1 \/ (i - 1 \in DOMAIN r /\ (i - 1) + 1 = i)
    BY <1>1
  <2>3. i - 1 \in DOMAIN r /\ (i - 1) + 1 = i => r[i - 1] = x
    BY <1>1, <2>1
  <2>. QED BY <1>1, <2>1, <2>2, <2>3 DEF Range
<1>3. ASSUME NEW x \in Range(r) PROVE x \in Range(q)
  <2>1. PICK i \in DOMAIN r : r[i] = x
    BY DEF Range
  <2>. QED BY <1>1, <2>1 DEF Range
<1>4. Head(q) \in Range(q)
  BY <1>1 DEF Range
<1>. QED BY <1>2, <1>3, <1>4
---------------------------------------------------------------------------
(* The steps of the program that TimerService does not see *)

LEMMA OtherStep ==
    ASSUME \A t \in Timer : Due(t)' = Due(t), UNCHANGED xTimerPeriodInTicks, called' = None,
           xMessage' = xMessage \/ (~OfApplication /\ ~OfApplication')
    PROVE  Service!Other
<1>1. [t \in Timer |-> Due(t)]' = [t \in Timer |-> Due(t)]
  OBVIOUS
<1>2. OfApplication' = OfApplication \/ (~OfApplication /\ ~OfApplication')
  BY DEF OfApplication
<1>. QED BY <1>1, <1>2 DEF Service!Other, OfApplication

\* The lists, the periods and the restarts are the same.
LEMMA QuietDue ==
    ASSUME ReloadInv, InLists' = InLists, \A t \in InLists : ListDue(t)' = ListDue(t),
           UNCHANGED xTimerPeriodInTicks,
           \A m : m.id = "restart" => (m \in Messages <=> m \in Messages')
    PROVE  \A t \in Timer : Due(t)' = Due(t)
<1>. SUFFICES ASSUME NEW t \in Timer PROVE Due(t)' = Due(t)
  OBVIOUS
<1>1. \A m : IsRestart(m, t) => (m \in Messages <=> m \in Messages')
  BY DEF IsRestart
<1>2. OneRestart(Messages)
  BY RestartsAre
<1>3. t \in InLists <=> t \in InLists'
  OBVIOUS
<1>4. t \in InLists => ListDue(t)' = ListDue(t)
  OBVIOUS
<1>5. xTimerPeriodInTicks'[t] = xTimerPeriodInTicks[t]
  OBVIOUS
<1>. QED BY <1>1, <1>2, <1>3, <1>4, <1>5, SameDue

LEMMA SendStep ==
    ASSUME TimeInv, ReloadInv, NEW m \in Command, m.id # "restart",
           xTimerQueue' = Append(xTimerQueue, m), called' = None,
           UNCHANGED <<xMessage, xTickCount, uxPendedTicks, xLastTime, listVars, timerVars>>
    PROVE  Service!Other
<1>1. /\ UNCHANGED <<pxCurrentTimerList, pxOverflowTimerList, xItemValue, xTimerPeriodInTicks>>
      /\ InLists' = InLists /\ Clock' = Clock
  BY DEF listVars, timerVars, InLists, Clock
<1>2. \A t \in InLists : ListDue(t)' = ListDue(t)
  BY <1>1 DEF ListDue
<1>3. Range(xTimerQueue') = Range(xTimerQueue) \union {m}
  BY AppendRange DEF TimeInv, TypeInv
<1>4. Messages' = Messages \union {m}
  BY <1>3 DEF Messages
<1>. QED BY <1>1, <1>2, <1>4, QuietDue, OtherStep

LEMMA CommandStep ==
    ASSUME TimeInv, ReloadInv, NEW t \in Timer,
           xTimerStart(t) \/ xTimerStop(t) \/ xTimerChangePeriod(t) \/ xTimerDelete(t)
    PROVE  Service!Other
<1>1. ASSUME NEW id \in {"start", "stop", "changePeriod", "delete"}, NEW value \in Tick, NEW age \in Nat,
             xTimerGenericCommand(t, id, value, age)
      PROVE  Service!Other
  <2>. DEFINE m == [id |-> id, timer |-> t, value |-> value, age |-> age]
  <2>1. m \in Command /\ m.id = id /\ m.timer = t
    BY <1>1 DEF Command
  <2>2. /\ xTimerQueue' = Append(xTimerQueue, m) /\ called' = None
        /\ UNCHANGED <<xMessage, xTickCount, uxPendedTicks, xLastTime, listVars, timerVars>>
    BY <1>1 DEF xTimerGenericCommand
  <2>. HIDE DEF m
  <2>. QED BY <1>1, <2>1, <2>2, SendStep
<1>2. MaxDelay \in Nat /\ 0 \in Tick /\ uxPendedTicks \in Nat /\ xTickCount \in Tick
      /\ MaxDelay <= TickMod - 1
  <2>1. MaxDelay <= TickMod - 1
    BY TimersAssumption
  <2>. QED BY <2>1, Numbers, TimersAssumption DEF TimeInv, Tick
<1>3. CASE xTimerStart(t)
  <2>1. PICK d \in 0 .. MaxDelay :
            xTimerGenericCommand(t, "start", Minus(xTickCount, d), uxPendedTicks + d)
    BY <1>3 DEF xTimerStart
  <2>2. d \in Tick /\ uxPendedTicks + d \in Nat
    BY <1>2, TimersAssumption DEF Tick
  <2>3. Minus(xTickCount, d) \in Tick
    BY <1>2, <2>2, MinusIs
  <2>. QED BY <1>1, <2>1, <2>2, <2>3
<1>4. CASE xTimerStop(t)
  BY <1>1, <1>2, <1>4 DEF xTimerStop
<1>5. CASE xTimerChangePeriod(t)
  <2>1. PICK p \in Periods : xTimerGenericCommand(t, "changePeriod", p, 0)
    BY <1>5 DEF xTimerChangePeriod
  <2>2. p \in Tick
    BY TimersAssumption DEF Tick
  <2>. QED BY <1>1, <2>1, <2>2
<1>6. CASE xTimerDelete(t)
  BY <1>1, <1>2, <1>6 DEF xTimerDelete
<1>. QED BY <1>3, <1>4, <1>5, <1>6

LEMMA PendStep ==
    ASSUME TimeInv, ReloadInv, xTimerPendFunctionCall
    PROVE  Service!Other
<1>. DEFINE m == [NoMessage EXCEPT !.id = "execute"]
<1>1. m \in Command /\ m.id = "execute"
  BY TimersAssumption DEF Command, NoMessage, Tick
<1>2. /\ xTimerQueue' = Append(xTimerQueue, m) /\ called' = None
      /\ UNCHANGED <<xMessage, xTickCount, uxPendedTicks, xLastTime, listVars, timerVars>>
  BY DEF xTimerPendFunctionCall
<1>. HIDE DEF m
<1>3. m.id # "restart"
  BY <1>1
<1>. QED BY <1>1, <1>2, <1>3, SendStep

\* The steps of the timer task that only look at the time, and the switch of the lists.
LEMMA QuietStep ==
    ASSUME TimeInv, ReloadInv,
           \/ prvGetNextExpireTime \/ prvProcessTimerOrBlockTask \/ SwitchDone
           \/ SampleForCommand \/ (Receive /\ xTimerQueue = <<>>)
    PROVE  Service!Other
<1>1. UNCHANGED <<xTimerPeriodInTicks, xTimerQueue, xMessage>> /\ called' = None
  <2>1. CASE prvGetNextExpireTime
    BY <2>1 DEF prvGetNextExpireTime, timerVars
  <2>2. CASE prvProcessTimerOrBlockTask
    BY <2>2 DEF prvProcessTimerOrBlockTask, timerVars
  <2>3. CASE SwitchDone
    BY <2>3 DEF SwitchDone, timerVars
  <2>4. CASE SampleForCommand
    BY <2>4 DEF SampleForCommand, timerVars
  <2>5. CASE Receive /\ xTimerQueue = <<>>
    BY <2>5 DEF Receive, timerVars
  <2>. QED BY <2>1, <2>2, <2>3, <2>4, <2>5
<1>2. Messages' = Messages
  BY <1>1 DEF Messages
<1>3. InLists' = InLists /\ \A t \in InLists : ListDue(t)' = ListDue(t)
  <2>1. CASE SwitchDone
    BY <2>1, SwitchDoneDue
  <2>2. CASE prvProcessTimerOrBlockTask \/ SampleForCommand
    <3>1. /\ uxPendedTicks = 0 /\ UNCHANGED <<xTickCount, uxPendedTicks, listVars>>
          /\ IF xTickCount < xLastTime THEN UNCHANGED xLastTime ELSE xLastTime' = xTickCount
      <4>1. pc \in {"process", "sample"}
        BY <2>2 DEF prvProcessTimerOrBlockTask, SampleForCommand
      <4>2. uxPendedTicks = 0 /\ UNCHANGED <<xTickCount, uxPendedTicks, listVars>>
        BY <2>2, <4>1 DEF prvProcessTimerOrBlockTask, SampleForCommand, timeVars, TimeInv, ClockInv
      <4>3. CASE xTickCount >= xLastTime /\ xLastTime' = xTickCount
        <5>1. ~(xTickCount < xLastTime)
          <6>1. xTickCount \in Int /\ xLastTime \in Int
            BY Numbers DEF TimeInv
          <6>. QED BY <4>3, <6>1
        <5>. QED BY <4>2, <4>3, <5>1
      <4>4. CASE SampleTimeNow("expired", "switchSuspended") \/ SampleTimeNow("handle", "switch")
        BY <4>2, <4>4 DEF SampleTimeNow
      <4>. QED BY <2>2, <4>3, <4>4 DEF prvProcessTimerOrBlockTask, SampleForCommand
    <3>. QED BY <3>1, SampleClock
  <2>3. CASE prvGetNextExpireTime \/ (Receive /\ xTimerQueue = <<>>)
    <3>1. UNCHANGED <<pxCurrentTimerList, pxOverflowTimerList, xItemValue, xTickCount,
                      uxPendedTicks, xLastTime>>
      BY <2>3 DEF prvGetNextExpireTime, Receive, timeVars, listVars
    <3>2. InLists' = InLists /\ Clock' = Clock
      BY <3>1 DEF InLists, Clock
    <3>. QED BY <3>1, <3>2 DEF ListDue
  <2>. QED BY <2>1, <2>2, <2>3
<1>4. \A m : m.id = "restart" => (m \in Messages <=> m \in Messages')
  BY <1>2
<1>5. \A t \in Timer : Due(t)' = Due(t)
  BY <1>1, <1>3, <1>4, QuietDue
<1>. QED BY <1>1, <1>5, OtherStep

LEMMA StutterStep ==
    ASSUME ReloadInv, UNCHANGED vars
    PROVE  UNCHANGED Service!vars
<1>1. UNCHANGED <<xTickCount, uxPendedTicks, pxCurrentTimerList, pxOverflowTimerList, xItemValue,
                  xTimerPeriodInTicks, xTimerQueue, xLastTime, xMessage, called>>
  BY DEF vars, taskVars, timeVars, listVars, timerVars
<1>2. Clock' = Clock /\ InLists' = InLists /\ Messages' = Messages
  BY <1>1 DEF Clock, InLists, Messages
<1>3. \A u \in InLists : ListDue(u)' = ListDue(u)
  BY <1>1, <1>2 DEF ListDue
<1>4. \A m : m.id = "restart" => (m \in Messages <=> m \in Messages')
  BY <1>2
<1>5. \A t \in Timer : Due(t)' = Due(t)
  BY <1>1, <1>2, <1>3, <1>4, QuietDue
<1>6. [t \in Timer |-> Due(t)]' = [t \in Timer |-> Due(t)]
  BY <1>5
<1>. QED BY <1>1, <1>6 DEF Service!vars, OfApplication

\* A new timer was not due.
LEMMA CreateStep ==
    ASSUME TimeInv, ReloadInv, NEW t \in Timer, xTimerCreate(t)
    PROVE  Service!Create(t)
<1>1. /\ UNCHANGED <<pxCurrentTimerList, pxOverflowTimerList, xItemValue, xTickCount, uxPendedTicks,
                     xLastTime, xTimerQueue, xMessage>>
      /\ called' = None /\ ~exists[t]
      /\ xTimerPeriodInTicks' = [xTimerPeriodInTicks EXCEPT ![t] = InitialPeriod[t]]
  BY DEF xTimerCreate, taskVars, timeVars, listVars
<1>2. Clock' = Clock /\ InLists' = InLists /\ Messages' = Messages
  BY <1>1 DEF Clock, InLists, Messages
<1>3. \A u \in InLists : ListDue(u)' = ListDue(u)
  BY <1>1, <1>2 DEF ListDue
<1>4. t \notin InLists
  BY <1>1 DEF ReloadInv, ExistInv
<1>5. ASSUME NEW m \in Messages PROVE m.timer # t
  <2>1. CASE m = xMessage
    BY <1>1, <2>1 DEF ReloadInv, ExistInv
  <2>2. CASE m \in Range(xTimerQueue)
    <3>1. PICK i \in DOMAIN xTimerQueue : xTimerQueue[i] = m
      BY <2>2 DEF Range
    <3>. QED BY <1>1, <3>1 DEF ReloadInv, ExistInv
  <2>. QED BY <2>1, <2>2 DEF Messages
<1>6. Due(t) = Off /\ Due(t)' = Off
  BY <1>2, <1>4, <1>5, DueOff DEF IsRestart
<1>7. ASSUME NEW u \in Timer, u # t PROVE Due(u)' = Due(u)
  <2>1. xTimerPeriodInTicks'[u] = xTimerPeriodInTicks[u]
    BY <1>1, <1>7 DEF TimeInv, TypeInv
  <2>2. \A m : IsRestart(m, u) => (m \in Messages <=> m \in Messages')
    BY <1>2
  <2>3. OneRestart(Messages)
    BY RestartsAre
  <2>4. u \in InLists <=> u \in InLists'
    BY <1>2
  <2>. QED BY <1>3, <2>1, <2>2, <2>3, <2>4, SameDue
<1>8. [u \in Timer |-> Due(u)]' = [u \in Timer |-> Due(u)]
  BY <1>6, <1>7
<1>9. /\ xTimerPeriodInTicks'[t] = InitialPeriod[t] /\ InitialPeriod[t] \in Nat \ {0}
      /\ xTimerPeriodInTicks' = [xTimerPeriodInTicks EXCEPT ![t] = xTimerPeriodInTicks'[t]]
  <2>1. InitialPeriod[t] \in Nat \ {0}
    BY TimersAssumption
  <2>2. xTimerPeriodInTicks'[t] = InitialPeriod[t]
    BY <1>1 DEF TimeInv, TypeInv
  <2>. QED BY <1>1, <2>1, <2>2
<1>10. [u \in Timer |-> Due(u)][t] = Off
  BY <1>6
<1>. QED BY <1>1, <1>8, <1>9, <1>10 DEF Service!Create, OfApplication
---------------------------------------------------------------------------
(* The steps that TimerService sees *)

\* A tick brings every timer that runs a tick nearer, wherever it is.
LEMMA TickStep ==
    ASSUME TimeInv, ReloadInv, ReloadInv', TickInterrupt
    PROVE  Service!Tick
<1>1. /\ UNCHANGED <<pxCurrentTimerList, pxOverflowTimerList, xItemValue, xTimerPeriodInTicks>>
      /\ xTimerQueue' = [i \in DOMAIN xTimerQueue |-> Older(xTimerQueue[i])]
      /\ xMessage' = IF xMessage = NoMessage THEN xMessage ELSE Older(xMessage)
      /\ called' = None
  BY DEF TickInterrupt, listVars, timerVars
<1>2. /\ InLists' = InLists
      /\ InLists # {} => Clock' = Clock + 1
  BY TickClock
<1>3. /\ DOMAIN xTimerQueue' = DOMAIN xTimerQueue
      /\ \A i \in DOMAIN xTimerQueue : /\ xTimerQueue[i] \in Command
                                       /\ xTimerQueue'[i] = Older(xTimerQueue[i])
  BY <1>1, OlderQueue DEF TimeInv, TypeInv
<1>4. xMessage \in Command \/ xMessage = NoMessage
  BY DEF TimeInv, TypeInv
<1>5. NoMessage.id = "none" /\ Off \notin Int
  BY TimersAssumption DEF NoMessage
<1>6. \A m \in Messages : m.id = "restart" => m \in Command /\ Older(m) \in Messages'
  <2>. SUFFICES ASSUME NEW m \in Messages, m.id = "restart"
                PROVE  m \in Command /\ Older(m) \in Messages'
    OBVIOUS
  <2>1. CASE m = xMessage
    <3>1. xMessage \in Command /\ xMessage # NoMessage
      BY <1>4, <1>5, <2>1
    <3>. QED BY <1>1, <2>1, <3>1 DEF Messages
  <2>2. CASE m \in Range(xTimerQueue)
    <3>1. PICK i \in DOMAIN xTimerQueue : xTimerQueue[i] = m
      BY <2>2 DEF Range
    <3>2. Older(m) \in Range(xTimerQueue')
      BY <1>3, <3>1 DEF Range
    <3>. QED BY <1>3, <3>1, <3>2 DEF Messages
  <2>. QED BY <2>1, <2>2 DEF Messages
<1>7. \A m \in Messages' : m.id = "restart" => \E o \in Messages : o \in Command /\ m = Older(o)
  <2>. SUFFICES ASSUME NEW m \in Messages', m.id = "restart"
                PROVE  \E o \in Messages : o \in Command /\ m = Older(o)
    OBVIOUS
  <2>1. CASE m = xMessage'
    <3>1. xMessage \in Command /\ xMessage # NoMessage
      BY <1>1, <1>4, <1>5, <2>1
    <3>. QED BY <1>1, <2>1, <3>1 DEF Messages
  <2>2. CASE m \in Range(xTimerQueue')
    <3>1. PICK i \in DOMAIN xTimerQueue' : xTimerQueue'[i] = m
      BY <2>2 DEF Range
    <3>2. xTimerQueue[i] \in Range(xTimerQueue)
      BY <1>3, <3>1 DEF Range
    <3>. QED BY <1>3, <3>1, <3>2 DEF Messages
  <2>. QED BY <2>1, <2>2 DEF Messages
<1>8. ASSUME NEW t \in Timer PROVE Due(t)' = IF Due(t) = Off THEN Off ELSE Due(t) - 1
  <2>1. CASE t \in InLists
    <3>1. Due(t) = ListDue(t) /\ Due(t)' = ListDue(t)' /\ ListDue(t) \in Int
      BY <1>2, <2>1, DueInList, DueIsInt DEF TimeInv
    <3>2. /\ xItemValue[t] \in Int /\ Clock \in Int /\ TickMod \in Int
          /\ Clock' = Clock + 1
      BY <1>2, <2>1, Numbers DEF TimeInv
    <3>3. ListDue(t)' = ListDue(t) - 1
      BY <1>1, <3>2 DEF ListDue
    <3>. QED BY <1>5, <3>1, <3>3
  <2>2. CASE t \notin InLists /\ \A m \in Messages : ~IsRestart(m, t)
    <3>1. \A m \in Messages' : ~IsRestart(m, t)
      <4>. SUFFICES ASSUME NEW m \in Messages', IsRestart(m, t) PROVE FALSE
        OBVIOUS
      <4>1. PICK o \in Messages : o \in Command /\ m = Older(o)
        BY <1>7 DEF IsRestart
      <4>2. IsRestart(o, t)
        BY <4>1, OlderIs DEF IsRestart
      <4>. QED BY <2>2, <4>2
    <3>. QED BY <1>2, <2>2, <3>1, DueOff
  <2>3. ASSUME t \notin InLists, NEW m \in Messages, IsRestart(m, t)
        PROVE  Due(t)' = IF Due(t) = Off THEN Off ELSE Due(t) - 1
    <3>1. m \in Command /\ Older(m) \in Messages'
      BY <1>6, <2>3 DEF IsRestart
    <3>2. IsRestart(Older(m), t) /\ Older(m).age = m.age + 1 /\ m.age \in Nat
      BY <2>3, <3>1, OlderIs DEF IsRestart
    <3>3. Due(t) = xTimerPeriodInTicks[t] - m.age
      BY <2>3, RestartsAre, DueOfRestart
    <3>4. Due(t)' = xTimerPeriodInTicks'[t] - Older(m).age
      <4>1. OneRestart(Messages') /\ t \notin InLists'
        BY <1>2, <2>3, RestartsAreThen
      <4>. DEFINE n == Older(m)
      <4>2. IsRestart(n, t) /\ n \in Messages'
        BY <3>1, <3>2
      <4>. HIDE DEF n
      <4>3. Due(t)' = xTimerPeriodInTicks'[t] - n.age
        BY <4>1, <4>2, DueOfRestartThen
      <4>. QED BY <4>3 DEF n
    <3>5. xTimerPeriodInTicks[t] \in Int
      BY Numbers DEF TimeInv
    <3>. QED BY <1>1, <1>5, <3>2, <3>3, <3>4, <3>5
  <2>. QED BY <2>1, <2>2, <2>3
<1>9. [t \in Timer |-> Due(t)]'
          = [t \in Timer |-> IF [u \in Timer |-> Due(u)][t] = Off THEN Off
                             ELSE [u \in Timer |-> Due(u)][t] - 1]
  BY <1>8
<1>10. /\ xMessage'.id = xMessage.id /\ xMessage'.timer = xMessage.timer
       /\ OfApplication => xMessage'.age = xMessage.age + 1 /\ xMessage.timer # None
  <2>1. CASE xMessage = NoMessage
    BY <1>1, <1>5, <2>1 DEF OfApplication
  <2>2. CASE xMessage # NoMessage
    <3>1. /\ Older(xMessage).id = xMessage.id /\ Older(xMessage).timer = xMessage.timer
          /\ Older(xMessage).age = xMessage.age + 1
      BY <1>4, <2>2, OlderIs
    <3>2. xMessage.timer \in Timer
      BY <2>2 DEF TimeInv, MessagesInv
    <3>. QED BY <1>1, <2>2, <3>1, <3>2, TimersAssumption
  <2>. QED BY <2>1, <2>2
<1>. QED BY <1>1, <1>9, <1>10 DEF Service!Tick, OfApplication

\* A timer that expires, and the others.
LEMMA DueExcept ==
    ASSUME NEW t \in Timer, NEW d, Due(t)' = d, \A u \in Timer \ {t} : Due(u)' = Due(u)
    PROVE  [u \in Timer |-> Due(u)]' = [[u \in Timer |-> Due(u)] EXCEPT ![t] = d]
OBVIOUS

\* The restart of a timer, sent with the time since it was due.
LEMMA RestartDue ==
    ASSUME TimeInv, ReloadInv', ~halted', NEW t \in Timer, NEW value \in Tick, NEW late \in Nat,
           Restart(t, value, late), t \notin InLists', UNCHANGED xTimerPeriodInTicks
    PROVE  /\ Due(t)' = xTimerPeriodInTicks[t] - late
           /\ \A m : m.id = "restart" /\ m.timer # t =>
                  (m \in Range(xTimerQueue) <=> m \in Range(xTimerQueue'))
<1>. DEFINE m == [id |-> "restart", timer |-> t, value |-> value, age |-> late]
<1>1. m \in Command /\ IsRestart(m, t) /\ m.age = late /\ m.timer = t
  BY DEF Command, IsRestart
<1>2. xTimerQueue' = Append(xTimerQueue, m)
  BY DEF Restart
<1>. HIDE DEF m
<1>3. Range(xTimerQueue') = Range(xTimerQueue) \union {m}
  BY <1>1, <1>2, AppendRange DEF TimeInv, TypeInv
<1>4. m \in Messages' /\ OneRestart(Messages')
  BY <1>3, RestartsAreThen DEF Messages
<1>5. Due(t)' = xTimerPeriodInTicks'[t] - m.age
  BY <1>1, <1>4, DueOfRestartThen
<1>. QED BY <1>1, <1>3, <1>5

\* The timer task calls a callback out of a list: either way of catching up is one expiry.
LEMMA ExpireStep ==
    ASSUME TimeInv, ReloadInv, ReloadInv', prvProcessExpiredTimer \/ prvSwitchTimerLists
    PROVE  \E t \in Timer : Service!Expire(t)
<1>1. PICK t : Expires(t)
  BY ExpiredIs, SwitchIs
<1>2. pc # "blocked"
  BY DEF prvProcessExpiredTimer, prvSwitchTimerLists
<1>3. /\ t \in Timer /\ t \in InLists /\ ListDue(t) <= 0 /\ called' = t
      /\ Clock' = Clock
      /\ UNCHANGED <<xTimerPeriodInTicks, xMessage>>
      /\ \A u \in InLists \ {t} : u \in InLists' /\ ListDue(u)' = ListDue(u)
      /\ InLists' \subseteq InLists
      /\ \/ /\ t \in AutoReload /\ t \in InLists' /\ NoRestart
            /\ ListDue(t)' = ListDue(t) + xTimerPeriodInTicks[t]
         \/ /\ t \in AutoReload /\ t \notin InLists'
            /\ \E e \in Tick : e - Clock = ListDue(t) /\ Restart(t, e, Clock - e)
         \/ t \notin AutoReload /\ t \notin InLists' /\ NoRestart
  BY <1>1, <1>2, ExpiresDue
<1>4. ListDue(t) \in Int /\ Due(t) = ListDue(t) /\ Off \notin Int
  BY <1>3, DueIsInt, DueInList, TimersAssumption DEF TimeInv
<1>. DEFINE d == IF t \in AutoReload THEN ListDue(t) + xTimerPeriodInTicks[t] ELSE Off
<1>5. /\ Due(t)' = d
      /\ \A m : m.id = "restart" /\ m.timer # t =>
             (m \in Range(xTimerQueue) <=> m \in Range(xTimerQueue'))
  <2>1. CASE t \in AutoReload /\ t \in InLists' /\ NoRestart
             /\ ListDue(t)' = ListDue(t) + xTimerPeriodInTicks[t]
    BY <2>1, DueInList DEF NoRestart
  <2>2. ASSUME t \in AutoReload, t \notin InLists', NEW e \in Tick,
               e - Clock = ListDue(t), Restart(t, e, Clock - e)
        PROVE  /\ Due(t)' = d
               /\ \A m : m.id = "restart" /\ m.timer # t =>
                      (m \in Range(xTimerQueue) <=> m \in Range(xTimerQueue'))
    <3>1. Clock \in Int /\ e \in Int /\ xTimerPeriodInTicks[t] \in Int
      BY <1>3, Numbers, TimersAssumption DEF TimeInv, Tick
    <3>2. Clock - e \in Nat
      BY <1>3, <1>4, <2>2, <3>1
    <3>3. ~halted'
      BY DEF ReloadInv, RoomInv
    <3>. DEFINE late == Clock - e
    <3>4. late \in Nat /\ Restart(t, e, late)
      BY <2>2, <3>2
    <3>. HIDE DEF late
    <3>5. /\ Due(t)' = xTimerPeriodInTicks[t] - late
          /\ \A m : m.id = "restart" /\ m.timer # t =>
                 (m \in Range(xTimerQueue) <=> m \in Range(xTimerQueue'))
      BY <1>3, <2>2, <3>3, <3>4, RestartDue
    <3>6. xTimerPeriodInTicks[t] - late = ListDue(t) + xTimerPeriodInTicks[t]
      BY <2>2, <3>1 DEF late
    <3>. QED BY <2>2, <3>5, <3>6
  <2>3. CASE t \notin AutoReload /\ t \notin InLists' /\ NoRestart
    <3>1. \A m \in Messages' : ~IsRestart(m, t)
      BY <2>3, RestartsAreThen DEF IsRestart
    <3>. QED BY <2>3, <3>1, DueOff DEF NoRestart
  <2>. QED BY <1>3, <2>1, <2>2, <2>3
<1>. HIDE DEF d
<1>6. ASSUME NEW u \in Timer \ {t} PROVE Due(u)' = Due(u)
  <2>1. \A m : IsRestart(m, u) => (m \in Messages <=> m \in Messages')
    BY <1>3, <1>5, <1>6 DEF IsRestart, Messages
  <2>2. u \in InLists <=> u \in InLists'
    BY <1>3, <1>6
  <2>3. OneRestart(Messages)
    BY RestartsAre
  <2>. QED BY <1>3, <1>6, <2>1, <2>2, <2>3, SameDue
<1>7. [u \in Timer |-> Due(u)]' = [[u \in Timer |-> Due(u)] EXCEPT ![t] = d]
  BY <1>3, <1>5, <1>6, DueExcept
<1>8. [u \in Timer |-> Due(u)][t] = ListDue(t)
  BY <1>3, <1>4
<1>9. d = Service!Next(t, [u \in Timer |-> Due(u)][t])
  BY <1>8 DEF Service!Next, d
<1>10. Service!Expire(t)
  <2>1. [u \in Timer |-> Due(u)][t] # Off /\ [u \in Timer |-> Due(u)][t] <= 0
    BY <1>3, <1>4, <1>8
  <2>2. /\ [u \in Timer |-> Due(u)]'
               = [[u \in Timer |-> Due(u)] EXCEPT
                      ![t] = Service!Next(t, [u \in Timer |-> Due(u)][t])]
        /\ called' = t /\ UNCHANGED <<xTimerPeriodInTicks, xMessage>>
    BY <1>3, <1>7, <1>9
  <2>. QED BY <2>1, <2>2 DEF Service!Expire, OfApplication
<1>. QED BY <1>3, <1>10

\* A command is taken up: one of the application takes its timer out, a restart does not.
LEMMA ReceiveStep ==
    ASSUME TimeInv, ReloadInv, ReloadInv', Receive, xTimerQueue # <<>>
    PROVE  Service!Other \/ \E t \in Timer : Service!TakeUp(t)
<1>0. PICK m : m = Head(xTimerQueue)
  OBVIOUS
<1>1. /\ pc = "receive" /\ xMessage = NoMessage /\ called' = None
      /\ xTimerQueue' = Tail(xTimerQueue)
      /\ TakeOut(m.timer)
      /\ IF m.id = "execute" THEN UNCHANGED xMessage ELSE xMessage' = m
      /\ UNCHANGED <<xTickCount, uxPendedTicks, xLastTime, xTimerPeriodInTicks>>
  BY <1>0 DEF Receive, timerVars, timeVars, TimeInv, MessagesInv
<1>2. /\ m \in Command /\ m = xTimerQueue[1] /\ 1 \in DOMAIN xTimerQueue
      /\ Range(xTimerQueue) = Range(xTimerQueue') \union {m}
  BY <1>0, <1>1, FirstIs, TailRange DEF TimeInv, TypeInv
<1>3. /\ InLists' = InLists \ {m.timer}
      /\ \A u \in InLists \ {m.timer} : ListDue(u)' = ListDue(u)
      /\ InLists \subseteq Timer
  <2>. PICK t : t = m.timer
    OBVIOUS
  <2>1. TakeOut(t) /\ UNCHANGED <<xTickCount, uxPendedTicks, xLastTime>>
    BY <1>1
  <2>2. InLists' = InLists \ {t} /\ \A u \in InLists \ {t} : ListDue(u)' = ListDue(u)
    BY <2>1, TakeOutIs
  <2>. QED BY <2>2, ListsFit DEF TimeInv
<1>4. /\ m.id = "execute" <=> m.timer = None
      /\ m.timer \in Timer \union {None} /\ m.age \in Nat
      /\ None \notin Timer /\ AutoReload \subseteq Timer
      /\ NoMessage.timer = None /\ NoMessage.id = "none"
  BY <1>2, TimersAssumption DEF TimeInv, MessagesInv, Timely, Command, NoMessage
<1>5. /\ Messages = Range(xTimerQueue') \union {m, NoMessage}
      /\ Messages' = Range(xTimerQueue') \union {xMessage'}
  BY <1>1, <1>2 DEF Messages
<1>6. OneRestart(Messages)
  BY RestartsAre
<1>7. CASE m.id = "execute" \/ m.id = "restart"
  <2>1. m.timer \notin InLists
    BY <1>2, <1>3, <1>4, <1>7 DEF ReloadInv, OneMessage
  <2>2. InLists' = InLists /\ \A t \in InLists : ListDue(t)' = ListDue(t)
    BY <1>3, <2>1
  <2>3. \A x : x.id = "restart" => (x \in Messages <=> x \in Messages')
    BY <1>1, <1>4, <1>5, <1>7
  <2>4. \A t \in Timer : Due(t)' = Due(t)
    BY <1>1, <2>2, <2>3, QuietDue
  <2>5. ~OfApplication /\ ~OfApplication'
    BY <1>1, <1>4, <1>7 DEF OfApplication
  <2>. QED BY <1>1, <2>4, <2>5, OtherStep
<1>8. CASE m.id \notin {"execute", "restart"}
  <2>. DEFINE t == m.timer
  <2>1. t \in Timer /\ xMessage' = m /\ m.id \notin {"none", "restart"}
    BY <1>1, <1>2, <1>4, <1>8 DEF Command
  <2>2. \A x \in Messages' : ~IsRestart(x, t)
    <3>. SUFFICES ASSUME NEW x \in Messages', IsRestart(x, t) PROVE FALSE
      OBVIOUS
    <3>1. x \in Range(xTimerQueue') /\ x # m
      BY <1>5, <1>8, <2>1 DEF IsRestart
    <3>2. PICK j \in DOMAIN xTimerQueue : xTimerQueue[j] = x
      BY <1>2, <3>1 DEF Range
    <3>3. t \in AutoReload
      BY <3>2 DEF IsRestart, ReloadInv, OneMessage
    <3>4. j = 1
      BY <1>2, <3>2, <3>3 DEF IsRestart, ReloadInv, OneMessage
    <3>. QED BY <1>2, <3>1, <3>2, <3>4
  <2>3. Due(t)' = Off
    BY <1>3, <2>2, DueOff
  <2>4. ASSUME NEW u \in Timer \ {t} PROVE Due(u)' = Due(u)
    <3>1. u \in InLists <=> u \in InLists'
      BY <1>3, <2>4
    <3>2. \A x : IsRestart(x, u) => (x \in Messages <=> x \in Messages')
      BY <1>4, <1>5, <1>8, <2>1, <2>4 DEF IsRestart
    <3>3. u \in InLists => ListDue(u)' = ListDue(u)
      BY <1>3, <2>4
    <3>. QED BY <1>1, <1>6, <3>1, <3>2, <3>3, SameDue
  <2>5. [u \in Timer |-> Due(u)]' = [[u \in Timer |-> Due(u)] EXCEPT ![t] = Off]
    <3>. HIDE DEF t
    <3>. QED BY <2>1, <2>3, <2>4, DueExcept
  <2>6. ~OfApplication /\ OfApplication'
    BY <1>1, <1>4, <2>1 DEF OfApplication
  <2>7. Service!TakeUp(t)
    BY <1>1, <1>4, <2>1, <2>5, <2>6 DEF Service!TakeUp
  <2>. QED BY <2>1, <2>7
<1>. QED BY <1>7, <1>8

\* The timer of the command in hand is put in a list; the others stay where they are.
LEMMA PlacedDue ==
    ASSUME TimeInv, ReloadInv, pc = "handle", NEW t, t = xMessage.timer,
           NEW next \in Tick, NEW where, Place(t, next, where, pxCurrentTimerList),
           UNCHANGED <<xTickCount, uxPendedTicks, xLastTime>>, xMessage' = NoMessage,
           \A u \in Timer \ {t} : xTimerPeriodInTicks'[u] = xTimerPeriodInTicks[u],
           \A m : m.id = "restart" /\ m.timer # t =>
                  (m \in Range(xTimerQueue) <=> m \in Range(xTimerQueue'))
    PROVE  /\ where = "current" => Due(t)' = next - Clock
           /\ where = "overflow" => Due(t)' = next + TickMod - Clock
           /\ where \notin {"current", "overflow"} => t \notin InLists'
           /\ \A u \in Timer \ {t} : Due(u)' = Due(u)
           /\ t \in Timer /\ t \notin InLists
<1>1. t \in Timer /\ t \notin Range(pxCurrentTimerList) /\ t \notin Range(pxOverflowTimerList)
  BY InHand
<1>2. /\ InLists' = Range(pxCurrentTimerList) \union Range(pxOverflowTimerList)
                        \union IF where \in {"current", "overflow"} THEN {t} ELSE {}
      /\ \A u \in Range(pxCurrentTimerList) \union Range(pxOverflowTimerList) :
             ListDue(u)' = ListDue(u)
      /\ where = "current" => ListDue(t)' = next - Clock
      /\ where = "overflow" => ListDue(t)' = next + TickMod - Clock
  BY <1>1, PlaceDue DEF TimeInv
<1>3. where \in {"current", "overflow"} => t \in InLists' /\ Due(t)' = ListDue(t)'
  <2>1. where \in {"current", "overflow"} => t \in InLists'
    BY <1>2
  <2>. QED BY <2>1, DueInList
<1>4. ASSUME NEW u \in Timer \ {t} PROVE Due(u)' = Due(u)
  <2>1. u \in InLists <=> u \in InLists'
    BY <1>2, <1>4 DEF InLists
  <2>2. \A m : IsRestart(m, u) => (m \in Messages <=> m \in Messages')
    <3>1. NoMessage.id = "none"
      BY DEF NoMessage
    <3>. QED BY <1>4, <3>1 DEF IsRestart, Messages
  <2>3. OneRestart(Messages)
    BY RestartsAre
  <2>4. u \in InLists => ListDue(u)' = ListDue(u)
    BY <1>2 DEF InLists
  <2>. QED BY <1>4, <2>1, <2>2, <2>3, <2>4, SameDue
<1>5. t \notin InLists /\ (where \notin {"current", "overflow"} => t \notin InLists')
  BY <1>1, <1>2 DEF InLists
<1>. QED BY <1>1, <1>2, <1>3, <1>4, <1>5

\* A timer is started, by a command or by the restart that the timer task sent itself.
LEMMA StartStep ==
    ASSUME TimeInv, ReloadInv, ReloadInv', Handle, HandleStart
    PROVE  Service!Other \/ \E t \in Timer : Service!Start(t) \/ Service!Expire(t)
<1>0. PICK t : t = xMessage.timer
  OBVIOUS
<1>. DEFINE age == xMessage.age
            period == xTimerPeriodInTicks[t]
<1>1. /\ pc = "handle" /\ pc' = "receive" /\ xMessage' = NoMessage
      /\ UNCHANGED <<xTickCount, uxPendedTicks, xLastTime, xTimerPeriodInTicks>>
  BY DEF Handle, HandleStart, timeVars
<1>2. PICK next \in Tick, where \in {"current", "overflow", "now"} :
               /\ Place(t, next, where, pxCurrentTimerList)
               /\ where = "current" => next - Clock = period - age
               /\ where = "overflow" => next + TickMod - Clock = period - age
               /\ where = "now" => age >= period
               /\ IF where = "now" /\ t \in AutoReload
                  THEN Restart(t, next, age - period) ELSE NoRestart
               /\ called' = IF where = "now" THEN t ELSE None
  BY <1>0, <1>1, StartIs
<1>3. t \in Timer /\ age \in Nat /\ period \in Nat /\ xMessage.id \in {"start", "restart"}
  BY <1>0, <1>1, InHand, Numbers DEF TimeInv, HandleStart
<1>4. /\ None \notin Timer /\ NoMessage.id = "none" /\ NoMessage.timer = None /\ Off \notin Int
      /\ ~halted'
  BY TimersAssumption DEF NoMessage, ReloadInv, RoomInv
<1>. HIDE DEF age, period
<1>. DEFINE d == period - age
            after == IF where # "now" THEN d ELSE IF t \in AutoReload THEN d + period ELSE Off
<1>5. /\ where = "now" /\ t \in AutoReload /\ t \notin InLists' => Due(t)' = d + period
      /\ \A m : m.id = "restart" /\ m.timer # t =>
             (m \in Range(xTimerQueue) <=> m \in Range(xTimerQueue'))
  <2>1. CASE where = "now" /\ t \in AutoReload
    <3>. DEFINE late == age - period
    <3>1. late \in Nat /\ Restart(t, next, late)
      BY <1>2, <1>3, <2>1
    <3>2. d + period = period - late
      BY <1>3
    <3>. HIDE DEF late
    <3>3. /\ t \notin InLists' => Due(t)' = period - late
          /\ t \notin InLists' =>
                 \A m : m.id = "restart" /\ m.timer # t =>
                     (m \in Range(xTimerQueue) <=> m \in Range(xTimerQueue'))
      BY <1>1, <1>3, <1>4, <3>1, RestartDue DEF period
    <3>4. t \notin InLists'
      <4>1. t \notin Range(pxCurrentTimerList) /\ t \notin Range(pxOverflowTimerList)
        BY <1>0, <1>1, InHand
      <4>2. InLists' = Range(pxCurrentTimerList) \union Range(pxOverflowTimerList)
                           \union IF where \in {"current", "overflow"} THEN {t} ELSE {}
        BY <1>1, <1>2, <1>3, <4>1, PlaceDue DEF TimeInv
      <4>. QED BY <2>1, <4>1, <4>2
    <3>. QED BY <3>2, <3>3, <3>4
  <2>2. CASE ~(where = "now" /\ t \in AutoReload)
    BY <1>2, <2>2 DEF NoRestart
  <2>. QED BY <2>1, <2>2
<1>6. /\ where = "current" => Due(t)' = next - Clock
      /\ where = "overflow" => Due(t)' = next + TickMod - Clock
      /\ where \notin {"current", "overflow"} => t \notin InLists'
      /\ \A u \in Timer \ {t} : Due(u)' = Due(u)
      /\ t \notin InLists
  BY <1>0, <1>1, <1>2, <1>5, PlacedDue
<1>7. Due(t)' = after
  <2>1. CASE where # "now"
    BY <1>2, <1>6, <2>1
  <2>2. CASE where = "now" /\ t \in AutoReload
    BY <1>5, <1>6, <2>2
  <2>3. CASE where = "now" /\ t \notin AutoReload
    <3>1. \A m \in Messages' : ~IsRestart(m, t)
      BY <2>3, RestartsAreThen DEF IsRestart
    <3>. QED BY <1>6, <2>3, <3>1, DueOff
  <2>. QED BY <2>1, <2>2, <2>3
<1>8. [u \in Timer |-> Due(u)]' = [[u \in Timer |-> Due(u)] EXCEPT ![t] = after]
  <2>. HIDE DEF after
  <2>. QED BY <1>3, <1>6, <1>7, DueExcept
<1>9. d \in Int /\ (where = "now" => d <= 0)
  <2>1. where = "now" => age >= period
    BY <1>2
  <2>. QED BY <1>3, <2>1
<1>10. called' = IF where = "now" THEN t ELSE None
  BY <1>2
<1>12. /\ where # "now" => after = d
       /\ where = "now" => after = IF t \in AutoReload THEN d + period ELSE Off
  <2>. HIDE DEF d
  <2>. QED OBVIOUS
<1>13. d = xTimerPeriodInTicks[t] - xMessage.age
  BY DEF age, period
<1>. HIDE DEF d, after
<1>14. ASSUME where = "now"
       PROVE  after = Service!Next(t, d)
  BY <1>12, <1>14 DEF Service!Next, period
<1>15. CASE xMessage.id = "start"
  <2>1. /\ (IF OfApplication THEN xMessage.timer ELSE None) = t
        /\ (IF OfApplication THEN xMessage.age ELSE 0) = xMessage.age
        /\ (IF OfApplication THEN xMessage.timer ELSE None)' = None
        /\ (IF OfApplication THEN xMessage.age ELSE 0)' = 0
    BY <1>0, <1>1, <1>4, <1>15 DEF OfApplication
  <2>2. \/ [u \in Timer |-> Due(u)]' = [[u \in Timer |-> Due(u)] EXCEPT ![t] = d]
           /\ called' = None
        \/ /\ d <= 0
           /\ [u \in Timer |-> Due(u)]'
                  = [[u \in Timer |-> Due(u)] EXCEPT ![t] = Service!Next(t, d)]
           /\ called' = t
    <3>1. CASE where # "now"
      <4>1. after = d /\ called' = None
        BY <1>10, <1>12, <3>1
      <4>. QED BY <1>8, <4>1
    <3>2. CASE where = "now"
      <4>1. after = Service!Next(t, d) /\ called' = t /\ d <= 0
        BY <1>9, <1>10, <1>14, <3>2
      <4>. QED BY <1>8, <4>1
    <3>. QED BY <3>1, <3>2
  <2>3. Service!Start(t)
    BY <1>1, <1>13, <2>1, <2>2 DEF Service!Start, Service!Done
  <2>. QED BY <1>3, <2>3
<1>16. CASE xMessage.id = "restart"
  <2>1. ~OfApplication /\ ~OfApplication'
    BY <1>1, <1>4, <1>16 DEF OfApplication
  <2>2. Due(t) = d
    <3>1. xMessage \in Messages /\ IsRestart(xMessage, t)
      BY <1>0, <1>16 DEF Messages, IsRestart
    <3>2. Due(t) = xTimerPeriodInTicks[t] - xMessage.age
      BY <1>6, <3>1, RestartsAre, DueOfRestart
    <3>. QED BY <1>13, <3>2
  <2>3. CASE where # "now"
    <3>1. \A u \in Timer : Due(u)' = Due(u)
      <4>1. Due(t)' = Due(t)
        BY <1>7, <1>12, <2>2, <2>3
      <4>. QED BY <1>6, <4>1
    <3>. QED BY <1>1, <1>10, <2>1, <2>3, <3>1, OtherStep
  <2>4. CASE where = "now"
    <3>1. [u \in Timer |-> Due(u)][t] = d
      BY <1>3, <2>2
    <3>2. after = Service!Next(t, [u \in Timer |-> Due(u)][t])
      BY <1>14, <2>4, <3>1
    <3>3. d # Off /\ d <= 0 /\ called' = t
      BY <1>4, <1>9, <1>10, <2>4
    <3>4. Service!Expire(t)
      BY <1>1, <1>8, <2>1, <3>1, <3>2, <3>3 DEF Service!Expire
    <3>. QED BY <1>3, <3>4
  <2>. QED BY <2>3, <2>4
<1>. QED BY <1>3, <1>15, <1>16

LEMMA ChangeStep ==
    ASSUME TimeInv, ReloadInv, ReloadInv', Handle, HandleChangePeriod
    PROVE  \E t \in Timer : Service!ChangePeriod(t)
<1>0. PICK t : t = xMessage.timer
  OBVIOUS
<1>1. /\ pc = "handle" /\ xMessage' = NoMessage /\ called' = None
      /\ xMessage.id = "changePeriod"
      /\ UNCHANGED <<xTickCount, uxPendedTicks, xLastTime, xTimerQueue>>
      /\ xTimerPeriodInTicks' = [xTimerPeriodInTicks EXCEPT ![t] = xMessage.value]
  BY <1>0 DEF Handle, HandleChangePeriod, NoRestart, timeVars
<1>2. PICK next \in Tick, where \in {"current", "overflow"}, n \in 0 .. xMessage.age :
               /\ Place(t, next, where, pxCurrentTimerList)
               /\ where = "current" => next - Clock = xMessage.value - n
               /\ where = "overflow" => next + TickMod - Clock = xMessage.value - n
  BY <1>0, <1>1, ChangeIs
<1>3. /\ t \in Timer /\ xMessage.value \in Nat \ {0}
      /\ NoMessage.id = "none"
  <2>1. xMessage.value \in Tick /\ xMessage.value # 0
    BY <1>1, InHand DEF Command
  <2>. QED BY <1>0, <1>1, <2>1, InHand, TimersAssumption DEF NoMessage, Tick
<1>4. /\ \A u \in Timer \ {t} : xTimerPeriodInTicks'[u] = xTimerPeriodInTicks[u]
      /\ xTimerPeriodInTicks'[t] = xMessage.value
  BY <1>1, <1>3 DEF TimeInv, TypeInv
<1>5. /\ where = "current" => Due(t)' = next - Clock
      /\ where = "overflow" => Due(t)' = next + TickMod - Clock
      /\ \A u \in Timer \ {t} : Due(u)' = Due(u)
  BY <1>0, <1>1, <1>2, <1>4, PlacedDue
<1>6. Due(t)' = xTimerPeriodInTicks'[t] - n
  BY <1>2, <1>4, <1>5
<1>7. [u \in Timer |-> Due(u)]'
          = [[u \in Timer |-> Due(u)] EXCEPT ![t] = xTimerPeriodInTicks'[t] - n]
  BY <1>3, <1>5, <1>6
<1>8. OfApplication /\ ~OfApplication'
  BY <1>1, <1>3 DEF OfApplication
<1>9. \E k \in 0 .. xMessage.age :
          [u \in Timer |-> Due(u)]'
              = [[u \in Timer |-> Due(u)] EXCEPT ![t] = xTimerPeriodInTicks'[t] - k]
  BY <1>7
<1>10. Service!ChangePeriod(t)
  BY <1>0, <1>1, <1>3, <1>4, <1>8, <1>9 DEF Service!ChangePeriod, Service!Done
<1>. QED BY <1>3, <1>10

LEMMA StopStep ==
    ASSUME TimeInv, ReloadInv, Handle, HandleStop \/ HandleDelete
    PROVE  \E t \in Timer : Service!Stop(t)
<1>0. PICK t : t = xMessage.timer
  OBVIOUS
<1>1. /\ pc = "handle" /\ xMessage' = NoMessage /\ called' = None
      /\ xMessage.id \in {"stop", "delete"}
      /\ UNCHANGED <<xTickCount, uxPendedTicks, xLastTime, xTimerQueue, xTimerPeriodInTicks,
                     pxCurrentTimerList, pxOverflowTimerList, xItemValue>>
  BY DEF Handle, HandleStop, HandleDelete, NoRestart, timeVars, listVars
<1>2. t \in Timer /\ NoMessage.id = "none"
  BY <1>0, <1>1, InHand DEF NoMessage
<1>3. InLists' = InLists /\ Clock' = Clock
  BY <1>1 DEF InLists, Clock
<1>4. \A u \in InLists : ListDue(u)' = ListDue(u)
  BY <1>1, <1>3 DEF ListDue
<1>5. \A m : m.id = "restart" => (m \in Messages <=> m \in Messages')
  BY <1>1, <1>2 DEF Messages
<1>6. \A u \in Timer : Due(u)' = Due(u)
  BY <1>1, <1>3, <1>4, <1>5, QuietDue
<1>7. [u \in Timer |-> Due(u)]' = [u \in Timer |-> Due(u)]
  BY <1>6
<1>8. OfApplication /\ ~OfApplication'
  BY <1>1, <1>2 DEF OfApplication
<1>9. Service!Stop(t)
  BY <1>0, <1>1, <1>7, <1>8 DEF Service!Stop, Service!Done
<1>. QED BY <1>2, <1>9

LEMMA NextStep ==
    ASSUME TimeInv, ReloadInv, ReloadInv', [Next]_vars
    PROVE  [Service!ServiceNext]_Service!vars
<1>1. CASE TickInterrupt
  BY <1>1, TickStep DEF Service!ServiceNext
<1>2. CASE TimerTask
  <2>1. Receive => Service!ServiceNext
    BY QuietStep, ReceiveStep DEF Service!ServiceNext
  <2>2. Handle => Service!ServiceNext
    BY StartStep, ChangeStep, StopStep DEF Handle, Service!ServiceNext
  <2>3. prvProcessExpiredTimer \/ prvSwitchTimerLists => Service!ServiceNext
    BY ExpireStep DEF Service!ServiceNext
  <2>4. (\/ prvGetNextExpireTime \/ prvProcessTimerOrBlockTask \/ SwitchDone
         \/ SampleForCommand) => Service!ServiceNext
    BY QuietStep DEF Service!ServiceNext
  <2>. QED BY <1>2, <2>1, <2>2, <2>3, <2>4 DEF TimerTask
<1>3. CASE Application
  <2>1. CASE xTimerPendFunctionCall
    BY <2>1, PendStep DEF Service!ServiceNext
  <2>2. ASSUME NEW t \in Timer,
               \/ xTimerStart(t) \/ xTimerStop(t) \/ xTimerChangePeriod(t) \/ xTimerDelete(t)
               \/ xTimerCreate(t)
        PROVE  Service!ServiceNext
    BY <2>2, CommandStep, CreateStep DEF Service!ServiceNext
  <2>. QED BY <1>3, <2>1, <2>2 DEF Application
<1>4. CASE UNCHANGED vars
  BY <1>4, StutterStep
<1>. QED BY <1>1, <1>2, <1>3, <1>4 DEF Next

LEMMA InitStep ==
    ASSUME Init
    PROVE  Service!ServiceInit
<1>1. InLists = {}
  BY RangeIn DEF Init, InLists, Range
<1>2. xMessage.id = "none" /\ called = None
  BY DEF Init, NoMessage
<1>3. \A m \in Messages : m.id # "restart"
  BY <1>2 DEF Init, Messages, Range
<1>4. \A t \in Timer : Due(t) = Off
  BY <1>1, <1>3, DueOff DEF IsRestart
<1>5. [t \in Timer |-> Due(t)] = [t \in Timer |-> Off]
  BY <1>4
<1>. QED BY <1>2, <1>5 DEF Service!ServiceInit, OfApplication

(***************************************************************************)
(* Each step of the two lists and the queue is a step of the timers that   *)
(* TimerService promises, or none of theirs: every callback comes when its *)
(* timer is due and once for each period, through any number of wraps and  *)
(* whichever way the timer task catches up.                                *)
(***************************************************************************)
THEOREM TimersImplementService ==
    ASSUME RoomForRestarts
    PROVE  Spec => ImplementsTimerService
<1>1. Init => Service!ServiceInit
  BY InitStep
<1>2. TimeInv /\ ReloadInv /\ (TimeInv /\ ReloadInv)' /\ [Next]_vars
          => [Service!ServiceNext]_Service!vars
  BY NextStep
<1>3. Spec => [](TimeInv /\ ReloadInv)
  BY ReloadKept
<1>. QED BY <1>1, <1>2, <1>3, PTL DEF Spec, ImplementsTimerService, Service!ServiceSpec
===========================================================================
