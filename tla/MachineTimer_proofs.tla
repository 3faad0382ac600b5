------------------------ MODULE MachineTimer_proofs ------------------------
(***************************************************************************)
(* What a read of the timer returns and what the tick counts, for every    *)
(* width of a word and every period.                                       *)
(***************************************************************************)
EXTENDS MachineTimer, TLAPS

USE TimerAssumption

\* The words of a time make the time, and the high word follows the time.
LEMMA Words ==
    ASSUME NEW t \in Nat
    PROVE  Hi(t) \in Nat /\ Lo(t) \in 0 .. WORD - 1 /\ Joined(Hi(t), Lo(t)) = t
BY Z3 DEF Hi, Lo, Joined

LEMMA HighWordGrows ==
    ASSUME NEW s \in Nat, NEW t \in Nat, s <= t
    PROVE  Hi(s) <= Hi(t)
<1> DEFINE p == Hi(s)
           q == Hi(t)
<1>1. /\ p \in Nat /\ q \in Nat /\ Lo(s) \in 0 .. WORD - 1 /\ Lo(t) \in 0 .. WORD - 1
      /\ p * WORD + Lo(s) = s /\ q * WORD + Lo(t) = t
    BY Words DEF Joined
<1> HIDE DEF p, q
<1>2. SUFFICES ASSUME q + 1 <= p PROVE FALSE
    BY <1>1 DEF p, q
<1>3. (q + 1) * WORD <= p * WORD
    BY <1>1, <1>2, Z3
<1>4. (q + 1) * WORD = q * WORD + WORD
    BY <1>1, Z3
<1> QED BY <1>1, <1>3, <1>4

\* The quotient is the only multiple that fits.
LEMMA Quotient ==
    ASSUME NEW d \in Nat, NEW k \in Nat, k * PERIOD <= d, d < (k + 1) * PERIOD
    PROVE  d \div PERIOD = k
BY Z3
---------------------------------------------------------------------------
LEMMA InitTypes == Init => TimerTypeOK
BY DEF Init, TimerTypeOK

\* Joined words are a time.
LEMMA JoinedType ==
    ASSUME NEW h \in Nat, NEW l \in Nat
    PROVE  Joined(h, l) \in Nat
BY Z3 DEF Joined

LEMMA GotType ==
    ASSUME TimerTypeOK, NEW low
    PROVE  Got(low) \in Nat
<1>1. Hi(mtime) \in Nat /\ Lo(mtime) \in Nat /\ loaded \in Nat
    BY Words DEF TimerTypeOK
<1>2. Joined(Hi(mtime), loaded) \in Nat /\ Joined(loaded, Lo(mtime)) \in Nat
    BY <1>1, JoinedType
<1> QED BY <1>2 DEF Got

LEMMA NextTypes == TimerTypeOK /\ [Next]_vars => TimerTypeOK'
<1> SUFFICES ASSUME TimerTypeOK, [Next]_vars PROVE TimerTypeOK'
    OBVIOUS
<1> USE DEF TimerTypeOK
<1>1. /\ Hi(mtime) \in Nat /\ Lo(mtime) \in 0 .. WORD - 1 /\ Joined(hi, lo) \in Nat
      /\ Got("setupLow") \in Nat /\ Got("firstLow") \in Nat
    <2>1. mtime \in Nat /\ hi \in Nat /\ lo \in Nat
        OBVIOUS
    <2>2. Hi(mtime) \in Nat /\ Lo(mtime) \in 0 .. WORD - 1
        BY <2>1, Words
    <2>3. Joined(hi, lo) \in Nat
        BY <2>1, JoinedType
    <2>4. Got("setupLow") \in Nat /\ Got("firstLow") \in Nat
        BY GotType
    <2> QED BY <2>2, <2>3, <2>4
<1>2. CASE Advance
    BY <1>2 DEF Advance, portVars, readerVars
<1>3. CASE SetupLoad
    BY <1>1, <1>3 DEF SetupLoad, LoadFirst, readerVars
<1>4. CASE vPortSetupTimer
    BY <1>1, <1>4 DEF vPortSetupTimer, readerVars
<1>5. CASE HandlerEntry
    BY <1>5 DEF HandlerEntry, readerVars
<1>6. CASE FirstLoad
    BY <1>1, <1>6 DEF FirstLoad, LoadFirst, readerVars
<1>7. CASE FirstTick
    BY <1>1, <1>7 DEF FirstTick, Rearm, readerVars
<1>8. CASE NextTick
    BY <1>8 DEF NextTick, Rearm, readerVars
<1>9. CASE ReadHi
    BY <1>1, <1>9 DEF ReadHi, ReaderAt, portVars
<1>10. CASE ReadLo
    BY <1>1, <1>10 DEF ReadLo, ReaderAt, portVars
<1>11. CASE CheckHi
    BY <1>1, <1>11 DEF CheckHi, ReaderAt, portVars
<1>12. CASE Return
    BY <1>12 DEF Return, ReaderAt, portVars
<1>13. CASE UNCHANGED vars
    BY <1>13 DEF vars, portVars, readerVars
<1> QED BY <1>2, <1>3, <1>4, <1>5, <1>6, <1>7, <1>8, <1>9, <1>10, <1>11, <1>12, <1>13 DEF Next
---------------------------------------------------------------------------
(***************************************************************************)
(* The reader: the low word belongs to a time t of the call, and the high  *)
(* word was not read after t.  When the high word of now is the same, it   *)
(* is that of t too.                                                       *)
(***************************************************************************)
ReaderInv ==
    /\ reader \in {"low", "check", "again"} => called <= mtime
    /\ reader \in {"low", "check"} => hi <= Hi(mtime)
    /\ reader = "check" => \E t \in called .. mtime : lo = Lo(t) /\ hi <= Hi(t)
    /\ ReadDuringTheCall

LEMMA NextReader == TimerTypeOK /\ ReaderInv /\ [Next]_vars => ReaderInv'
<1> SUFFICES ASSUME TimerTypeOK, ReaderInv, [Next]_vars PROVE ReaderInv'
    OBVIOUS
<1>1. CASE Advance
    <2>1. mtime \in Nat /\ mtime' = mtime + 1 /\ UNCHANGED readerVars
        BY <1>1 DEF Advance, TimerTypeOK
    <2>2. Hi(mtime) <= Hi(mtime') /\ Hi(mtime) \in Nat /\ Hi(mtime') \in Nat
        BY <2>1, HighWordGrows, Words
    <2>3. reader = "check" => \E t \in called .. mtime' : lo = Lo(t) /\ hi <= Hi(t)
        BY <2>1 DEF ReaderInv, TimerTypeOK
    <2> QED BY <2>1, <2>2, <2>3 DEF ReaderInv, ReadDuringTheCall, readerVars, TimerTypeOK
<1>2. CASE SetupLoad \/ vPortSetupTimer \/ HandlerEntry \/ FirstLoad \/ FirstTick \/ NextTick
    BY <1>2 DEF SetupLoad, vPortSetupTimer, HandlerEntry, FirstLoad, FirstTick, NextTick, Rearm,
                readerVars, ReaderInv, ReadDuringTheCall
<1>3. CASE ReadHi
    <2>1. Hi(mtime) \in Nat
        BY Words DEF TimerTypeOK
    <2> QED BY <1>3, <2>1 DEF ReadHi, ReaderAt, ReaderInv, ReadDuringTheCall, TimerTypeOK
<1>4. CASE ReadLo
    <2>1. mtime' = mtime /\ called' = called /\ hi' = hi /\ lo' = Lo(mtime) /\ reader' = "check"
        BY <1>4 DEF ReadLo, ReaderAt
    <2>2. called <= mtime /\ hi <= Hi(mtime)
        BY <1>4 DEF ReadLo, ReaderAt, ReaderInv
    <2>3. mtime \in called .. mtime
        BY <2>2 DEF TimerTypeOK
    <2> QED BY <2>1, <2>2, <2>3 DEF ReaderInv, ReadDuringTheCall
<1>5. CASE CheckHi
    <2>1. called' = called /\ mtime' = mtime /\ called <= mtime
        BY <1>5 DEF CheckHi, ReaderAt, ReaderInv
    <2>2. CASE hi = Hi(mtime)
        <3>1. PICK t \in called .. mtime : lo = Lo(t) /\ hi <= Hi(t)
            BY <1>5 DEF CheckHi, ReaderAt, ReaderInv
        <3>2. t \in Nat /\ t <= mtime /\ called <= t
            BY DEF TimerTypeOK
        <3>3. Hi(t) <= Hi(mtime) /\ Hi(t) \in Nat /\ Hi(mtime) \in Nat /\ Joined(Hi(t), Lo(t)) = t
            BY <3>2, HighWordGrows, Words DEF TimerTypeOK
        <3>4. hi = Hi(t)
            BY <2>2, <3>1, <3>3
        <3>5. value' = t /\ reader' = "returned"
            BY <1>5, <2>2, <3>1, <3>3, <3>4 DEF CheckHi
        <3> QED BY <2>1, <3>2, <3>5 DEF ReaderInv, ReadDuringTheCall
    <2>3. CASE hi # Hi(mtime)
        BY <1>5, <2>1, <2>3 DEF CheckHi, ReaderInv, ReadDuringTheCall
    <2> QED BY <2>2, <2>3
<1>6. CASE Return
    BY <1>6 DEF Return, ReaderInv, ReadDuringTheCall
<1>7. CASE UNCHANGED vars
    BY <1>7 DEF vars, readerVars, ReaderInv, ReadDuringTheCall
<1> QED BY <1>1, <1>2, <1>3, <1>4, <1>5, <1>6, <1>7 DEF Next

(***************************************************************************)
(* However the timer overflows and the reader is preempted, the value that *)
(* get_timer_value returns is a time between the call and the return.      *)
(***************************************************************************)
THEOREM ReadCorrect == Spec => []ReadDuringTheCall
<1>1. Init => ReaderInv
    BY DEF Init, ReaderInv, ReadDuringTheCall
<1>2. ReaderInv => ReadDuringTheCall
    BY DEF ReaderInv
<1> QED BY <1>1, <1>2, InitTypes, NextTypes, NextReader, PTL DEF Spec
---------------------------------------------------------------------------
(***************************************************************************)
(* The tick: the comparator stands a whole number of periods after the     *)
(* first tick, and was moved there when the one before it was over.        *)
(***************************************************************************)
TickInv ==
    /\ port \in {"setup", "setupLow", "setupHigh"} => ticks = 0 /\ then = 0
    /\ port \in {"first", "firstLow", "firstHigh"} => ticks = 0
    /\ then = 0 <=> ticks = 0
    /\ ticks > 0 => /\ mtimecmp = then
                    /\ then = based + ticks * PERIOD
    /\ ticks > 1 => then <= mtime + PERIOD
    /\ port = "next" => ticks > 0 /\ mtimecmp <= mtime

LEMMA NextTicks == TimerTypeOK /\ TickInv /\ [Next]_vars => TickInv'
<1> SUFFICES ASSUME TimerTypeOK, TickInv, [Next]_vars PROVE TickInv'
    OBVIOUS
<1> USE DEF TimerTypeOK
<1> DEFINE k == ticks * PERIOD
<1>a. k \in Nat /\ (ticks + 1) * PERIOD = k + PERIOD
    BY Z3
<1>1. CASE Advance
    BY <1>1 DEF Advance, portVars, TickInv
<1>2. CASE SetupLoad
    BY <1>2 DEF SetupLoad, LoadFirst, TickInv
<1>3. CASE vPortSetupTimer
    BY <1>3 DEF vPortSetupTimer, TickInv
<1>4. CASE HandlerEntry
    BY <1>4 DEF HandlerEntry, TickInv
<1>5. CASE FirstLoad
    BY <1>5 DEF FirstLoad, LoadFirst, TickInv
<1>6. CASE FirstTick
    <2>1. ticks' = 1 /\ mtimecmp' = then' /\ port' = "idle"
        BY <1>6 DEF FirstTick, Rearm, TickInv
    <2>2. based' \in Nat /\ then' = based' + PERIOD
        BY <1>6, GotType DEF FirstTick, Rearm
    <2>3. then' # 0
        <3>1. PERIOD \in Nat /\ PERIOD > 0
            OBVIOUS
        <3>2. \A b \in Nat : b + PERIOD # 0
            BY <3>1
        <3> QED BY <2>2, <3>2
    <2>4. then' = based' + ticks' * PERIOD
        BY <2>1, <2>2
    <2>5. /\ port' \notin {"setup", "setupLow", "setupHigh"}
          /\ port' \notin {"first", "firstLow", "firstHigh"} /\ port' # "next"
          /\ ticks' # 0 /\ ~(ticks' > 1)
        BY <2>1
    <2> QED BY <2>1, <2>3, <2>4, <2>5, Zenon DEF TickInv
<1>7. CASE NextTick
    <2>1. /\ ticks' = ticks + 1 /\ then' = then + PERIOD /\ mtimecmp' = then' /\ port' = "idle"
          /\ mtime' = mtime /\ based' = based /\ ticks > 0 /\ then <= mtime
          /\ then = based + k
        BY <1>7 DEF NextTick, Rearm, TickInv
    <2>2. then' = based + ticks' * PERIOD
        BY <1>a, <2>1
    <2>3. (then' = 0 <=> ticks' = 0) /\ then' <= mtime' + PERIOD
        BY <2>1
    <2>4. ticks' > 0 => mtimecmp' = then' /\ then' = based' + ticks' * PERIOD
        BY <2>1, <2>2, Zenon
    <2>5. /\ port' \notin {"setup", "setupLow", "setupHigh"}
          /\ port' \notin {"first", "firstLow", "firstHigh"} /\ port' # "next"
        BY <2>1
    <2> QED BY <2>3, <2>4, <2>5, Zenon DEF TickInv
<1>8. CASE ReadHi \/ ReadLo \/ CheckHi \/ Return
    BY <1>8 DEF ReadHi, ReadLo, CheckHi, Return, ReaderAt, portVars, TickInv
<1>9. CASE UNCHANGED vars
    BY <1>9 DEF vars, portVars, TickInv
<1> QED BY <1>1, <1>2, <1>3, <1>4, <1>5, <1>6, <1>7, <1>8, <1>9 DEF Next

(***************************************************************************)
(* However late its interrupt is served, the port counts as many ticks as  *)
(* periods have gone by.                                                   *)
(***************************************************************************)
THEOREM TicksCorrect == Spec => []TicksCountPeriods
<1>1. Init => TickInv
    BY DEF Init, TickInv
<1>2. TimerTypeOK /\ TickInv => TicksCountPeriods
    <2> SUFFICES ASSUME TimerTypeOK, TickInv, port = "idle", ticks > 0,
                        mtime < mtimecmp, based <= mtime
                 PROVE  ticks = 1 + (mtime - based) \div PERIOD
        BY DEF TicksCountPeriods
    <2> DEFINE d == mtime - based
               k == ticks - 1
    <2>1. d \in Nat /\ k \in Nat
        BY DEF TimerTypeOK
    <2>2. k * PERIOD <= d /\ d < ticks * PERIOD
        <3>1. k * PERIOD \in Int /\ ticks * PERIOD = k * PERIOD + PERIOD
            BY Z3 DEF TimerTypeOK
        <3>2. mtime < based + ticks * PERIOD
            BY DEF TickInv
        <3>3. CASE ticks = 1
            BY <3>1, <3>2, <3>3 DEF TimerTypeOK
        <3>4. CASE ticks > 1
            BY <3>1, <3>2, <3>4 DEF TimerTypeOK, TickInv
        <3> QED BY <3>2, <3>3, <3>4 DEF TimerTypeOK
    <2>3. ticks = k + 1
        BY DEF TimerTypeOK
    <2>4. d \div PERIOD = k
        BY <2>1, <2>2, <2>3, Quotient
    <2> QED BY <2>1, <2>3, <2>4
<1> QED BY <1>1, <1>2, InitTypes, NextTypes, NextTicks, PTL DEF Spec
===========================================================================
