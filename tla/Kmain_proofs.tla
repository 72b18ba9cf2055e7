--------------------------- MODULE Kmain_proofs ----------------------------
(***************************************************************************)
(* Proofs about kmain's course.  The delays, for every width of the count, *)
(* every frequency and every argument: the invariant carries the number of *)
(* ticks the delay is to last, which the code has only as eticks.  The     *)
(* clock, from any moment of a century: two readings that agree are one    *)
(* moment's.  The disk, for every size of a sector and every patience: the *)
(* place of each operation in the script, and what is found at each place. *)
(* The switching of tasks, for every number of them, every size of their   *)
(* stacks that has room for switchTask and an interrupt, and an interrupt  *)
(* after every instruction: the invariant says what each instruction of    *)
(* switchTask finds in the registers, on the stacks and in the             *)
(* TaskRegisters.                                                          *)
(***************************************************************************)
EXTENDS Kmain, TLAPS

\* n ticks are due: they have been counted, or the count says how many have,
\* as it has not wrapped since the delay began.
Lasts(n) ==
    /\ asked < (n + 1) * Second
    /\ \/ elapsed >= n
       \/ delay = "test" /\ n <= eticks /\ ticks = (eticks - n) + elapsed

ClockInv ==
    /\ ticks \in 0 .. Wrap - 1 /\ eticks \in 0 .. Wrap - 1 /\ asked \in Nat /\ elapsed \in Nat
    /\ delay \in {"idle", "test", "done"} /\ crossing \in BOOLEAN
    /\ phase \in {"disk", "rtc"} => delay = "idle"
    /\ delay # "idle" /\ ~crossing => \E n \in 0 .. Wrap - 1 : Lasts(n)

-----------------------------------------------------------------------------
(* Arithmetic.                                                             *)

LEMMA Division ==
    \A a \in Nat, s \in Nat \ {0} : a \div s \in Nat /\ a < ((a \div s) + 1) * s
  OBVIOUS

LEMMA Small == \A a \in Nat, w \in Nat \ {0} : a % w \in 0 .. w - 1 /\ (a < w => a % w = a)
  OBVIOUS

LEMMA Product == \A a, b \in Nat : a * b \in Nat
  OBVIOUS

LEMMA Less == \A n, m, s \in Nat : n <= m => n * s <= m * s
  OBVIOUS

-----------------------------------------------------------------------------
(* The start of a delay.                                                   *)

\* The count is read once and n, which does not wrap, added to it.
LEMMA BeginLasts ==
    ASSUME ClockInv, NEW n \in Nat, NEW span \in Nat, Begin(n, span),
           ticks + n < Wrap, span < (n + 1) * Second
    PROVE  n \in 0 .. Wrap - 1 /\ Lasts(n)'
  <1>1. Wrap \in Nat \ {0}
    BY ClockAssumption
  <1>2. ticks + n \in Nat /\ n \in 0 .. Wrap - 1
    BY <1>1 DEF ClockInv
  <1>3. eticks' = ticks + n
    BY <1>1, <1>2, Small DEF Begin
  <1>4. asked' = span /\ elapsed' = 0 /\ ticks' = ticks /\ delay' = "test"
    BY DEF Begin
  <1>5. n <= eticks' /\ ticks' = (eticks' - n) + elapsed'
    BY <1>2, <1>3, <1>4 DEF ClockInv
  <1> QED BY <1>2, <1>4, <1>5 DEF Lasts

LEMMA BeginStep ==
    ASSUME ClockInv, NEW n \in Nat, NEW span \in Nat, Begin(n, span), phase' = "delay",
           crossing' \in BOOLEAN, ~crossing' => ticks + n < Wrap /\ span < (n + 1) * Second
    PROVE  ClockInv'
  <1>1. Wrap \in Nat \ {0}
    BY ClockAssumption
  <1>2. /\ eticks' = (ticks + n) % Wrap /\ asked' = span /\ elapsed' = 0
        /\ ticks' = ticks /\ delay' = "test"
    BY DEF Begin
  <1>3. eticks' \in 0 .. Wrap - 1
    <2>1. ticks + n \in Nat
      BY <1>1 DEF ClockInv
    <2> QED BY <1>1, <1>2, <2>1, Small
  <1>4. ~crossing' => \E m \in 0 .. Wrap - 1 : Lasts(m)'
    BY BeginLasts
  <1> QED BY <1>2, <1>3, <1>4 DEF ClockInv, Lasts

-----------------------------------------------------------------------------
(* The steps.                                                              *)

LEMMA DelayStep ==
    ASSUME ClockInv, Delay
    PROVE  ClockInv'
  <1>1. Wrap \in Nat \ {0} /\ hz \in Nat \ {0} /\ Second \in Nat \ {0}
    BY ClockAssumption
  <1>2. ASSUME At("delay", "delay"), NEW d \in Delays, delay_ms(d)
        PROVE  ClockInv'
    <2> DEFINE a == d * hz
    <2>1. a \in Nat
      BY <1>1, ClockAssumption, Product
    <2>2. /\ Begin((a % Wrap) \div Second, a)
          /\ crossing' = (a >= Wrap \/ ticks + (a \div Second) >= Wrap)
      BY <1>2 DEF delay_ms, TicksFromMs
    <2> HIDE DEF a
    <2>3. a % Wrap \in Nat /\ (a < Wrap => a % Wrap = a)
      BY <1>1, <2>1, Small
    <2>4. (a % Wrap) \div Second \in Nat
      BY <1>1, <2>3, Division
    <2>5. a < ((a \div Second) + 1) * Second
      BY <1>1, <2>1, Division
    <2>6. ~crossing' => /\ ticks + ((a % Wrap) \div Second) < Wrap
                        /\ a < (((a % Wrap) \div Second) + 1) * Second
      <3>1. SUFFICES ASSUME ~crossing'
                     PROVE  /\ ticks + ((a % Wrap) \div Second) < Wrap
                            /\ a < (((a % Wrap) \div Second) + 1) * Second
        OBVIOUS
      <3>2. ~(a >= Wrap) /\ ~(ticks + (a \div Second) >= Wrap)
        BY <2>2, <3>1
      <3>3. a \div Second \in Nat /\ ticks \in Nat
        BY <1>1, <2>1, Division DEF ClockInv
      <3>4. a % Wrap = a /\ ticks + (a \div Second) < Wrap
        BY <1>1, <2>1, <2>3, <3>2, <3>3
      <3> QED BY <2>5, <3>4
    <2>7. crossing' \in BOOLEAN
      BY <2>2
    <2> QED BY <1>2, <2>1, <2>2, <2>4, <2>6, <2>7, BeginStep DEF At
  <1>3. ASSUME At("delay", "delay"), NEW d \in Delays, delay_ticks(d)
        PROVE  ClockInv'
    <2>1. d \in Nat
      BY ClockAssumption
    <2>2. Begin(d % Wrap, d * Second) /\ crossing' = (ticks + d >= Wrap)
      BY <1>3 DEF delay_ticks
    <2>3. d % Wrap \in Nat /\ (d < Wrap => d % Wrap = d)
      <3>1. \A w \in Nat \ {0} : d % w \in 0 .. w - 1 /\ (d < w => d % w = d)
        BY <2>1, Small
      <3>2. d % Wrap \in 0 .. Wrap - 1 /\ (d < Wrap => d % Wrap = d)
        BY <1>1, <3>1
      <3> QED BY <1>1, <3>2
    <2>4. d * Second < (d + 1) * Second
      BY <1>1, <2>1
    <2>5. ~crossing' => /\ ticks + (d % Wrap) < Wrap
                        /\ d * Second < ((d % Wrap) + 1) * Second
      <3>1. SUFFICES ASSUME ~crossing'
                     PROVE  /\ ticks + (d % Wrap) < Wrap
                            /\ d * Second < ((d % Wrap) + 1) * Second
        OBVIOUS
      <3>2. ~(ticks + d >= Wrap)
        BY <2>2, <3>1
      <3>3. ticks + d < Wrap /\ d < Wrap
        BY <1>1, <2>1, <3>2 DEF ClockInv
      <3> QED BY <2>3, <2>4, <3>3
    <2>6. crossing' \in BOOLEAN /\ d * Second \in Nat
      BY <1>1, <2>1, <2>2, Product
    <2> QED BY <1>3, <2>2, <2>3, <2>5, <2>6, BeginStep DEF At
  <1>4. ASSUME At("delay", "delay"), NEW d \in Delays, delay_s(d)
        PROVE  ClockInv'
    <2> DEFINE a == d * hz
    <2>1. a \in Nat /\ a * Second \in Nat
      BY <1>1, ClockAssumption, Product
    <2>2. Begin(a % Wrap, a * Second) /\ crossing' = (ticks + a >= Wrap)
      BY <1>4 DEF delay_s, TicksFromS
    <2> HIDE DEF a
    <2>3. a % Wrap \in Nat /\ (a < Wrap => a % Wrap = a)
      BY <1>1, <2>1, Small
    <2>4. a * Second < (a + 1) * Second
      BY <1>1, <2>1
    <2>5. ~crossing' => /\ ticks + (a % Wrap) < Wrap
                        /\ a * Second < ((a % Wrap) + 1) * Second
      <3>1. SUFFICES ASSUME ~crossing'
                     PROVE  /\ ticks + (a % Wrap) < Wrap
                            /\ a * Second < ((a % Wrap) + 1) * Second
        OBVIOUS
      <3>2. ~(ticks + a >= Wrap)
        BY <2>2, <3>1
      <3>3. ticks + a < Wrap /\ a < Wrap
        BY <1>1, <2>1, <3>2 DEF ClockInv
      <3> QED BY <2>3, <2>4, <3>3
    <2>6. crossing' \in BOOLEAN
      BY <2>2
    <2> QED BY <1>4, <2>1, <2>2, <2>3, <2>5, <2>6, BeginStep DEF At
  <1>5. ASSUME At("delay", "delay"), DelayEnds
        PROVE  ClockInv'
    <2>1. /\ delay = "test" /\ ticks >= eticks /\ delay' = "done" /\ phase' = "delay"
          /\ UNCHANGED <<ticks, eticks, asked, elapsed, crossing>>
      BY <1>5 DEF DelayEnds, At
    <2>2. ASSUME NEW n \in 0 .. Wrap - 1, Lasts(n)
          PROVE  Lasts(n)'
      <3>1. elapsed >= n
        BY <1>1, <2>1, <2>2 DEF Lasts, ClockInv
      <3> QED BY <2>1, <2>2, <3>1 DEF Lasts
    <2> QED BY <2>1, <2>2 DEF ClockInv
  <1>6. ASSUME At("delay", "tasks"), ReturnDelay
        PROVE  ClockInv'
    <2>1. /\ ticks' = ticks /\ delay' = "idle" /\ eticks' = 0 /\ asked' = 0 /\ elapsed' = 0
          /\ crossing' = FALSE /\ phase' = "tasks"
      BY <1>6 DEF ReturnDelay, At
    <2>2. crossing' \in BOOLEAN
      BY <2>1
    <2>3. ticks \in 0 .. Wrap - 1 /\ 0 \in 0 .. Wrap - 1
      BY <1>1 DEF ClockInv
    <2> QED BY <2>1, <2>2, <2>3 DEF ClockInv
  <1> QED BY <1>2, <1>3, <1>4, <1>5, <1>6 DEF Delay

LEMMA TickStep ==
    ASSUME ClockInv, TimerTick
    PROVE  ClockInv'
  <1>1. Wrap \in Nat \ {0}
    BY ClockAssumption
  <1>2. /\ delay = "test" /\ delay' = "test" /\ phase' = phase
        /\ ticks' = (ticks + 1) % Wrap
        /\ elapsed' = IF elapsed < Wrap THEN elapsed + 1 ELSE elapsed
        /\ UNCHANGED <<eticks, asked, crossing>>
    BY DEF TimerTick, Tick, timer_handler
  <1>3. ticks' \in 0 .. Wrap - 1 /\ (ticks + 1 < Wrap => ticks' = ticks + 1)
    <2>1. ticks + 1 \in Nat
      BY <1>1 DEF ClockInv
    <2> QED BY <1>1, <1>2, <2>1, Small
  <1>4. elapsed' \in Nat /\ elapsed' >= elapsed
    BY <1>2 DEF ClockInv
  <1>5. ASSUME NEW n \in 0 .. Wrap - 1, Lasts(n)
        PROVE  Lasts(n)'
    <2>1. /\ n \in Nat /\ n < Wrap /\ elapsed \in Nat
          /\ eticks \in 0 .. Wrap - 1 /\ ticks \in 0 .. Wrap - 1
      BY <1>1, <1>5 DEF ClockInv
    <2>2. CASE elapsed >= n
      <3>1. elapsed' >= n
        BY <1>4, <2>1, <2>2
      <3> QED BY <1>2, <1>5, <3>1 DEF Lasts
    <2>3. CASE elapsed < n
      <3>1. n <= eticks /\ ticks = (eticks - n) + elapsed /\ asked < (n + 1) * Second
        BY <1>5, <2>1, <2>3 DEF Lasts
      <3>2. elapsed' = elapsed + 1
        BY <1>1, <1>2, <2>1, <2>3
      <3>3. CASE ticks + 1 < Wrap
        <4>1. ticks' = (eticks - n) + elapsed'
          BY <1>3, <2>1, <3>1, <3>2, <3>3
        <4> QED BY <1>2, <3>1, <4>1 DEF Lasts
      <3>4. CASE ~(ticks + 1 < Wrap)
        <4>1. elapsed' >= n
          BY <1>1, <2>1, <3>1, <3>2, <3>4
        <4> QED BY <1>2, <3>1, <4>1 DEF Lasts
      <3> QED BY <3>3, <3>4
    <2> QED BY <2>1, <2>2, <2>3
  <1> QED BY <1>2, <1>3, <1>4, <1>5 DEF ClockInv

LEMMA OtherSteps ==
    ASSUME ClockInv, phase' = phase, UNCHANGED clockVars
    PROVE  ClockInv'
  BY DEF ClockInv, clockVars, Lasts

-----------------------------------------------------------------------------
(* The theorem.                                                            *)

LEMMA ClockInductive == Spec => []ClockInv
  <1>1. Init => ClockInv
    <2> SUFFICES ASSUME Init PROVE ClockInv
      OBVIOUS
    <2>1. /\ ticks = 0 /\ eticks = 0 /\ asked = 0 /\ elapsed = 0 /\ delay = "idle"
          /\ crossing = FALSE
      BY DEF Init, ClockInit
    <2>2. crossing \in BOOLEAN
      BY <2>1
    <2>3. 0 \in 0 .. Wrap - 1
      BY ClockAssumption
    <2> QED BY <2>1, <2>2, <2>3 DEF ClockInv
  <1>2. ClockInv /\ [Next]_vars => ClockInv'
    <2> SUFFICES ASSUME ClockInv, [Next]_vars PROVE ClockInv'
      OBVIOUS
    <2>1. CASE UNCHANGED vars
      BY <2>1, OtherSteps DEF vars
    <2>2. CASE Test
      <3>1. UNCHANGED clockVars /\ phase = "disk" /\ phase' \in {"disk", "rtc"}
        BY <2>2 DEF Test, At
      <3> QED BY <3>1 DEF ClockInv, clockVars, Lasts
    <2>3. CASE ReadTime
      <3>1. /\ phase = "rtc" /\ phase' \in {"rtc", "delay"}
            /\ ticks' \in 0 .. Wrap - 1 /\ UNCHANGED <<delay, eticks, asked, elapsed, crossing>>
        BY <2>3 DEF ReadTime, At, clockVars, ClockInv
      <3> QED BY <3>1 DEF ClockInv
    <2>4. CASE Delay
      BY <2>4, DelayStep
    <2>5. CASE RunTasks
      BY <2>5, OtherSteps DEF RunTasks, At
    <2>6. CASE TimerTick
      BY <2>6, TickStep
    <2>7. CASE (\E d \in present : Drive(d)) \/ ChipStarts \/ ChipEnds
      BY <2>7, OtherSteps DEF Drive, ChipStarts, ChipEnds
    <2> QED BY <2>1, <2>2, <2>3, <2>4, <2>5, <2>6, <2>7 DEF Next, kmain
  <1> QED BY <1>1, <1>2, PTL DEF Spec

\* A delay whose end does not wrap lasts as long as it was asked to, to the tick,
\* however many interrupts pass between two tests of its loop.
THEOREM DelaysLast == Spec => []DelayLasts
  <1>1. ClockInv => DelayLasts
    <2>1. SUFFICES ASSUME ClockInv, delay = "done", ~crossing
                   PROVE  elapsed * Second > asked - Second
      BY DEF DelayLasts
    <2>2. PICK n \in 0 .. Wrap - 1 : Lasts(n)
      BY <2>1 DEF ClockInv
    <2>3. /\ n \in Nat /\ Second \in Nat \ {0} /\ elapsed \in Nat /\ asked \in Nat
          /\ elapsed >= n /\ asked < (n + 1) * Second
      BY <2>1, <2>2, ClockAssumption DEF Lasts, ClockInv
    <2>4. n * Second <= elapsed * Second
      BY <2>3, Less
    <2>5. (n + 1) * Second = n * Second + Second
      BY <2>3
    <2> QED BY <2>3, <2>4, <2>5, Product
  <1> QED BY <1>1, ClockInductive, PTL

-----------------------------------------------------------------------------
(* The clock: two readings that agree.                                     *)

Valid(t) == /\ t[1] \in 0 .. 59 /\ t[2] \in 0 .. 59 /\ t[3] \in 0 .. 23
            /\ t[4] \in 1 .. 31 /\ t[5] \in 1 .. 12 /\ t[6] \in 2016 .. 2115

\* The first n registers read are those of the time t; all six are, of a time
\* during the call.
ReadOf(r, n, t) == \A i \in 1 .. n : r[i] = Stored(i, t[i])
OneInstant(r) == \E t \in times : ReadOf(r, 6, t)

RtcType ==
    /\ rpc \in 0 .. 8 /\ passes \in {"none", "begun", "made"}
    /\ updating \in BOOLEAN /\ binary \in BOOLEAN /\ hours24 \in BOOLEAN
    /\ reading \in Seq(Nat)
    /\ rpc \in 1 .. 7 => Len(reading) = rpc - 1
    /\ \A t \in times : Valid(t)
    /\ times # {} => time \in times
    /\ times = {} => rpc = 0 /\ ~updating
    /\ updating => passes = "made"
    /\ passes = "begun" => rpc \in 1 .. 7

\* A pass since the last update, or protected from the next one by the pass
\* that must lie between them, reads the time that is; the pass before one that
\* is not protected was.
RtcInv ==
    /\ RtcType
    /\ rpc \in 1 .. 7 /\ passes # "none" /\ ~updating => ReadOf(reading, rpc - 1, time)
    /\ rpc \in 1 .. 7 /\ passes # "begun" => last = <<>> \/ OneInstant(last)
    /\ rpc = 0 /\ passes # "none" /\ ~updating => reading = <<>> \/ OneInstant(reading)
    /\ rpc = 8 => OneInstant(reading)

LEMMA StoredType ==
    ASSUME RtcType, NEW t, Valid(t), NEW i \in Fields
    PROVE  Stored(i, t[i]) \in Nat
  <1>1. \A n \in Nat : Digits(n) \in Nat
    BY DEF Digits, Bcd, RtcType
  <1>2. t[i] \in Nat
    BY DEF Valid, Fields
  <1>3. t[i] % 100 \in Nat /\ ((t[i] + 11) % 12) + 1 \in Nat
    BY <1>2
  <1>4. Digits(t[i]) \in Nat /\ Digits(t[i] % 100) \in Nat /\ Digits(((t[i] + 11) % 12) + 1) \in Nat
    BY <1>1, <1>2, <1>3
  <1> QED BY <1>2, <1>4 DEF Stored

LEMMA SuccessorValid ==
    ASSUME NEW t, Valid(t)
    PROVE  Valid(Successor(t))
  <1> DEFINE first == <<0, 0, 0, 1, 1, 2016>>
             final == <<59, 59, 23, MonthDays(t[5], t[6]), 12, 2115>>
  <1>1. MonthDays(t[5], t[6]) \in 28 .. 31
    BY DEF MonthDays
  <1>2. \A i \in Fields : Successor(t)[i] \in {t[i], first[i]} \/ (t[i] < final[i] /\ Successor(t)[i] = t[i] + 1)
    <2>1. \A i \in Fields : final[i] \in Int /\ t[i] \in Int
      BY <1>1 DEF Fields, Valid
    <2> HIDE DEF first
    <2>2. \A i \in Fields : Successor(t)[i] =
            IF \A j \in 1 .. i - 1 : t[j] >= final[j]
            THEN IF t[i] >= final[i] THEN first[i] ELSE t[i] + 1
            ELSE t[i]
      BY DEF Successor, first
    <2> HIDE DEF final
    <2> QED BY <2>1, <2>2
  <1>3. Successor(t)[1] \in 0 .. 59 /\ Successor(t)[2] \in 0 .. 59 /\ Successor(t)[3] \in 0 .. 23
    BY <1>2 DEF Fields, Valid
  <1>4. Successor(t)[4] \in 1 .. 31
    BY <1>1, <1>2 DEF Fields, Valid
  <1>5. Successor(t)[5] \in 1 .. 12 /\ Successor(t)[6] \in 2016 .. 2115
    BY <1>2 DEF Fields, Valid
  <1> QED BY <1>3, <1>4, <1>5 DEF Valid

\* The conversions undo the chip's formats.
LEMMA ConvertedBack ==
    ASSUME RtcType, NEW r, NEW t, Valid(t), ReadOf(r, 6, t), NEW i \in Fields
    PROVE  Converted(r)[i] =
               IF i = 3 /\ ~hours24 /\ t[3] \in {0, 12} THEN 12 - t[3] ELSE t[i]
  <1>1. r[i] = Stored(i, t[i])
    BY DEF ReadOf, Fields
  <1>2. \A n \in 0 .. 99 : FromBcd(Bcd(n)) = n
    BY DEF FromBcd, Bcd
  <1>3. CASE i \in {1, 2, 4, 5}
    <2>1. r[i] = Digits(t[i]) /\ t[i] \in 0 .. 99
      BY <1>1, <1>3 DEF Stored, Valid
    <2>2. Converted(r)[i] = IF binary THEN r[i] ELSE FromBcd(r[i])
      BY <1>3 DEF Converted
    <2> QED BY <1>2, <1>3, <2>1, <2>2 DEF Digits
  <1>4. CASE i = 6
    <2>1. r[6] = Digits(t[6] % 100) /\ t[6] \in 2016 .. 2115 /\ t[6] % 100 \in 0 .. 99
      BY <1>1, <1>4 DEF Stored, Valid
    <2>2. (IF binary THEN r[6] ELSE FromBcd(r[6])) = t[6] % 100
      BY <1>2, <2>1 DEF Digits
    <2>3. Converted(r)[6] = Year(r[6])
      BY DEF Converted, Fields
    <2>4. Year(r[6]) = IF 2000 + (t[6] % 100) < 2016 THEN 2100 + (t[6] % 100) ELSE 2000 + (t[6] % 100)
      BY <2>1, <2>2 DEF Year
    <2> QED BY <1>4, <2>1, <2>3, <2>4
  <1>5. CASE i = 3
    <2>1. Converted(r)[3] = Hour(r[3]) /\ t[3] \in 0 .. 23
      BY DEF Converted, Fields, Valid
    <2>2. CASE hours24
      <3>1. r[3] = Digits(t[3])
        BY <1>1, <1>5, <2>2 DEF Stored
      <3>2. CASE binary
        BY <1>5, <2>1, <2>2, <3>1, <3>2 DEF Hour, Digits
      <3>3. CASE ~binary
        <4>1. r[3] = Bcd(t[3]) /\ Bcd(t[3]) \in 0 .. 127
          BY <2>1, <3>1, <3>3 DEF Digits, Bcd
        <4>2. Hour(r[3]) = FromBcd(Bcd(t[3]))
          BY <2>2, <3>3, <4>1 DEF Hour
        <4> QED BY <1>2, <1>5, <2>1, <2>2, <4>2
      <3> QED BY <3>2, <3>3
    <2>3. CASE ~hours24
      <3> DEFINE h == ((t[3] + 11) % 12) + 1
                 d == Digits(h)
      <3>1. h \in 1 .. 12 /\ d \in 0 .. 127 /\ (IF binary THEN d ELSE FromBcd(d)) = h
        <4>1. h \in 1 .. 12
          BY <2>1
        <4>2. Bcd(h) \in 0 .. 127
          BY <4>1 DEF Bcd
        <4> HIDE DEF h
        <4> QED BY <1>2, <4>1, <4>2 DEF Digits
      <3>2. r[3] = d + (IF t[3] >= 12 THEN 128 ELSE 0)
        BY <1>1, <1>5, <2>3 DEF Stored
      <3>3. r[3] % 128 = d /\ (r[3] >= 128 <=> t[3] >= 12)
        <4> HIDE DEF d
        <4> QED BY <2>1, <3>1, <3>2
      <3>4. Hour(r[3]) = IF t[3] >= 12 THEN (h + 12) % 24 ELSE h
        <4> HIDE DEF h, d
        <4> QED BY <2>3, <3>1, <3>3 DEF Hour
      <3> HIDE DEF d
      <3> QED BY <1>5, <2>1, <2>3, <3>4
    <2> QED BY <2>2, <2>3
  <1> QED BY <1>3, <1>4, <1>5 DEF Fields

\* What stays as it is when the clock's format does.
LEMMA StoredStays ==
    ASSUME UNCHANGED <<binary, hours24>>
    PROVE  \A i, n : Stored(i, n)' = Stored(i, n)
  BY DEF Stored, Digits

LEMMA OneInstantStays ==
    ASSUME UNCHANGED <<binary, hours24>>, times \subseteq times', NEW r, OneInstant(r)
    PROVE  \E t \in times' : \A i \in 1 .. 6 : r[i] = Stored(i, t[i])'
  BY StoredStays DEF OneInstant, ReadOf

LEMMA UpdateSteps ==
    ASSUME RtcInv, BeginUpdate \/ EndUpdate
    PROVE  RtcInv'
  <1>1. CASE BeginUpdate
    <2>1. RtcType'
      BY <1>1 DEF BeginUpdate, RtcInv, RtcType, Valid
    <2>2. /\ OneInstant(last) => (OneInstant(last))'
          /\ OneInstant(reading) => (OneInstant(reading))'
      BY <1>1, OneInstantStays DEF BeginUpdate, OneInstant, ReadOf
    <2> QED BY <1>1, <2>1, <2>2 DEF BeginUpdate, RtcInv
  <1>2. CASE EndUpdate
    <2>1. /\ updating /\ updating' = FALSE /\ passes' = "none" /\ time' = Successor(time)
          /\ times' = times \cup {time'} /\ UNCHANGED <<binary, hours24, rpc, reading, last>>
      BY <1>2 DEF EndUpdate
    <2>2. times # {} /\ passes = "made"
      BY <2>1 DEF RtcInv, RtcType
    <2>3. Valid(Successor(time))
      BY <2>2, SuccessorValid DEF RtcInv, RtcType
    <2>4. \A t \in times' : Valid(t)
      BY <2>1, <2>3 DEF RtcInv, RtcType
    <2>5. RtcType'
      BY <2>1, <2>2, <2>4 DEF RtcInv, RtcType
    <2>6. /\ OneInstant(last) => (OneInstant(last))'
          /\ OneInstant(reading) => (OneInstant(reading))'
      BY <2>1, OneInstantStays DEF OneInstant, ReadOf
    <2>7. rpc' \in 1 .. 7 => last' = <<>> \/ (OneInstant(last))'
      BY <2>1, <2>2, <2>6 DEF RtcInv
    <2>8. rpc' = 8 => (OneInstant(reading))'
      BY <2>1, <2>6 DEF RtcInv
    <2> QED BY <2>1, <2>5, <2>7, <2>8 DEF RtcInv
  <1> QED BY <1>1, <1>2

LEMMA PassSteps ==
    ASSUME RtcInv, RtcStep
    PROVE  RtcInv'
  <1>1. CASE read_rtc
    <2>1. /\ rpc = 0 /\ times = {} /\ time' \in Starts /\ times' = {time'}
          /\ binary' \in BOOLEAN /\ hours24' \in BOOLEAN
          /\ UNCHANGED <<updating, updates, passes, rpc, reading, last>>
      BY <1>1 DEF read_rtc
    <2>2. Valid(time')
      BY <2>1, RtcAssumption DEF Valid
    <2>3. RtcType'
      BY <2>1, <2>2 DEF RtcInv, RtcType, Valid
    <2>4. ~OneInstant(reading)
      BY <2>1 DEF OneInstant
    <2> QED BY <2>1, <2>3, <2>4 DEF RtcInv
  <1>2. CASE get_update_in_progress_flag
    <2>1. /\ rpc = 0 /\ times # {} /\ ~updating /\ rpc' = 1 /\ last' = reading /\ reading' = <<>>
          /\ passes' = (IF passes = "none" THEN "begun" ELSE passes)
          /\ UNCHANGED <<time, binary, hours24, updating, updates, times>>
      BY <1>2 DEF get_update_in_progress_flag, chipVars
    <2>2. RtcType'
      BY <2>1 DEF RtcInv, RtcType, Valid
    <2>3. passes' # "begun" => last' = <<>> \/ (OneInstant(last))'
      <3>1. SUFFICES ASSUME passes' # "begun", reading # <<>>
                     PROVE  (OneInstant(last))'
        BY <2>1
      <3>2. OneInstant(reading)
        BY <2>1, <3>1 DEF RtcInv, RtcType
      <3> QED BY <2>1, <3>2, OneInstantStays DEF OneInstant, ReadOf
    <2>4. (ReadOf(reading, rpc - 1, time))'
      BY <2>1 DEF ReadOf
    <2> QED BY <2>1, <2>2, <2>3, <2>4 DEF RtcInv
  <1>3. CASE get_RTC_register
    <2>1. PICK value : /\ value \in IF updating THEN {Stored(rpc, Successor(time)[rpc]), 255}
                                    ELSE {Stored(rpc, time[rpc])}
                       /\ reading' = Append(reading, value)
      BY <1>3 DEF get_RTC_register
    <2>2. /\ rpc \in Fields /\ rpc' = rpc + 1 /\ times # {}
          /\ UNCHANGED <<time, binary, hours24, updating, updates, passes, last, times>>
      BY <1>3 DEF get_RTC_register, chipVars, RtcInv, RtcType, Fields
    <2>3. value \in Nat
      <3>1. Valid(time) /\ Valid(Successor(time))
        BY <2>2, SuccessorValid DEF RtcInv, RtcType
      <3> QED BY <2>1, <2>2, <3>1, StoredType DEF RtcInv
    <2>4. /\ reading \in Seq(Nat) /\ Len(reading) = rpc - 1 /\ rpc \in 1 .. 6
      BY <2>2 DEF RtcInv, RtcType, Fields
    <2>5. /\ reading' \in Seq(Nat) /\ Len(reading') = rpc
          /\ reading'[rpc] = value /\ \A i \in 1 .. rpc - 1 : reading'[i] = reading[i]
      BY <2>1, <2>3, <2>4
    <2>6. RtcType'
      BY <2>2, <2>4, <2>5 DEF RtcInv, RtcType, Valid, Fields
    <2>7. passes' # "none" /\ ~updating' => (ReadOf(reading, rpc - 1, time))'
      <3>1. SUFFICES ASSUME passes' # "none", ~updating'
                     PROVE  (ReadOf(reading, rpc - 1, time))'
        OBVIOUS
      <3>2. ReadOf(reading, rpc - 1, time) /\ value = Stored(rpc, time[rpc])
        BY <2>1, <2>2, <2>4, <3>1 DEF RtcInv
      <3>3. \A i \in 1 .. rpc : reading'[i] = Stored(i, time[i])
        BY <2>4, <2>5, <3>2 DEF ReadOf
      <3> QED BY <2>2, <2>4, <3>3, StoredStays DEF ReadOf
    <2>8. passes' # "begun" => last' = <<>> \/ (OneInstant(last))'
      BY <2>2, <2>4, StoredStays DEF RtcInv, OneInstant, ReadOf
    <2> QED BY <2>2, <2>4, <2>6, <2>7, <2>8 DEF RtcInv
  <1>4. CASE Compare
    <2>1. /\ rpc = 7 /\ rpc' = (IF last = reading THEN 8 ELSE 0)
          /\ passes' = (IF passes = "begun" THEN "made" ELSE passes) /\ times # {}
          /\ UNCHANGED <<time, binary, hours24, updating, updates, reading, last, times>>
      BY <1>4 DEF Compare, chipVars, RtcInv, RtcType
    <2>2. reading \in Seq(Nat) /\ Len(reading) = 6
      BY <2>1 DEF RtcInv, RtcType
    <2>3. RtcType'
      BY <2>1, <2>2 DEF RtcInv, RtcType, Valid
    <2>4. passes # "none" /\ ~updating => OneInstant(reading)
      BY <2>1 DEF RtcInv, RtcType, OneInstant
    <2>5. OneInstant(reading) => (OneInstant(reading))'
      BY <2>1, StoredStays DEF OneInstant, ReadOf
    <2>6. last = reading => OneInstant(reading)
      <3>1. CASE passes = "begun"
        BY <2>4, <3>1 DEF RtcInv, RtcType
      <3>2. CASE passes # "begun"
        <4>1. last = <<>> \/ OneInstant(last)
          BY <2>1, <3>2 DEF RtcInv
        <4>2. reading # <<>>
          <5>1. reading = <<>> => Len(reading) = 0
            OBVIOUS
          <5> QED BY <2>2, <5>1
        <4>3. last = reading => (OneInstant(last) <=> OneInstant(reading))
          BY DEF OneInstant, ReadOf
        <4> QED BY <4>1, <4>2, <4>3
      <3> QED BY <3>1, <3>2
    <2> QED BY <2>1, <2>3, <2>4, <2>5, <2>6 DEF RtcInv
  <1> QED BY <1>1, <1>2, <1>3, <1>4 DEF RtcStep

LEMMA ReturnStep ==
    ASSUME RtcInv, ReturnTime
    PROVE  RtcInv'
  <1>1. /\ times' = {} /\ binary' = FALSE /\ hours24' = FALSE /\ passes' = "made"
        /\ rpc' = 0 /\ reading' = <<>> /\ updating' = FALSE
    BY DEF ReturnTime, RtcInv, RtcType
  <1>2. binary' \in BOOLEAN /\ hours24' \in BOOLEAN /\ updating' \in BOOLEAN
    BY <1>1
  <1> QED BY <1>1, <1>2 DEF RtcInv, RtcType

LEMMA RtcStays ==
    ASSUME RtcInv, UNCHANGED rtcVars
    PROVE  RtcInv'
  BY StoredStays DEF RtcInv, RtcType, Valid, ReadOf, OneInstant, rtcVars, chipVars

LEMMA RtcInductive == Spec => []RtcInv
  <1>1. Init => RtcInv
    <2> SUFFICES ASSUME Init PROVE RtcInv
      OBVIOUS
    <2>1. /\ times = {} /\ rpc = 0 /\ reading = <<>> /\ passes = "made"
          /\ binary = FALSE /\ hours24 = FALSE /\ updating = FALSE
      BY DEF Init, RtcInit
    <2>2. binary \in BOOLEAN /\ hours24 \in BOOLEAN /\ updating \in BOOLEAN
      BY <2>1
    <2> QED BY <2>1, <2>2 DEF RtcInv, RtcType
  <1>2. RtcInv /\ [Next]_vars => RtcInv'
    <2> SUFFICES ASSUME RtcInv, [Next]_vars PROVE RtcInv'
      OBVIOUS
    <2>1. CASE UNCHANGED vars \/ Test \/ Delay \/ RunTasks \/ TimerTick
               \/ \E d \in present : Drive(d)
      BY <2>1, RtcStays DEF vars, Test, Delay, RunTasks, TimerTick, Drive
    <2>2. CASE ReadTime
      BY <2>2, PassSteps, ReturnStep DEF ReadTime
    <2>3. CASE ChipStarts \/ ChipEnds
      BY <2>3, UpdateSteps DEF ChipStarts, ChipEnds
    <2> QED BY <2>1, <2>2, <2>3 DEF Next, kmain
  <1> QED BY <1>1, <1>2, PTL DEF Spec

\* Whenever the chip updates, and whatever format it keeps its fields in,
\* read_rtc returns a time that the clock had during the call.
THEOREM OneInstantRead == Spec => []RtcConsistent
  <1>1. RtcInv => RtcConsistent
    <2>1. SUFFICES ASSUME RtcInv, rpc = 8
                   PROVE  \E t \in times : \A i \in Fields :
                              Converted(reading)[i] =
                                  IF i = 3 /\ ~hours24 /\ t[3] \in {0, 12} THEN 12 - t[3] ELSE t[i]
      BY DEF RtcConsistent
    <2>2. PICK t \in times : ReadOf(reading, 6, t)
      BY <2>1 DEF RtcInv, OneInstant
    <2>3. Valid(t)
      BY <2>1 DEF RtcInv, RtcType
    <2> QED BY <2>1, <2>2, <2>3, ConvertedBack DEF RtcInv
  <1> QED BY <1>1, RtcInductive, PTL

-----------------------------------------------------------------------------
(* The disk test's script.                                                 *)

Names == {"reset", "wait", "select", "command", "in", "out", "poll"}
Args == Int \cup {"BSY", "RDY", "DRQ", "identify", "write", "read", "ident", "data2"}
Operation == [name : Names, arg : Args]

\* The script of one transfer: select, command, wait, and a word at a time.
Transfer(slave, c, words) ==
    Op("select", slave) \o Op("command", c) \o Op("wait", "DRQ") \o words

\* A script of n operations.
Long(s, n) == s \in Seq(Operation) /\ n <= Len(s) /\ Len(s) <= n

LEMMA OpSeq ==
    ASSUME NEW name \in Names, NEW arg \in Args
    PROVE  /\ Long(Op(name, arg), 1)
           /\ Op(name, arg)[1] = [name |-> name, arg |-> arg]
  <1>1. [name |-> name, arg |-> arg] \in Operation
    BY DEF Operation
  <1> QED BY <1>1 DEF Op, Long

LEMMA TransferScript ==
    ASSUME NEW slave \in Int, NEW c \in Args,
           NEW words, Long(words, Words)
    PROVE  /\ Long(Transfer(slave, c, words), Words + 3)
           /\ Transfer(slave, c, words)[1] = [name |-> "select", arg |-> slave]
           /\ Transfer(slave, c, words)[2] = [name |-> "command", arg |-> c]
           /\ Transfer(slave, c, words)[3] = [name |-> "wait", arg |-> "DRQ"]
           /\ \A k \in 1 .. Words : Transfer(slave, c, words)[3 + k] = words[k]
  <1> DEFINE a == Op("select", slave)
             b == Op("command", c)
             w == Op("wait", "DRQ")
  <1>0. Words \in Nat \ {0}
    BY DiskAssumption
  <1>1. Long(a, 1) /\ a[1] = [name |-> "select", arg |-> slave]
    BY OpSeq DEF Names, Args
  <1>2. Long(b, 1) /\ b[1] = [name |-> "command", arg |-> c]
    BY OpSeq DEF Names, Args
  <1>3. Long(w, 1) /\ w[1] = [name |-> "wait", arg |-> "DRQ"]
    BY OpSeq DEF Names, Args
  <1> HIDE DEF a, b, w
  <1> DEFINE ab == a \o b
  <1>4. Long(ab, 2) /\ ab[1] = a[1] /\ ab[2] = b[1]
    BY <1>1, <1>2 DEF Long
  <1> HIDE DEF ab
  <1> DEFINE abw == ab \o w
  <1>5. Long(abw, 3) /\ abw[1] = ab[1] /\ abw[2] = ab[2] /\ abw[3] = w[1]
    BY <1>3, <1>4 DEF Long
  <1> HIDE DEF abw
  <1> DEFINE all == abw \o words
  <1>6. /\ Long(all, Words + 3) /\ \A i \in 1 .. 3 : all[i] = abw[i]
        /\ \A k \in 1 .. Words : all[3 + k] = words[k]
    BY <1>0, <1>5 DEF Long
  <1>7. Transfer(slave, c, words) = all
    BY DEF Transfer, a, b, w, ab, abw
  <1> HIDE DEF all
  <1> QED BY <1>1, <1>2, <1>3, <1>4, <1>5, <1>6, <1>7

\* Where each operation of the test is.
LEMMA Script ==
    /\ Finished = 16 + 3 * Words
    /\ \A n \in 1 .. 15 + 3 * Words :
           LET op == test_harddisk[n] IN
           \/ n = 1 /\ op.name = "reset"
           \/ n \in {2, 3} /\ op.name = "wait" /\ op.arg \in {"BSY", "RDY"}
           \/ n \in {4, 8 + Words, 9 + Words, 13 + 2 * Words} /\ op.name = "select" /\ op.arg = 1
           \/ n = 7 + Words /\ op.name = "select" /\ op.arg = 0
           \/ n = 5 /\ op.name = "command" /\ op.arg = "identify"
           \/ n = 10 + Words /\ op.name = "command" /\ op.arg = "write"
           \/ n = 14 + 2 * Words /\ op.name = "command" /\ op.arg = "read"
           \/ n \in {6, 11 + Words, 15 + 2 * Words} /\ op.name = "wait" /\ op.arg = "DRQ"
           \/ n \in 7 .. 6 + Words /\ op.name = "in" /\ op.arg = "ident"
           \/ n \in 12 + Words .. 11 + 2 * Words /\ op.name = "out" /\ op.arg = n - 11 - Words
           \/ n = 12 + 2 * Words /\ op.name = "poll"
           \/ n \in 16 + 2 * Words .. 15 + 3 * Words /\ op.name = "in" /\ op.arg = "data2"
  <1> DEFINE p == (Op("reset", 0) \o Op("wait", "BSY")) \o Op("wait", "RDY")
             outs == [i \in 1 .. Words |-> [name |-> "out", arg |-> Sector[i]]]
             a == Transfer(1, "identify", Ins("ident"))
             b == Transfer(1, "write", outs)
             c == Transfer(1, "read", Ins("data2"))
             x == Op("select", 0)
             y == Op("select", 1)
             z == Op("poll", 0)
  <1>0. Words \in Nat \ {0}
    BY DiskAssumption
  <1>1. /\ Long(p, 3) /\ p[1].name = "reset"
        /\ p[2] = [name |-> "wait", arg |-> "BSY"] /\ p[3] = [name |-> "wait", arg |-> "RDY"]
    <2> DEFINE r == Op("reset", 0)
               v == Op("wait", "BSY")
               w == Op("wait", "RDY")
    <2>a. Long(r, 1) /\ r[1] = [name |-> "reset", arg |-> 0]
      BY OpSeq DEF Names, Args
    <2>b. Long(v, 1) /\ v[1] = [name |-> "wait", arg |-> "BSY"]
      BY OpSeq DEF Names, Args
    <2>c. Long(w, 1) /\ w[1] = [name |-> "wait", arg |-> "RDY"]
      BY OpSeq DEF Names, Args
    <2> HIDE DEF r, v, w
    <2> DEFINE rv == r \o v
    <2>2. Long(rv, 2) /\ rv[1] = r[1] /\ rv[2] = v[1]
      BY <2>a, <2>b DEF Long
    <2> HIDE DEF rv
    <2> DEFINE rvw == rv \o w
    <2>3. Long(rvw, 3) /\ rvw[1] = rv[1] /\ rvw[2] = rv[2] /\ rvw[3] = w[1]
      BY <2>c, <2>2 DEF Long
    <2>4. p = rvw
      BY DEF r, v, w, rv
    <2> HIDE DEF rvw, p
    <2>5. Long(p, 3) /\ p[1] = r[1] /\ p[2] = v[1] /\ p[3] = w[1]
      BY <2>2, <2>3, <2>4
    <2> QED BY <2>5, <2>a, <2>b, <2>c, <2>2, <2>3, <2>4
  <1>2. /\ Long(Ins("ident"), Words)
        /\ \A k \in 1 .. Words : Ins("ident")[k] = [name |-> "in", arg |-> "ident"]
    BY <1>0 DEF Long, Ins, Operation, Names, Args
  <1>3. /\ Long(Ins("data2"), Words)
        /\ \A k \in 1 .. Words : Ins("data2")[k] = [name |-> "in", arg |-> "data2"]
    BY <1>0 DEF Long, Ins, Operation, Names, Args
  <1>4. /\ Long(outs, Words)
        /\ \A k \in 1 .. Words : outs[k] = [name |-> "out", arg |-> k]
    BY <1>0 DEF Long, Sector, Operation, Names, Args
  <1> HIDE DEF outs
  <1>4a. "identify" \in Args /\ "write" \in Args /\ "read" \in Args /\ 1 \in Int
    BY DEF Args
  <1>5. /\ Long(a, Words + 3)
        /\ a[1] = [name |-> "select", arg |-> 1] /\ a[2] = [name |-> "command", arg |-> "identify"]
        /\ a[3] = [name |-> "wait", arg |-> "DRQ"]
        /\ \A k \in 1 .. Words : a[3 + k] = [name |-> "in", arg |-> "ident"]
    BY <1>2, <1>4a, TransferScript
  <1>6. /\ Long(b, Words + 3)
        /\ b[1] = [name |-> "select", arg |-> 1] /\ b[2] = [name |-> "command", arg |-> "write"]
        /\ b[3] = [name |-> "wait", arg |-> "DRQ"]
        /\ \A k \in 1 .. Words : b[3 + k] = [name |-> "out", arg |-> k]
    BY <1>4, <1>4a, TransferScript
  <1>7. /\ Long(c, Words + 3)
        /\ c[1] = [name |-> "select", arg |-> 1] /\ c[2] = [name |-> "command", arg |-> "read"]
        /\ c[3] = [name |-> "wait", arg |-> "DRQ"]
        /\ \A k \in 1 .. Words : c[3 + k] = [name |-> "in", arg |-> "data2"]
    BY <1>3, <1>4a, TransferScript
  <1>8. /\ Long(x, 1) /\ x[1] = [name |-> "select", arg |-> 0]
        /\ Long(y, 1) /\ y[1] = [name |-> "select", arg |-> 1]
        /\ Long(z, 1) /\ z[1] = [name |-> "poll", arg |-> 0]
    BY OpSeq DEF Names, Args
  <1>9. test_harddisk = (((((p \o a) \o x) \o y) \o b) \o z) \o c
    BY DEF test_harddisk, ata_soft_reset, Identify, ata_drive_present, ata_pio_write_w,
           ata_pio_read_w, Transfer, outs
  <1> HIDE DEF p, a, b, c, x, y, z
  <1> DEFINE pa == p \o a
             pax == pa \o x
             paxy == pax \o y
             paxyb == paxy \o b
             paxybz == paxyb \o z
             all == paxybz \o c
  <1>10. /\ Long(pa, Words + 6)
         /\ \A i \in 1 .. 3 : pa[i] = p[i]
         /\ \A i \in 1 .. Words + 3 : pa[3 + i] = a[i]
    BY <1>0, <1>1, <1>5 DEF Long
  <1> HIDE DEF pa
  <1>11. /\ Long(pax, Words + 7)
         /\ \A i \in 1 .. Words + 6 : pax[i] = pa[i]
         /\ pax[Words + 7] = x[1]
    BY <1>0, <1>8, <1>10 DEF Long
  <1> HIDE DEF pax
  <1>12. /\ Long(paxy, Words + 8)
         /\ \A i \in 1 .. Words + 7 : paxy[i] = pax[i]
         /\ paxy[Words + 8] = y[1]
    BY <1>0, <1>8, <1>11 DEF Long
  <1> HIDE DEF paxy
  <1>13. /\ Long(paxyb, 2 * Words + 11)
         /\ \A i \in 1 .. Words + 8 : paxyb[i] = paxy[i]
         /\ \A i \in 1 .. Words + 3 : paxyb[Words + 8 + i] = b[i]
    BY <1>0, <1>6, <1>12 DEF Long
  <1> HIDE DEF paxyb
  <1>14. /\ Long(paxybz, 2 * Words + 12)
         /\ \A i \in 1 .. 2 * Words + 11 : paxybz[i] = paxyb[i]
         /\ paxybz[2 * Words + 12] = z[1]
    BY <1>0, <1>8, <1>13 DEF Long
  <1> HIDE DEF paxybz
  <1>15. /\ Long(all, 3 * Words + 15)
         /\ \A i \in 1 .. 2 * Words + 12 : all[i] = paxybz[i]
         /\ \A i \in 1 .. Words + 3 : all[2 * Words + 12 + i] = c[i]
    BY <1>0, <1>7, <1>14 DEF Long
  <1>16. test_harddisk = all
    BY <1>9 DEF pa, pax, paxy, paxyb, paxybz
  <1> HIDE DEF all
  <1>17. Finished = 16 + 3 * Words
    BY <1>0, <1>15, <1>16 DEF Finished, Long
  <1>18. \A i \in 1 .. 3 : all[i] = p[i]
    BY <1>0, <1>10, <1>11, <1>12, <1>13, <1>14, <1>15
  <1>19. \A i \in 1 .. Words + 3 : all[3 + i] = a[i]
    BY <1>0, <1>10, <1>11, <1>12, <1>13, <1>14, <1>15
  <1>20. all[Words + 7] = x[1] /\ all[Words + 8] = y[1]
    BY <1>0, <1>11, <1>12, <1>13, <1>14, <1>15
  <1>21. \A i \in 1 .. Words + 3 : all[Words + 8 + i] = b[i]
    BY <1>0, <1>13, <1>14, <1>15
  <1>22. all[2 * Words + 12] = z[1] /\ \A i \in 1 .. Words + 3 : all[2 * Words + 12 + i] = c[i]
    BY <1>0, <1>14, <1>15
  <1>23. ASSUME NEW n \in 1 .. 3
         PROVE  \/ n = 1 /\ all[n].name = "reset"
                \/ n \in {2, 3} /\ all[n].name = "wait" /\ all[n].arg \in {"BSY", "RDY"}
    BY <1>1, <1>18
  <1>24. ASSUME NEW n \in 4 .. 6 + Words
         PROVE  \/ n = 4 /\ all[n].name = "select" /\ all[n].arg = 1
                \/ n = 5 /\ all[n].name = "command" /\ all[n].arg = "identify"
                \/ n = 6 /\ all[n].name = "wait" /\ all[n].arg = "DRQ"
                \/ n \in 7 .. 6 + Words /\ all[n].name = "in" /\ all[n].arg = "ident"
    <2>1. PICK i \in 1 .. Words + 3 : n = 3 + i
      BY <1>0
    <2>2. i \in 4 .. Words + 3 => a[i] = [name |-> "in", arg |-> "ident"]
      <3>1. i \in 4 .. Words + 3 => i = 3 + (i - 3) /\ i - 3 \in 1 .. Words
        BY <1>0
      <3> QED BY <1>5, <3>1
    <2> QED BY <1>0, <1>5, <1>19, <2>1, <2>2
  <1>25. ASSUME NEW n \in 9 + Words .. 11 + 2 * Words
         PROVE  \/ n = 9 + Words /\ all[n].name = "select" /\ all[n].arg = 1
                \/ n = 10 + Words /\ all[n].name = "command" /\ all[n].arg = "write"
                \/ n = 11 + Words /\ all[n].name = "wait" /\ all[n].arg = "DRQ"
                \/ /\ n \in 12 + Words .. 11 + 2 * Words
                   /\ all[n].name = "out" /\ all[n].arg = n - 11 - Words
    <2>1. PICK i \in 1 .. Words + 3 : n = Words + 8 + i
      BY <1>0
    <2>2. i \in 4 .. Words + 3 => b[i] = [name |-> "out", arg |-> i - 3]
      <3>1. i \in 4 .. Words + 3 => i = 3 + (i - 3) /\ i - 3 \in 1 .. Words
        BY <1>0
      <3> QED BY <1>6, <3>1
    <2> QED BY <1>0, <1>6, <1>21, <2>1, <2>2
  <1>26. ASSUME NEW n \in 13 + 2 * Words .. 15 + 3 * Words
         PROVE  \/ n = 13 + 2 * Words /\ all[n].name = "select" /\ all[n].arg = 1
                \/ n = 14 + 2 * Words /\ all[n].name = "command" /\ all[n].arg = "read"
                \/ n = 15 + 2 * Words /\ all[n].name = "wait" /\ all[n].arg = "DRQ"
                \/ /\ n \in 16 + 2 * Words .. 15 + 3 * Words
                   /\ all[n].name = "in" /\ all[n].arg = "data2"
    <2>1. PICK i \in 1 .. Words + 3 : n = 2 * Words + 12 + i
      BY <1>0
    <2>2. i \in 4 .. Words + 3 => c[i] = [name |-> "in", arg |-> "data2"]
      <3>1. i \in 4 .. Words + 3 => i = 3 + (i - 3) /\ i - 3 \in 1 .. Words
        BY <1>0
      <3> QED BY <1>7, <3>1
    <2> QED BY <1>0, <1>7, <1>22, <2>1, <2>2
  <1>27. ASSUME NEW n \in {7 + Words, 8 + Words, 12 + 2 * Words}
         PROVE  \/ n = 7 + Words /\ all[n].name = "select" /\ all[n].arg = 0
                \/ n = 8 + Words /\ all[n].name = "select" /\ all[n].arg = 1
                \/ n = 12 + 2 * Words /\ all[n].name = "poll"
    BY <1>0, <1>8, <1>20, <1>22
  <1>28. \A n \in 1 .. 15 + 3 * Words :
             \/ n \in 1 .. 3 \/ n \in 4 .. 6 + Words \/ n \in 9 + Words .. 11 + 2 * Words
             \/ n \in 13 + 2 * Words .. 15 + 3 * Words
             \/ n \in {7 + Words, 8 + Words, 12 + 2 * Words}
    BY <1>0
  <1> QED BY <1>16, <1>17, <1>23, <1>24, <1>25, <1>26, <1>27, <1>28

-----------------------------------------------------------------------------
(* What the disk test finds at each place of the script.                   *)

First(n) == [i \in 1 .. n |-> i]

\* Drive 1 has no command, one it was just given, one whose data it waits for.
Free == state[1] # "drq" /\ command[1] = "none"
Given(c) == state[1] # "idle" /\ command[1] = c /\ left[1] = Words
Ready(c, n) == state[1] = "drq" /\ command[1] = c /\ left[1] = n

\* A wait for DRQ: at its first test, or after one that found the bit set.
Polling(c) == (timer = Patience /\ Given(c)) \/ Ready(c, Words)

\* The test, up to and from the sector's write, on a machine with drive 1 whose
\* waits for DRQ all found it set at once.
BeforeWrite ==
    /\ data2 = <<>>
    /\ \/ /\ dpc \in 1 .. 5 /\ Free /\ ident = <<>>
          /\ dpc = 5 => selected = 1
       \/ /\ dpc = 6 /\ selected = 1 /\ ident = <<>>
          /\ Polling("identify") \/ (timer = Patience /\ Free)
       \/ /\ dpc \in 7 .. 6 + Words /\ selected = 1
          /\ Ready("identify", Words - (dpc - 7)) /\ ident = First(dpc - 7)
       \/ /\ dpc \in 7 + Words .. 10 + Words /\ Free /\ ident = Sector
          /\ dpc = 10 + Words => selected = 1
       \/ /\ dpc = 11 + Words /\ selected = 1 /\ ident = Sector
          /\ Polling("write") \/ (timer = Patience /\ Free)
       \/ /\ dpc \in 12 + Words .. 11 + 2 * Words /\ selected = 1 /\ ident = Sector
          /\ Ready("write", Words - (dpc - 12 - Words))
          /\ \A i \in 1 .. dpc - 12 - Words : sector[i] = i
FromWrite ==
    /\ ident = Sector /\ sector = Sector /\ selected = 1
    /\ \/ dpc = 12 + 2 * Words /\ Free /\ data2 = <<>>
       \/ dpc \in 13 + 2 * Words .. 14 + 2 * Words /\ Free /\ state[1] = "idle" /\ data2 = <<>>
       \/ dpc = 15 + 2 * Words /\ Polling("read") /\ data2 = <<>>
       \/ /\ dpc \in 16 + 2 * Words .. 15 + 3 * Words
          /\ Ready("read", Words - (dpc - 16 - 2 * Words))
          /\ data2 = First(dpc - 16 - 2 * Words)
       \/ dpc = 16 + 3 * Words /\ data2 = Sector

DiskType ==
    /\ dpc \in 0 .. 16 + 3 * Words /\ timer \in 0 .. Patience
    /\ present \in SUBSET {0, 1} /\ prompt \in BOOLEAN
    /\ selected \in {0, 1}
    /\ state \in [{0, 1} -> {"idle", "busy", "drq"}]
    /\ command \in [{0, 1} -> {"none", "identify", "write", "read"}]
    /\ left \in [{0, 1} -> Nat] /\ sector \in [1 .. Words -> Nat]

DiskInv ==
    /\ DiskType
    /\ dpc = 0 => DiskInit
    /\ dpc # 0 /\ prompt /\ 1 \in present => BeforeWrite \/ FromWrite

\* Where each operation stands, read from the script.
LEMMA Places ==
    /\ Doing("reset") => dpc = 1
    /\ Doing("select") => \/ dpc \in {4, 8 + Words, 9 + Words, 13 + 2 * Words} /\ Arg = 1
                          \/ dpc = 7 + Words /\ Arg = 0
    /\ Doing("command") => \/ dpc = 5 /\ Arg = "identify"
                           \/ dpc = 10 + Words /\ Arg = "write"
                           \/ dpc = 14 + 2 * Words /\ Arg = "read"
    /\ Doing("wait") => \/ dpc \in {2, 3} /\ Arg \in {"BSY", "RDY"}
                        \/ dpc \in {6, 11 + Words, 15 + 2 * Words} /\ Arg = "DRQ"
    /\ Doing("poll") => dpc = 12 + 2 * Words
    /\ Doing("in") => \/ dpc \in 7 .. 6 + Words /\ Arg = "ident"
                      \/ dpc \in 16 + 2 * Words .. 15 + 3 * Words /\ Arg = "data2"
    /\ Doing("out") => dpc \in 12 + Words .. 11 + 2 * Words /\ Arg = dpc - 11 - Words
    /\ \A name : Doing(name) => dpc \in 1 .. 15 + 3 * Words
  <1>0. Words \in Nat \ {0}
    BY DiskAssumption
  <1> DEFINE op == test_harddisk[dpc]
  <1>1. \A name : Doing(name) => dpc \in 1 .. 15 + 3 * Words /\ op.name = name
    BY <1>0, Script DEF Doing
  <1>2. Arg = op.arg
    BY DEF Arg
  <1>3. dpc \in 1 .. 15 + 3 * Words =>
           \/ dpc = 1 /\ op.name = "reset"
           \/ dpc \in {2, 3} /\ op.name = "wait" /\ op.arg \in {"BSY", "RDY"}
           \/ dpc \in {4, 8 + Words, 9 + Words, 13 + 2 * Words} /\ op.name = "select" /\ op.arg = 1
           \/ dpc = 7 + Words /\ op.name = "select" /\ op.arg = 0
           \/ dpc = 5 /\ op.name = "command" /\ op.arg = "identify"
           \/ dpc = 10 + Words /\ op.name = "command" /\ op.arg = "write"
           \/ dpc = 14 + 2 * Words /\ op.name = "command" /\ op.arg = "read"
           \/ dpc \in {6, 11 + Words, 15 + 2 * Words} /\ op.name = "wait" /\ op.arg = "DRQ"
           \/ dpc \in 7 .. 6 + Words /\ op.name = "in" /\ op.arg = "ident"
           \/ dpc \in 12 + Words .. 11 + 2 * Words /\ op.name = "out" /\ op.arg = dpc - 11 - Words
           \/ dpc = 12 + 2 * Words /\ op.name = "poll"
           \/ dpc \in 16 + 2 * Words .. 15 + 3 * Words /\ op.name = "in" /\ op.arg = "data2"
    BY Script
  <1> HIDE DEF op
  <1> QED BY <1>1, <1>2, <1>3

LEMMA FirstWords ==
    /\ First(0) = <<>> /\ First(Words) = Sector
    /\ \A n \in Nat : First(n) \in Seq(Nat) /\ Append(First(n), n + 1) = First(n + 1)
  <1>1. \A n \in Nat : First(n) \in Seq(Nat) /\ Len(First(n)) = n
    BY DEF First
  <1>2. ASSUME NEW n \in Nat
        PROVE  Append(First(n), n + 1) = First(n + 1)
    BY DEF First
  <1>3. First(0) = <<>>
    BY DEF First
  <1> QED BY <1>1, <1>2, <1>3 DEF First, Sector

LEMMA DiskStarts == ASSUME DiskInit PROVE DiskInv
  <1>1. DiskType
    BY DiskAssumption DEF DiskInit, DiskType, Junk
  <1> QED BY <1>1 DEF DiskInit, DiskInv

\* A word goes through: the drive has one less to move, or is done.
LEMMA WordThrough ==
    ASSUME DiskType, selected = 1, NEW c, NEW n \in Nat \ {0}, Ready(c, n), Transferred
    PROVE  (n > 1 => Ready(c, n - 1)') /\ (n = 1 => Free')
  <1> USE DEF DiskType, Ready, Transferred, Becomes, Free
  <1>1. CASE n > 1
    BY <1>1
  <1>2. CASE n = 1
    BY <1>2
  <1> QED BY <1>1, <1>2

\* A drive takes the command it is given.
LEMMA CommandTaken ==
    ASSUME DiskType, selected = 1, NEW c \in {"identify", "write", "read"}, Free,
           1 \in present, Accept(c)
    PROVE  Given(c)' \/ (state[1] = "busy" /\ Free')
  BY DEF DiskType, Accept, Becomes, Given, Free, Here

LEMMA DiskTypeStays ==
    ASSUME DiskType, DiskStep \/ EndTest \/ \E d \in {0, 1} : DriveReady(d)
    PROVE  DiskType'
  <1>0. Words \in Nat \ {0} /\ Patience \in Nat
    BY DiskAssumption
  <1> USE <1>0 DEF DiskType
  <1>1. CASE BeginTest
    BY <1>1 DEF BeginTest, driveVars
  <1>2. CASE Reset
    <2>1. dpc' \in 0 .. 16 + 3 * Words /\ timer' = Patience
      BY <1>2, Places DEF Reset, Advance
    <2> QED BY <1>2, <2>1 DEF Reset
  <1>3. CASE Select
    <2>1. dpc' \in 0 .. 16 + 3 * Words /\ timer' = Patience /\ Arg \in {0, 1}
      BY <1>3, Places DEF Select, Advance
    <2> QED BY <1>3, <2>1 DEF Select
  <1>4. CASE Command
    <2>1. /\ dpc' \in 0 .. 16 + 3 * Words /\ timer' = Patience
          /\ Arg \in {"identify", "write", "read"}
      BY <1>4, Places DEF Command, Advance
    <2> QED BY <1>4, <2>1 DEF Command, Accept, Becomes
  <1>5. CASE Wait
    <2>1. dpc + 1 \in 0 .. 16 + 3 * Words
      BY <1>5, Places DEF Wait
    <2>2. timer' \in 0 .. Patience /\ dpc' \in 0 .. 16 + 3 * Words
      BY <1>5, <2>1 DEF Wait, Advance
    <2> QED BY <1>5, <2>2 DEF Wait, driveVars
  <1>6. CASE Poll
    <2>1. dpc + 1 \in 0 .. 16 + 3 * Words
      BY <1>6, Places DEF Poll
    <2>2. timer' \in 0 .. Patience /\ dpc' \in 0 .. 16 + 3 * Words
      BY <1>6, <2>1 DEF Poll, Advance
    <2> QED BY <1>6, <2>2 DEF Poll, driveVars
  <1>7. CASE In
    <2>1. dpc' \in 0 .. 16 + 3 * Words /\ timer' = Patience
      BY <1>7, Places DEF In, Advance
    <2>2. Transferred \/ UNCHANGED <<state, command, left>>
      BY <1>7 DEF In
    <2>3. UNCHANGED <<selected, sector, present, prompt>>
      BY <1>7 DEF In
    <2> QED BY <2>1, <2>2, <2>3 DEF Transferred, Becomes
  <1>8. CASE Out
    <2>1. dpc' \in 0 .. 16 + 3 * Words /\ timer' = Patience /\ Arg \in Nat
      <3>1. dpc \in 12 + Words .. 11 + 2 * Words /\ Arg = dpc - 11 - Words
        BY <1>8, Places DEF Out
      <3> QED BY <1>8, <3>1 DEF Out, Advance
    <2>2. Transferred \/ UNCHANGED <<state, command, left>>
      BY <1>8 DEF Out
    <2>3. sector' = sector \/ \E w : sector' = [sector EXCEPT ![w] = Arg]
      BY <1>8 DEF Out
    <2>4. UNCHANGED <<selected, present, prompt>>
      BY <1>8 DEF Out
    <2>5. sector' \in [1 .. Words -> Nat]
      BY <2>1, <2>3
    <2>6. /\ state' \in [{0, 1} -> {"idle", "busy", "drq"}]
          /\ command' \in [{0, 1} -> {"none", "identify", "write", "read"}]
          /\ left' \in [{0, 1} -> Nat]
      BY <2>2 DEF Transferred, Becomes
    <2> QED BY <2>1, <2>4, <2>5, <2>6
  <1>9. CASE EndTest
    BY <1>9 DEF EndTest, Junk
  <1>10. CASE \E d \in {0, 1} : DriveReady(d)
    BY <1>10 DEF DriveReady, kernelVars
  <1> QED BY <1>1, <1>2, <1>3, <1>4, <1>5, <1>6, <1>7, <1>8, <1>9, <1>10 DEF DiskStep

LEMMA DiskCourse ==
    ASSUME DiskInv, DiskStep, 1 \in present', prompt', dpc # 0
    PROVE  (BeforeWrite \/ FromWrite)'
  <1>0. Words \in Nat \ {0} /\ Patience \in Nat
    BY DiskAssumption
  <1>1. DiskType /\ DiskType'
    BY DiskTypeStays DEF DiskInv
  <1>2. UNCHANGED present /\ (prompt' => prompt) /\ ~BeginTest
    BY <1>1 DEF DiskStep, BeginTest, Reset, Select, Command, Wait, Poll, In, Out, DiskType
  <1>3. 1 \in present /\ prompt /\ (BeforeWrite \/ FromWrite)
    BY <1>2 DEF DiskInv
  <1> USE <1>0
  <1>4. CASE Reset
    <2>1. dpc = 1 /\ dpc' = 2 /\ UNCHANGED <<ident, data2, command>>
      BY <1>4, Places DEF Reset, Advance
    <2>2. data2 = <<>> /\ Free /\ ident = <<>>
      BY <1>3, <2>1 DEF BeforeWrite, FromWrite
    <2>3. Free'
      BY <1>4, <2>2 DEF Reset, Free
    <2> QED BY <2>1, <2>2, <2>3 DEF BeforeWrite
  <1>5. CASE Select
    <2>1. UNCHANGED <<ident, data2, state, command, left, sector>> /\ dpc' = dpc + 1
      BY <1>5 DEF Select, Advance
    <2>2. selected' = Arg
      BY <1>5 DEF Select
    <2>3. \/ dpc \in {4, 8 + Words, 9 + Words, 13 + 2 * Words} /\ selected' = 1
          \/ dpc = 7 + Words
      BY <1>5, <2>2, Places DEF Select
    <2>4. Free => Free'
      BY <2>1 DEF Free
    <2>5. CASE dpc = 4
      BY <1>3, <2>1, <2>3, <2>4, <2>5 DEF BeforeWrite, FromWrite
    <2>6. CASE dpc \in {7 + Words, 8 + Words, 9 + Words}
      BY <1>3, <2>1, <2>3, <2>4, <2>6 DEF BeforeWrite, FromWrite
    <2>7. CASE dpc = 13 + 2 * Words
      BY <1>3, <2>1, <2>3, <2>4, <2>7 DEF BeforeWrite, FromWrite
    <2> QED BY <2>3, <2>5, <2>6, <2>7
  <1>6. CASE Command
    <2>1. UNCHANGED <<ident, data2, selected, sector>> /\ dpc' = dpc + 1 /\ timer' = Patience
      BY <1>6 DEF Command, Advance
    <2>2. \/ dpc = 5 /\ Accept("identify")
          \/ dpc = 10 + Words /\ Accept("write")
          \/ dpc = 14 + 2 * Words /\ Accept("read")
      BY <1>6, Places DEF Command
    <2>3. CASE dpc = 5
      <3>1. selected = 1 /\ Free /\ data2 = <<>> /\ ident = <<>>
        BY <1>3, <2>3 DEF BeforeWrite, FromWrite
      <3>2. Given("identify")' \/ Free'
        BY <1>1, <1>3, <2>2, <2>3, <3>1, CommandTaken
      <3> QED BY <2>1, <2>3, <3>1, <3>2 DEF BeforeWrite, Polling
    <2>4. CASE dpc = 10 + Words
      <3>1. selected = 1 /\ Free /\ data2 = <<>> /\ ident = Sector
        BY <1>3, <2>4 DEF BeforeWrite, FromWrite
      <3>2. Given("write")' \/ Free'
        BY <1>1, <1>3, <2>2, <2>4, <3>1, CommandTaken
      <3> QED BY <2>1, <2>4, <3>1, <3>2 DEF BeforeWrite, Polling
    <2>5. CASE dpc = 14 + 2 * Words
      <3>1. selected = 1 /\ Free /\ data2 = <<>> /\ ident = Sector /\ sector = Sector
            /\ state[1] = "idle"
        BY <1>3, <2>5 DEF BeforeWrite, FromWrite
      <3>2. Given("read")'
        BY <1>1, <1>3, <2>2, <2>5, <3>1, CommandTaken
      <3> QED BY <2>1, <2>5, <3>1, <3>2 DEF FromWrite, Polling
    <2> QED BY <2>2, <2>3, <2>4, <2>5
  <1>7. CASE Wait
    <2>1. UNCHANGED <<ident, data2, selected, state, command, left, sector>>
      BY <1>7 DEF Wait, driveVars
    <2>2. (UNCHANGED dpc /\ timer > 0) \/ dpc' = dpc + 1
      BY <1>7 DEF Wait, Advance
    <2>3. CASE dpc \in {2, 3}
      <3>1. Free /\ data2 = <<>> /\ ident = <<>>
        BY <1>3, <2>3 DEF BeforeWrite, FromWrite
      <3> QED BY <2>1, <2>2, <2>3, <3>1 DEF BeforeWrite, Free
    <2>4. CASE dpc \in {6, 11 + Words, 15 + 2 * Words}
      <3>1. Arg = "DRQ" /\ selected = 1
        BY <1>3, <1>7, <2>4, Places DEF Wait, BeforeWrite, FromWrite
      <3>2. timer = Patience => state[1] = "drq"
        BY <1>3, <1>7, <3>1 DEF Wait, Shows, Here
      <3>3. \A c : Polling(c) \/ (timer = Patience /\ Free) => Ready(c, Words)
        BY <3>2 DEF Polling, Given, Free, Ready
      <3>4. \A c, n : Ready(c, n) => Ready(c, n)'
        BY <2>1 DEF Ready
      <3>5. Words - 0 = Words /\ Words + 6 >= 7
        OBVIOUS
      <3>6. CASE dpc = 6
        <4>1. data2 = <<>> /\ ident = <<>> /\ Ready("identify", Words)
          BY <1>3, <3>3, <3>6 DEF BeforeWrite, FromWrite
        <4>2. data2' = <<>> /\ ident' = <<>> /\ Ready("identify", Words)' /\ selected' = 1
          BY <2>1, <3>1, <3>4, <4>1
        <4>3. CASE dpc' = 6
          BY <4>2, <4>3 DEF BeforeWrite, Polling
        <4>4. CASE dpc' = 7
          BY <4>2, <4>4, FirstWords DEF BeforeWrite
        <4> QED BY <2>2, <3>6, <4>3, <4>4
      <3>7. CASE dpc = 11 + Words
        <4>1. data2 = <<>> /\ ident = Sector /\ Ready("write", Words)
          BY <1>3, <3>3, <3>7 DEF BeforeWrite, FromWrite
        <4>2. data2' = <<>> /\ ident' = Sector /\ Ready("write", Words)' /\ selected' = 1
          BY <2>1, <3>1, <3>4, <4>1
        <4>3. CASE dpc' = 11 + Words
          BY <4>2, <4>3 DEF BeforeWrite, Polling
        <4>4. CASE dpc' = 12 + Words
          BY <4>2, <4>4 DEF BeforeWrite
        <4> QED BY <2>2, <3>7, <4>3, <4>4
      <3>8. CASE dpc = 15 + 2 * Words
        <4>1. data2 = <<>> /\ ident = Sector /\ sector = Sector /\ Ready("read", Words)
          BY <1>3, <3>3, <3>8 DEF BeforeWrite, FromWrite
        <4>2. /\ data2' = <<>> /\ ident' = Sector /\ sector' = Sector
              /\ Ready("read", Words)' /\ selected' = 1
          BY <2>1, <3>1, <3>4, <4>1
        <4>3. CASE dpc' = 15 + 2 * Words
          BY <4>2, <4>3 DEF FromWrite, Polling
        <4>4. CASE dpc' = 16 + 2 * Words
          BY <4>2, <4>4, FirstWords DEF FromWrite
        <4> QED BY <2>2, <3>8, <4>3, <4>4
      <3> QED BY <2>4, <3>6, <3>7, <3>8
    <2> QED BY <1>7, <2>3, <2>4, Places DEF Wait
  <1>8. CASE Poll
    <2>1. dpc = 12 + 2 * Words /\ UNCHANGED <<ident, data2, selected, state, command, left, sector>>
      BY <1>8, Places DEF Poll, driveVars
    <2>2. Free /\ ident = Sector /\ sector = Sector /\ selected = 1 /\ data2 = <<>>
      BY <1>3, <2>1 DEF BeforeWrite, FromWrite
    <2>3. UNCHANGED dpc \/ (dpc' = 13 + 2 * Words /\ state[1] = "idle")
      BY <1>1, <1>3, <1>8, <2>1, <2>2 DEF Poll, Shows, Here, Advance, Free, DiskType
    <2> QED BY <2>1, <2>2, <2>3 DEF FromWrite, Free
  <1>9. CASE In
    <2>1. UNCHANGED <<selected, sector>> /\ dpc' = dpc + 1
      BY <1>9 DEF In, Advance
    <2>2. CASE dpc \in 7 .. 6 + Words
      <3>1. PICK k \in 0 .. Words - 1 : dpc = 7 + k
        BY <2>2
      <3>2. /\ selected = 1 /\ data2 = <<>> /\ ident = First(k)
            /\ Ready("identify", Words - k)
        <4>1. dpc - 7 = k
          BY <3>1
        <4> QED BY <1>3, <2>2, <4>1 DEF BeforeWrite, FromWrite
      <3>3. Arg = "ident"
        BY <1>9, <2>2, Places DEF In
      <3>4. Shows("DRQ") /\ Here /\ command[selected] = "identify" /\ NextWord = k + 1
        BY <1>3, <3>1, <3>2 DEF Shows, Here, Ready, NextWord
      <3>5. Transferred /\ ident' = Append(ident, Sector[k + 1]) /\ UNCHANGED data2
        BY <1>9, <3>3, <3>4 DEF In
      <3>6. Sector[k + 1] = k + 1
        BY <3>1 DEF Sector
      <3>7. ident' = First(k + 1)
        <4>1. Append(First(k), k + 1) = First(k + 1)
          BY <3>1 DEF First
        <4>2. ident' = Append(First(k), k + 1)
          BY <3>2, <3>5, <3>6
        <4> QED BY <4>1, <4>2
      <3>8. /\ Words - k > 1 => Ready("identify", Words - k - 1)'
            /\ Words - k = 1 => Free'
        BY <1>1, <3>1, <3>2, <3>5, WordThrough
      <3>9. CASE k + 1 < Words
        <4>1. dpc' \in 7 .. 6 + Words /\ dpc' - 7 = k + 1 /\ Words - (dpc' - 7) = Words - k - 1
          BY <2>1, <3>1, <3>9
        <4>2. Ready("identify", Words - k - 1)'
          BY <3>1, <3>8, <3>9
        <4> QED BY <2>1, <3>2, <3>5, <3>7, <4>1, <4>2 DEF BeforeWrite, Ready
      <3>10. CASE k + 1 = Words
        <4>1. dpc' = 7 + Words /\ Free'
          BY <2>1, <3>1, <3>8, <3>10
        <4>2. ident' = Sector
          BY <3>7, <3>10, FirstWords
        <4> QED BY <3>2, <3>5, <4>1, <4>2 DEF BeforeWrite, Sector
      <3> QED BY <3>1, <3>9, <3>10
    <2>3. CASE dpc \in 16 + 2 * Words .. 15 + 3 * Words
      <3>1. PICK k \in 0 .. Words - 1 : dpc = 16 + 2 * Words + k
        <4>1. dpc - 16 - 2 * Words \in 0 .. Words - 1
          BY <2>3
        <4> QED BY <2>3, <4>1
      <3>2. /\ selected = 1 /\ ident = Sector /\ sector = Sector /\ data2 = First(k)
            /\ Ready("read", Words - k)
        <4>1. dpc - 16 - 2 * Words = k
          BY <3>1
        <4> QED BY <1>3, <2>3, <4>1 DEF BeforeWrite, FromWrite
      <3>3. Arg = "data2"
        BY <1>9, <2>3, Places DEF In
      <3>4. Shows("DRQ") /\ Here /\ command[selected] = "read" /\ NextWord = k + 1
        BY <1>3, <3>1, <3>2 DEF Shows, Here, Ready, NextWord
      <3>5. Transferred /\ data2' = Append(data2, sector[k + 1]) /\ UNCHANGED ident
        BY <1>9, <3>3, <3>4 DEF In
      <3>6. sector[k + 1] = k + 1
        BY <3>1, <3>2 DEF Sector
      <3>7. data2' = First(k + 1)
        <4>1. Append(First(k), k + 1) = First(k + 1)
          BY <3>1 DEF First
        <4>2. data2' = Append(First(k), k + 1)
          BY <3>2, <3>5, <3>6
        <4> QED BY <4>1, <4>2
      <3>8. /\ Words - k > 1 => Ready("read", Words - k - 1)'
            /\ Words - k = 1 => Free'
        BY <1>1, <3>1, <3>2, <3>5, WordThrough
      <3>9. CASE k + 1 < Words
        <4>1. /\ dpc' \in 16 + 2 * Words .. 15 + 3 * Words
              /\ dpc' - 16 - 2 * Words = k + 1 /\ Words - (dpc' - 16 - 2 * Words) = Words - k - 1
          BY <2>1, <3>1, <3>9
        <4>2. Ready("read", Words - k - 1)'
          BY <3>1, <3>8, <3>9
        <4> QED BY <2>1, <3>2, <3>5, <3>7, <4>1, <4>2 DEF FromWrite, Ready
      <3>10. CASE k + 1 = Words
        <4>1. dpc' = 16 + 3 * Words
          BY <2>1, <3>1, <3>10
        <4>2. data2' = Sector
          BY <3>7, <3>10, FirstWords
        <4> QED BY <2>1, <3>2, <3>5, <4>1, <4>2 DEF FromWrite
      <3> QED BY <3>1, <3>9, <3>10
    <2> QED BY <1>9, <2>2, <2>3, Places DEF In
  <1>10. CASE Out
    <2>1. /\ UNCHANGED <<selected, ident, data2>> /\ dpc' = dpc + 1
          /\ dpc \in 12 + Words .. 11 + 2 * Words /\ Arg = dpc - 11 - Words
      BY <1>10, Places DEF Out, Advance
    <2>2. PICK k \in 0 .. Words - 1 : dpc = 12 + Words + k
      <3>1. dpc - 12 - Words \in 0 .. Words - 1
        BY <2>1
      <3> QED BY <2>1, <3>1
    <2>3. /\ selected = 1 /\ data2 = <<>> /\ ident = Sector
          /\ Ready("write", Words - k) /\ \A i \in 1 .. k : sector[i] = i
      <3>1. dpc - 12 - Words = k
        BY <2>2
      <3> QED BY <1>3, <2>1, <3>1 DEF BeforeWrite, FromWrite
    <2>4. Shows("DRQ") /\ Here /\ command[selected] = "write" /\ NextWord = k + 1
      BY <1>3, <2>2, <2>3 DEF Shows, Here, Ready, NextWord
    <2>5. Transferred /\ sector' = [sector EXCEPT ![k + 1] = k + 1]
      <3>1. Arg = k + 1
        BY <2>1, <2>2
      <3> QED BY <1>10, <2>4, <3>1 DEF Out
    <2>6. \A i \in 1 .. k + 1 : sector'[i] = i
      BY <1>1, <2>2, <2>3, <2>5 DEF DiskType
    <2>7. /\ Words - k > 1 => Ready("write", Words - k - 1)'
          /\ Words - k = 1 => Free'
      BY <1>1, <2>2, <2>3, <2>5, WordThrough
    <2>8. CASE k + 1 < Words
      <3>1. /\ dpc' \in 12 + Words .. 11 + 2 * Words
            /\ dpc' - 12 - Words = k + 1 /\ Words - (dpc' - 12 - Words) = Words - k - 1
        BY <2>1, <2>2, <2>8
      <3>2. Ready("write", Words - k - 1)'
        BY <2>2, <2>7, <2>8
      <3> QED BY <2>1, <2>3, <2>6, <3>1, <3>2 DEF BeforeWrite, Ready
    <2>9. CASE k + 1 = Words
      <3>1. dpc' = 12 + 2 * Words /\ Free'
        BY <2>1, <2>2, <2>7, <2>9
      <3>2. sector' = Sector
        BY <1>1, <2>6, <2>9 DEF DiskType, Sector
      <3> QED BY <2>1, <2>3, <3>1, <3>2 DEF FromWrite
    <2> QED BY <2>2, <2>8, <2>9
  <1> QED BY <1>2, <1>4, <1>5, <1>6, <1>7, <1>8, <1>9, <1>10 DEF DiskStep

LEMMA DriveCourse ==
    ASSUME DiskInv, NEW d \in {0, 1}, DriveReady(d), 1 \in present', prompt', dpc' # 0
    PROVE  (BeforeWrite \/ FromWrite)'
  <1> USE DiskAssumption
  <1>1. /\ UNCHANGED <<dpc, timer, ident, data2, selected, command, left, sector>>
        /\ 1 \in present /\ prompt /\ dpc # 0 /\ DiskType
    BY DEF DriveReady, kernelVars, DiskInv
  <1>2. state'[1] = IF d = 1 THEN IF command[1] = "none" THEN "idle" ELSE "drq" ELSE state[1]
    BY <1>1 DEF DriveReady, DiskType
  <1>3. /\ Free => Free' /\ (state[1] = "idle" => state'[1] = "idle")
        /\ \A c, n : Ready(c, n) => Ready(c, n)'
    BY <1>1, <1>2 DEF DriveReady, Free, Ready
  <1>4. \A c \in {"identify", "write", "read"} : Polling(c) => Polling(c)'
    BY <1>1, <1>2 DEF Polling, Given, Ready, DriveReady
  <1>5. CASE BeforeWrite
    BY <1>1, <1>3, <1>4, <1>5 DEF BeforeWrite
  <1>6. CASE FromWrite
    BY <1>1, <1>3, <1>4, <1>6 DEF FromWrite
  <1> QED BY <1>1, <1>5, <1>6 DEF DiskInv

LEMMA DiskInductive == DiskInv /\ [Next]_vars => DiskInv'
  <1> SUFFICES ASSUME DiskInv, [Next]_vars PROVE DiskInv'
    OBVIOUS
  <1> USE DiskAssumption
  <1>1. CASE UNCHANGED diskVars
    BY <1>1 DEF DiskInv, DiskType, DiskInit, BeforeWrite, FromWrite, Free, Polling, Given, Ready,
           diskVars, kernelVars, driveVars
  <1>2. CASE DiskStep
    <2>1. DiskType'
      BY <1>2, DiskTypeStays DEF DiskInv
    <2>2. dpc' # 0
      <3>1. dpc' = 1 \/ (dpc \in 1 .. 15 + 3 * Words /\ (dpc' = dpc + 1 \/ dpc' = dpc))
        BY <1>2, Places DEF DiskStep, BeginTest, Reset, Select, Command, Wait, Poll, In, Out, Advance
      <3> QED BY <3>1
    <2>3. ASSUME prompt', 1 \in present'
          PROVE  (BeforeWrite \/ FromWrite)'
      <3>1. CASE dpc = 0
        <4>1. BeginTest
          BY <1>2, <3>1, Places DEF DiskStep, Reset, Select, Command, Wait, Poll, In, Out
        <4> QED BY <3>1, <4>1 DEF BeginTest, DiskInv, DiskInit, driveVars, BeforeWrite, Free
      <3> QED BY <1>2, <2>3, <3>1, DiskCourse
    <2> QED BY <2>1, <2>2, <2>3 DEF DiskInv
  <1>3. CASE EndTest
    <2>1. DiskInit'
      BY <1>3 DEF EndTest, DiskInit
    <2> QED BY <1>3, <2>1, DiskTypeStays DEF DiskInv, EndTest
  <1>4. CASE \E d \in present : DriveReady(d)
    <2>1. PICK d \in {0, 1} : DriveReady(d) /\ d \in present
      BY <1>4 DEF DiskInv, DiskType
    <2>2. DiskType'
      BY <2>1, DiskTypeStays DEF DiskInv
    <2>3. dpc' # 0
      BY <2>1 DEF DriveReady, kernelVars, DiskInv, DiskInit
    <2> QED BY <2>1, <2>2, <2>3, DriveCourse DEF DiskInv
  <1> QED BY <1>1, <1>2, <1>3, <1>4 DEF Next, vars, kmain, Test, ReadTime, Delay, RunTasks,
             TimerTick, Drive, ChipStarts, ChipEnds

\* The words IDENTIFY gives, and the sector, come through whole.
THEOREM SectorComesBack == Spec => []ReadBack
  <1>1. Init => DiskInv
    BY DiskStarts DEF Init
  <1>2. DiskInv => ReadBack
    BY DiskAssumption, Script DEF DiskInv, DiskType, ReadBack, BeforeWrite, FromWrite
  <1> QED BY <1>1, <1>2, DiskInductive, PTL DEF Spec

-----------------------------------------------------------------------------
(* What holds between two instructions.                                    *)

TaskIds == 0 .. Count - 1

TaskType ==
    /\ cpu \in [Registers -> Int] /\ mem \in [Memory -> Int]
    /\ running \in TaskIds /\ link \in [TaskIds -> Int]
    /\ made \in 0 .. Count /\ readyByte \in BOOLEAN /\ frame \in {0, FrameWords}
    /\ expected \in [TaskIds -> [Registers -> Int]]

\* The task k_preempt switched from.
From == IF running = 0 THEN Count - 1 ELSE running - 1

\* A task's registers are in its TaskRegisters.
Block(u) ==
    /\ mem[regs(u)] = expected[u].eax          /\ mem[regs(u) + 1] = expected[u].ebx
    /\ mem[regs(u) + 2] = expected[u].ecx      /\ mem[regs(u) + 3] = expected[u].edx
    /\ mem[regs(u) + 4] = expected[u].esi      /\ mem[regs(u) + 5] = expected[u].edi
    /\ mem[regs(u) + 6] = expected[u].esp      /\ mem[regs(u) + 7] = expected[u].ebp
    /\ mem[regs(u) + 8] = expected[u].eip      /\ mem[regs(u) + 9] = expected[u].eflags
    /\ mem[regs(u) + 10] = expected[u].cr3

\* It has not begun, or is in k_preempt with its local word on its stack.
Preempted(u) ==
    /\ expected[u].esp = StackTop(u) - 3 /\ expected[u].eip = Returned
    /\ mem[StackTop(u) - 1] = -2 - u
Kept(u) == Preempted(u) \/ (expected[u].esp = StackTop(u) /\ expected[u].eip = Handler(u))

\* The first half of switchTask, on the stack of the task t that called it: what
\* each instruction finds there, in the registers and in t's TaskRegisters.
LeavingStack(t) ==
    LET p == cpu.eip IN LET top == StackTop(t) IN
    /\ p = 1 => cpu.esp = top - 4
    /\ p = 2 => cpu.esp = top - 12
    /\ p \in {3, 4, 23, 24} => cpu.esp = top - 13
    /\ p \in 5 .. 22 \/ p = 25 => cpu.esp = top - 14
    /\ mem[top - 4] = Returned /\ mem[top - 3] = regs(t) /\ mem[top - 2] = regs(running)
    /\ p >= 2 => /\ mem[top - 5] = expected[t].eax /\ mem[top - 9] = top - 4
                 /\ mem[top - 10] = expected[t].ebp
    /\ p >= 3 => mem[top - 13] = expected[t].eflags
    /\ p \in 5 .. 22 => mem[top - 14] = expected[t].cr3
LeavingRegisters(t) ==
    LET p == cpu.eip IN
    /\ p = 1 => cpu.eax = expected[t].eax /\ cpu.ebp = expected[t].ebp
    /\ p \in 1 .. 2 => cpu.eflags = expected[t].eflags
    /\ p \in 1 .. 3 => cpu.cr3 = expected[t].cr3
    /\ p = 4 => cpu.eax = expected[t].cr3
    /\ p \in 6 .. 25 => cpu.eax = regs(t)
    /\ p \in 1 .. 11 => /\ cpu.ebx = expected[t].ebx /\ cpu.ecx = expected[t].ecx
                        /\ cpu.edx = expected[t].edx /\ cpu.esi = expected[t].esi
                        /\ cpu.edi = expected[t].edi
    /\ p \in 12 .. 22 => cpu.ebx = expected[t].eax
    /\ p = 23 => cpu.ebx = expected[t].cr3
    /\ p \in 13 .. 25 => cpu.ecx = Returned
    /\ p \in 14 .. 25 => cpu.esi = expected[t].ebp
    /\ p \in 15 .. 25 => cpu.edi = expected[t].eflags
    /\ p = 16 => cpu.edx = StackTop(t) - 4
    /\ p \in 17 .. 25 => cpu.edx = StackTop(t) - 3
LeavingBlock(t) ==
    LET p == cpu.eip IN
    /\ p >= 7  => mem[regs(t) + 1] = expected[t].ebx
    /\ p >= 8  => mem[regs(t) + 2] = expected[t].ecx
    /\ p >= 9  => mem[regs(t) + 3] = expected[t].edx
    /\ p >= 10 => mem[regs(t) + 4] = expected[t].esi
    /\ p >= 11 => mem[regs(t) + 5] = expected[t].edi
    /\ p >= 18 => mem[regs(t)] = expected[t].eax
    /\ p >= 19 => mem[regs(t) + 6] = expected[t].esp
    /\ p >= 20 => mem[regs(t) + 7] = expected[t].ebp
    /\ p >= 21 => mem[regs(t) + 8] = expected[t].eip
    /\ p >= 22 => mem[regs(t) + 9] = expected[t].eflags
    /\ p >= 24 => mem[regs(t) + 10] = expected[t].cr3

\* The second half: the task n goes on, from instruction 38 with its own stack.
ArrivingStack(n) ==
    LET p == cpu.eip IN LET top == StackTop(From) IN LET sp == expected[n].esp IN
    /\ p \in 26 .. 32 \/ p = 37 => cpu.esp = top - 14
    /\ p \in {33, 34, 36} => cpu.esp = top - 15
    /\ p = 35 => cpu.esp = top - 16 /\ mem[top - 16] = expected[n].eflags
    /\ p \in 33 .. 36 => mem[top - 15] = regs(n)
    /\ p \in {38, 42} => cpu.esp = sp
    /\ p \in 39 .. 41 \/ p \in 43 .. 46 => cpu.esp = sp - 1
    /\ p \in 39 .. 41 \/ p \in 43 .. 44 => mem[sp - 1] = regs(n)
    /\ p \in 45 .. 46 => mem[sp - 1] = expected[n].eip
ArrivingRegisters(n) ==
    LET p == cpu.eip IN
    /\ p \in 26 .. 33 \/ p \in {37, 38, 39, 42, 43, 45} => cpu.eax = regs(n)
    /\ p = 34 => cpu.eax = expected[n].eflags
    /\ p = 40 => cpu.eax = expected[n].cr3
    /\ p = 44 => cpu.eax = expected[n].eip
    /\ p = 46 => cpu.eax = expected[n].eax
    /\ p >= 27 => cpu.ebx = expected[n].ebx
    /\ p >= 28 => cpu.ecx = expected[n].ecx
    /\ p >= 29 => cpu.edx = expected[n].edx
    /\ p >= 30 => cpu.esi = expected[n].esi
    /\ p >= 31 => cpu.edi = expected[n].edi
    /\ p >= 32 => cpu.ebp = expected[n].ebp
    /\ p >= 36 => cpu.eflags = expected[n].eflags
    /\ p >= 41 => cpu.cr3 = expected[n].cr3

\* The task whose TaskRegisters are not its registers now, if any.
Busy == CASE InTask -> running
          [] cpu.eip \in 1 .. 23 -> From
          [] OTHER -> -1

TasksInv ==
    /\ TaskType
    /\ \A u \in TaskIds : link[u] = IF u < made - 1 THEN u + 1 ELSE -1
    /\ \A u \in TaskIds : u < made \/ u = 0 => Kept(u)
    /\ \A u \in TaskIds : u < made /\ u # Busy => Block(u)
    /\ made < Count => running = 0 /\ cpu.eip = Handler(0)
    /\ InTask => cpu = expected[running]
    /\ ~InTask => Preempted(From) /\ readyByte
    /\ cpu.eip \in 1 .. 25 => LeavingStack(From) /\ LeavingRegisters(From) /\ LeavingBlock(From)
    /\ cpu.eip \in 26 .. 46 => ArrivingStack(running) /\ ArrivingRegisters(running)

-----------------------------------------------------------------------------
(* Addresses.                                                              *)

LEMMA Multiple == \A n, m, s \in Nat : n <= m => n * s <= m * s
  OBVIOUS

\* The stacks lie above the TaskRegisters, and each has its own words.
LEMMA StacksApart ==
    /\ \A u \in TaskIds : /\ StackTop(u) \in Nat /\ StackTop(u) <= StackTop(Count - 1)
                          /\ StackTop(u) >= 11 * Count + StackWords
    /\ \A u, v \in TaskIds : u < v => StackTop(u) + StackWords <= StackTop(v)
    /\ StackWords >= FrameWords + 17 /\ FrameWords \in Nat /\ StackWords \in Nat
    /\ Count \in Nat /\ Count >= 2
  <1>0. /\ StackWords >= FrameWords + 17 /\ FrameWords \in Nat /\ StackWords \in Nat
        /\ Count \in Nat /\ Count >= 2
    BY TasksAssumption
  <1>1. ASSUME NEW u \in TaskIds
        PROVE  StackTop(u) \in Nat /\ StackTop(u) >= 11 * Count + StackWords
    <2>1. u + 1 \in Nat /\ 1 <= u + 1 /\ (u + 1) * StackWords \in Nat
      BY <1>0 DEF TaskIds
    <2>2. 1 * StackWords <= (u + 1) * StackWords
      BY <1>0, <2>1, Multiple
    <2> QED BY <1>0, <2>1, <2>2 DEF StackTop
  <1>2. ASSUME NEW u \in TaskIds, NEW v \in TaskIds, u < v
        PROVE  StackTop(u) + StackWords <= StackTop(v)
    <2>1. /\ u + 2 \in Nat /\ v + 1 \in Nat /\ u + 2 <= v + 1
          /\ (u + 2) * StackWords \in Nat /\ (v + 1) * StackWords \in Nat
      BY <1>0, <1>2 DEF TaskIds
    <2>2. (u + 2) * StackWords <= (v + 1) * StackWords
      BY <1>0, <2>1, Multiple
    <2>3. (u + 2) * StackWords = (u + 1) * StackWords + StackWords
      BY <1>0 DEF TaskIds
    <2>4. (u + 1) * StackWords \in Nat
      BY <1>0 DEF TaskIds
    <2> QED BY <1>0, <2>1, <2>2, <2>3, <2>4 DEF StackTop
  <1>3. ASSUME NEW u \in TaskIds
        PROVE  StackTop(u) <= StackTop(Count - 1)
    <2>1. Count - 1 \in TaskIds /\ (u = Count - 1 \/ u < Count - 1)
      BY <1>0 DEF TaskIds
    <2>2. StackTop(u) \in Nat /\ StackTop(Count - 1) \in Nat
      BY <1>1, <2>1
    <2>3. u < Count - 1 => StackTop(u) + StackWords <= StackTop(Count - 1)
      BY <1>2, <2>1
    <2> QED BY <1>0, <2>1, <2>2, <2>3
  <1> QED BY <1>0, <1>1, <1>2, <1>3

LEMMA Blocks ==
    /\ \A u \in TaskIds : regs(u) \in Nat /\ regs(u) + 11 <= 11 * Count
    /\ \A u, v \in TaskIds : u # v => regs(u) + 11 <= regs(v) \/ regs(v) + 11 <= regs(u)
  BY TasksAssumption DEF regs, TaskIds

LEMMA RegisterNames ==
    Registers = {"eax", "ebx", "ecx", "edx", "esi", "edi", "esp", "ebp", "eip", "eflags", "cr3"}
  BY DEF Registers, Slots

LEMMA SlotNumbers ==
    \A t \in TaskIds : /\ Slot(t, "ebp") = regs(t) + 7 /\ Slot(t, "eflags") = regs(t) + 9
                      /\ Slot(t, "cr3") = regs(t) + 10
  <1>1. \A i \in 1 .. 11 : i \in {1, 2, 3, 4, 5, 6, 7, 8, 9, 10, 11}
    OBVIOUS
  <1>2. /\ \A i \in 1 .. 11 : (Slots[i] = "ebp") <=> (i = 8)
        /\ \A i \in 1 .. 11 : (Slots[i] = "eflags") <=> (i = 10)
        /\ \A i \in 1 .. 11 : (Slots[i] = "cr3") <=> (i = 11)
    BY <1>1 DEF Slots
  <1>3. /\ (CHOOSE i \in 1 .. 11 : Slots[i] = "ebp") = 8
        /\ (CHOOSE i \in 1 .. 11 : Slots[i] = "eflags") = 10
        /\ (CHOOSE i \in 1 .. 11 : Slots[i] = "cr3") = 11
    BY <1>2
  <1>4. TAKE t \in TaskIds
  <1>5. /\ Slot(t, "ebp") = regs(t) + 8 - 1 /\ Slot(t, "eflags") = regs(t) + 10 - 1
        /\ Slot(t, "cr3") = regs(t) + 11 - 1
    BY <1>3, Zenon DEF Slot
  <1>6. regs(t) \in Nat
    BY Blocks
  <1> QED BY <1>5, <1>6

-----------------------------------------------------------------------------
(* The program.                                                            *)

LEMMA Program ==
    /\ Len(switchTask) = 46
    /\ switchTask[1] = Pusha /\ switchTask[2] = Push("eflags")
    /\ switchTask[3] = Mov("eax", "cr3") /\ switchTask[4] = Push("eax")
    /\ switchTask[5] = Load("eax", "esp", 44) /\ switchTask[6] = Store("eax", 4, "ebx")
    /\ switchTask[7] = Store("eax", 8, "ecx") /\ switchTask[8] = Store("eax", 12, "edx")
    /\ switchTask[9] = Store("eax", 16, "esi") /\ switchTask[10] = Store("eax", 20, "edi")
    /\ switchTask[11] = Load("ebx", "esp", 36) /\ switchTask[12] = Load("ecx", "esp", 40)
    /\ switchTask[13] = Load("esi", "esp", 16) /\ switchTask[14] = Load("edi", "esp", 4)
    /\ switchTask[15] = Load("edx", "esp", 20) /\ switchTask[16] = AddTo("edx", 4)
    /\ switchTask[17] = Store("eax", 0, "ebx") /\ switchTask[18] = Store("eax", 24, "edx")
    /\ switchTask[19] = Store("eax", 28, "esi") /\ switchTask[20] = Store("eax", 32, "ecx")
    /\ switchTask[21] = Store("eax", 36, "edi") /\ switchTask[22] = Pop("ebx")
    /\ switchTask[23] = Store("eax", 40, "ebx") /\ switchTask[24] = Push("ebx")
    /\ switchTask[25] = Load("eax", "esp", 48) /\ switchTask[26] = Load("ebx", "eax", 4)
    /\ switchTask[27] = Load("ecx", "eax", 8) /\ switchTask[28] = Load("edx", "eax", 12)
    /\ switchTask[29] = Load("esi", "eax", 16) /\ switchTask[30] = Load("edi", "eax", 20)
    /\ switchTask[31] = Load("ebp", "eax", 28) /\ switchTask[32] = Push("eax")
    /\ switchTask[33] = Load("eax", "eax", 36) /\ switchTask[34] = Push("eax")
    /\ switchTask[35] = Pop("eflags") /\ switchTask[36] = Pop("eax")
    /\ switchTask[37] = Load("esp", "eax", 24) /\ switchTask[38] = Push("eax")
    /\ switchTask[39] = Load("eax", "eax", 40) /\ switchTask[40] = Mov("cr3", "eax")
    /\ switchTask[41] = Pop("eax") /\ switchTask[42] = Push("eax")
    /\ switchTask[43] = Load("eax", "eax", 32) /\ switchTask[44] = Exchange("eax")
    /\ switchTask[45] = Load("eax", "eax", 0) /\ switchTask[46] = Ret
  <1>1. /\ switchTask[1] = Pusha /\ switchTask[2] = Push("eflags")
        /\ switchTask[3] = Mov("eax", "cr3") /\ switchTask[4] = Push("eax")
    BY DEF switchTask, Save, Restore
  <1>2. /\ switchTask[5] = Load("eax", "esp", 44) /\ switchTask[6] = Store("eax", 4, "ebx")
        /\ switchTask[7] = Store("eax", 8, "ecx") /\ switchTask[8] = Store("eax", 12, "edx")
        /\ switchTask[9] = Store("eax", 16, "esi") /\ switchTask[10] = Store("eax", 20, "edi")
        /\ switchTask[11] = Load("ebx", "esp", 36) /\ switchTask[12] = Load("ecx", "esp", 40)
        /\ switchTask[13] = Load("esi", "esp", 16) /\ switchTask[14] = Load("edi", "esp", 4)
    BY DEF switchTask, Save, Restore
  <1>3. /\ switchTask[15] = Load("edx", "esp", 20) /\ switchTask[16] = AddTo("edx", 4)
        /\ switchTask[17] = Store("eax", 0, "ebx") /\ switchTask[18] = Store("eax", 24, "edx")
        /\ switchTask[19] = Store("eax", 28, "esi") /\ switchTask[20] = Store("eax", 32, "ecx")
        /\ switchTask[21] = Store("eax", 36, "edi") /\ switchTask[22] = Pop("ebx")
        /\ switchTask[23] = Store("eax", 40, "ebx") /\ switchTask[24] = Push("ebx")
    BY DEF switchTask, Save, Restore
  <1>4. /\ switchTask[25] = Load("eax", "esp", 48) /\ switchTask[26] = Load("ebx", "eax", 4)
        /\ switchTask[27] = Load("ecx", "eax", 8) /\ switchTask[28] = Load("edx", "eax", 12)
        /\ switchTask[29] = Load("esi", "eax", 16) /\ switchTask[30] = Load("edi", "eax", 20)
        /\ switchTask[31] = Load("ebp", "eax", 28) /\ switchTask[32] = Push("eax")
        /\ switchTask[33] = Load("eax", "eax", 36) /\ switchTask[34] = Push("eax")
        /\ switchTask[35] = Pop("eflags") /\ switchTask[36] = Pop("eax")
    BY DEF switchTask, Save, Restore
  <1>5. /\ switchTask[37] = Load("esp", "eax", 24) /\ switchTask[38] = Push("eax")
        /\ switchTask[39] = Load("eax", "eax", 40) /\ switchTask[40] = Mov("cr3", "eax")
        /\ switchTask[41] = Pop("eax") /\ switchTask[42] = Push("eax")
        /\ switchTask[43] = Load("eax", "eax", 32) /\ switchTask[44] = Exchange("eax")
        /\ switchTask[45] = Load("eax", "eax", 0) /\ switchTask[46] = Ret
    BY DEF switchTask, Save, Restore
  <1>6. Len(switchTask) = 46
    BY DEF switchTask, Save, Restore
  <1> QED BY <1>1, <1>2, <1>3, <1>4, <1>5, <1>6

-----------------------------------------------------------------------------
(* What one instruction does, and the interrupt that may follow it.        *)

\* The memory stays but for the words from low to high.
Elsewhere(low, high) == \A a \in Memory : a < low \/ a > high => mem'[a] = mem[a]

\* The register r is word afterwards, and the others are what they were.
Sets(r, word) ==
    /\ cpu' \in [Registers -> Int] /\ cpu'.eip = cpu.eip + 1 /\ cpu'[r] = word
    /\ \A q \in Registers \ {"eip", r} : cpu'[q] = cpu[q]

LEMMA Setting ==
    ASSUME TaskType, NEW r \in Registers \ {"eip"}, NEW word \in Int,
           cpu' = [cpu EXCEPT ![r] = word, !["eip"] = cpu["eip"] + 1]
    PROVE  Sets(r, word)
  <1>1. cpu \in [Registers -> Int] /\ "eip" \in Registers /\ cpu["eip"] + 1 \in Int
    BY RegisterNames DEF TaskType
  <1> QED BY <1>1 DEF Sets

LEMMA Runs ==
    ASSUME Instruction, NEW i, switchTask[cpu.eip] = i
    PROVE  cpu' = Executed(i) /\ mem' = Spoiled(cpu'.esp, Written(i))
  BY DEF Instruction

LEMMA Interrupted ==
    ASSUME TaskType, NEW esp \in Int, NEW memory \in [Memory -> Int], mem' = Spoiled(esp, memory)
    PROVE  /\ mem' \in [Memory -> Int]
           /\ \A a \in Memory : a < esp - FrameWords \/ a >= esp => mem'[a] = memory[a]
  BY TasksAssumption DEF Spoiled, TaskType

LEMMA PushRuns ==
    ASSUME TaskType, Instruction, NEW r \in Registers \ {"esp", "eip"},
           switchTask[cpu.eip] = Push(r), cpu.esp - 1 \in Memory
    PROVE  /\ Sets("esp", cpu.esp - 1)
           /\ mem' \in [Memory -> Int] /\ mem'[cpu.esp - 1] = cpu[r]
           /\ Elsewhere(cpu.esp - 1 - FrameWords, cpu.esp - 1)
  <1>0. cpu.esp \in Int /\ cpu.eip \in Int /\ cpu[r] \in Int /\ FrameWords \in Nat
    BY TasksAssumption, RegisterNames DEF TaskType
  <1> DEFINE memory == [mem EXCEPT ![cpu.esp - 1] = cpu[r]]
             low == cpu.esp - 1
  <1>1. cpu' = Executed(Push(r)) /\ mem' = Spoiled(cpu'.esp, Written(Push(r)))
    BY Runs
  <1>2. cpu' = [cpu EXCEPT !.esp = cpu.esp - 1, !.eip = cpu.eip + 1]
    BY <1>1 DEF Executed, Push
  <1>3. cpu'.esp = low /\ low \in Int
    BY <1>0, <1>2, RegisterNames DEF TaskType
  <1>4. Written(Push(r)) = memory
    BY DEF Written, Push
  <1>5. memory \in [Memory -> Int]
    BY <1>0 DEF TaskType
  <1>6. memory[low] = cpu[r] /\ \A a \in Memory : a # low => memory[a] = mem[a]
    BY <1>0 DEF TaskType
  <1>7. mem' = Spoiled(low, memory)
    BY <1>1, <1>3, <1>4
  <1> HIDE DEF memory
  <1>8. /\ mem' \in [Memory -> Int]
        /\ \A a \in Memory : a < low - FrameWords \/ a >= low => mem'[a] = memory[a]
    BY <1>3, <1>5, <1>7, Interrupted
  <1>9. Sets("esp", cpu.esp - 1)
    <2>1. "esp" \in Registers \ {"eip"} /\ cpu.esp - 1 \in Int
      BY <1>0, RegisterNames
    <2>2. cpu' = [cpu EXCEPT !["esp"] = cpu.esp - 1, !["eip"] = cpu["eip"] + 1]
      BY <1>2
    <2> QED BY <2>1, <2>2, Setting
  <1> QED BY <1>0, <1>6, <1>8, <1>9 DEF Elsewhere, Memory

\* The instructions that write nothing.
LEMMA ReadingRuns ==
    ASSUME TaskType, Instruction, NEW i, switchTask[cpu.eip] = i, Written(i) = mem,
           cpu'.esp \in Int
    PROVE  mem' \in [Memory -> Int] /\ Elsewhere(cpu'.esp - FrameWords, cpu'.esp - 1)
  <1> DEFINE esp == cpu'.esp
  <1>1. esp \in Int /\ mem' = Spoiled(esp, mem) /\ mem \in [Memory -> Int] /\ FrameWords \in Nat
    BY TasksAssumption, Runs DEF TaskType
  <1> HIDE DEF esp
  <1>2. /\ mem' \in [Memory -> Int]
        /\ \A a \in Memory : a < esp - FrameWords \/ a >= esp => mem'[a] = mem[a]
    BY <1>1, Interrupted
  <1>3. \A a \in Memory : a > esp - 1 => a >= esp
    BY <1>1 DEF Memory
  <1> QED BY <1>2, <1>3 DEF Elsewhere, esp

LEMMA MovRuns ==
    ASSUME TaskType, Instruction, NEW r \in Registers \ {"esp", "eip"}, NEW s \in Registers,
           switchTask[cpu.eip] = Mov(r, s)
    PROVE  /\ Sets(r, cpu[s])
           /\ mem' \in [Memory -> Int] /\ Elsewhere(cpu.esp - FrameWords, cpu.esp - 1)
  <1>1. cpu' = Executed(Mov(r, s)) /\ Written(Mov(r, s)) = mem
    BY Runs DEF Written, Mov
  <1>2. cpu' = [cpu EXCEPT ![r] = cpu[s], !.eip = cpu.eip + 1]
    BY <1>1 DEF Executed, Mov
  <1>3. Sets(r, cpu[s])
    <2>1. cpu[s] \in Int
      BY DEF TaskType
    <2> QED BY <1>2, <2>1, Setting
  <1>4. cpu'.esp = cpu.esp /\ cpu.esp \in Int
    BY <1>3, RegisterNames DEF Sets, TaskType
  <1> QED BY <1>1, <1>3, <1>4, ReadingRuns

LEMMA AddRuns ==
    ASSUME TaskType, Instruction, NEW r \in Registers \ {"esp", "eip"},
           switchTask[cpu.eip] = AddTo(r, 4)
    PROVE  /\ Sets(r, cpu[r] + 1)
           /\ mem' \in [Memory -> Int] /\ Elsewhere(cpu.esp - FrameWords, cpu.esp - 1)
  <1>1. cpu' = Executed(AddTo(r, 4)) /\ Written(AddTo(r, 4)) = mem
    BY Runs DEF Written, AddTo
  <1>2. cpu' = [cpu EXCEPT ![r] = cpu[r] + 4 \div 4, !.eip = cpu.eip + 1]
    BY <1>1 DEF Executed, AddTo
  <1>3. cpu' = [cpu EXCEPT ![r] = cpu[r] + 1, !.eip = cpu.eip + 1]
    <2>1. 4 \div 4 = 1
      OBVIOUS
    <2> QED BY <1>2, <2>1
  <1>4. Sets(r, cpu[r] + 1)
    <2>1. cpu[r] + 1 \in Int
      BY RegisterNames DEF TaskType
    <2> QED BY <1>3, <2>1, Setting
  <1>5. cpu'.esp = cpu.esp /\ cpu.esp \in Int
    BY <1>4, RegisterNames DEF Sets, TaskType
  <1> QED BY <1>1, <1>4, <1>5, ReadingRuns

LEMMA LoadRuns ==
    ASSUME TaskType, Instruction, NEW r \in Registers \ {"eip"}, NEW s \in Registers, NEW n,
           NEW k \in Nat, n \div 4 = k, switchTask[cpu.eip] = Load(r, s, n),
           NEW from \in Memory, cpu[s] + k = from
    PROVE  /\ Sets(r, mem[from]) /\ mem' \in [Memory -> Int]
           /\ Elsewhere(cpu'.esp - FrameWords, cpu'.esp - 1)
  <1>1. cpu' = Executed(Load(r, s, n)) /\ Written(Load(r, s, n)) = mem
    BY Runs DEF Written, Load
  <1>2. cpu' = [cpu EXCEPT ![r] = mem[cpu[s] + k], !.eip = cpu.eip + 1]
    BY <1>1 DEF Executed, Load
  <1>3. cpu' = [cpu EXCEPT ![r] = mem[from], !.eip = cpu.eip + 1]
    BY <1>2
  <1>4. mem[from] \in Int
    BY DEF TaskType
  <1>5. Sets(r, mem[from])
    BY <1>3, <1>4, Setting
  <1>6. cpu'.esp \in Int
    BY <1>5, RegisterNames DEF Sets
  <1> QED BY <1>1, <1>5, <1>6, ReadingRuns

LEMMA PopRuns ==
    ASSUME TaskType, Instruction, NEW r \in Registers \ {"esp", "eip"},
           switchTask[cpu.eip] = Pop(r), cpu.esp \in Memory
    PROVE  /\ cpu' \in [Registers -> Int] /\ cpu'.eip = cpu.eip + 1 /\ cpu'[r] = mem[cpu.esp]
           /\ cpu'.esp = cpu.esp + 1 /\ \A q \in Registers \ {"eip", "esp", r} : cpu'[q] = cpu[q]
           /\ mem' \in [Memory -> Int] /\ Elsewhere(cpu.esp + 1 - FrameWords, cpu.esp)
  <1>0. cpu.esp \in Int /\ FrameWords \in Nat
    BY TasksAssumption, RegisterNames DEF TaskType
  <1>1. cpu' = Executed(Pop(r)) /\ Written(Pop(r)) = mem
    BY Runs DEF Written, Pop
  <1>2. cpu' = [[cpu EXCEPT ![r] = mem[cpu.esp], !.eip = cpu.eip + 1] EXCEPT !.esp = cpu.esp + 1]
    BY <1>1 DEF Executed, Pop
  <1>3. /\ cpu' \in [Registers -> Int] /\ cpu'.eip = cpu.eip + 1 /\ cpu'[r] = mem[cpu.esp]
        /\ cpu'.esp = cpu.esp + 1 /\ \A q \in Registers \ {"eip", "esp", r} : cpu'[q] = cpu[q]
    <2> DEFINE word == mem[cpu.esp]
    <2>1. /\ cpu \in [Registers -> Int] /\ word \in Int /\ cpu["esp"] \in Int /\ cpu["eip"] \in Int
      BY RegisterNames DEF TaskType
    <2>2. cpu' = [[cpu EXCEPT ![r] = word, !["eip"] = cpu["eip"] + 1] EXCEPT !["esp"] = cpu["esp"] + 1]
      BY <1>2
    <2> HIDE DEF word
    <2>3. /\ cpu' \in [Registers -> Int] /\ cpu'["eip"] = cpu["eip"] + 1 /\ cpu'[r] = word
          /\ cpu'["esp"] = cpu["esp"] + 1
          /\ \A q \in Registers \ {"eip", "esp", r} : cpu'[q] = cpu[q]
      BY <2>1, <2>2, RegisterNames
    <2> QED BY <2>3 DEF word
  <1>4. cpu'.esp = cpu.esp + 1
    BY <1>3
  <1>5. mem' \in [Memory -> Int] /\ Elsewhere(cpu'.esp - FrameWords, cpu'.esp - 1)
    BY <1>0, <1>1, <1>4, ReadingRuns
  <1>6. cpu'.esp - FrameWords = cpu.esp + 1 - FrameWords /\ cpu'.esp - 1 = cpu.esp
    BY <1>0, <1>4
  <1> QED BY <1>3, <1>5, <1>6

LEMMA RetRuns ==
    ASSUME TaskType, Instruction, switchTask[cpu.eip] = Ret, cpu.esp \in Memory
    PROVE  /\ cpu' = [cpu EXCEPT !.eip = mem[cpu.esp], !.esp = cpu.esp + 1]
           /\ mem' \in [Memory -> Int] /\ Elsewhere(cpu.esp + 1 - FrameWords, cpu.esp)
  <1>0. cpu.esp \in Int /\ FrameWords \in Nat
    BY TasksAssumption, RegisterNames DEF TaskType
  <1>1. cpu' = Executed(Ret) /\ Written(Ret) = mem
    BY Runs DEF Written, Ret
  <1>2. cpu' = [cpu EXCEPT !.eip = mem[cpu.esp], !.esp = cpu.esp + 1]
    BY <1>1 DEF Executed, Ret
  <1>3. cpu'.esp = cpu.esp + 1
    BY <1>2, RegisterNames DEF TaskType
  <1>4. mem' \in [Memory -> Int] /\ Elsewhere(cpu'.esp - FrameWords, cpu'.esp - 1)
    BY <1>0, <1>1, <1>3, ReadingRuns
  <1>5. cpu'.esp - FrameWords = cpu.esp + 1 - FrameWords /\ cpu'.esp - 1 = cpu.esp
    BY <1>0, <1>3
  <1> QED BY <1>2, <1>4, <1>5

LEMMA StoreRuns ==
    ASSUME TaskType, Instruction, NEW r \in Registers, NEW s \in Registers, NEW n,
           NEW k \in Nat, n \div 4 = k, switchTask[cpu.eip] = Store(s, n, r),
           NEW to \in Memory, cpu[s] + k = to, to < cpu.esp - FrameWords
    PROVE  /\ cpu' = [cpu EXCEPT !.eip = cpu.eip + 1]
           /\ mem' \in [Memory -> Int] /\ mem'[to] = cpu[r]
           /\ \A a \in Memory : a # to /\ (a < cpu.esp - FrameWords \/ a >= cpu.esp)
                  => mem'[a] = mem[a]
  <1> DEFINE memory == [mem EXCEPT ![to] = cpu[r]]
             esp == cpu.esp
  <1>0. esp \in Int /\ cpu[r] \in Int /\ FrameWords \in Nat
    BY TasksAssumption, RegisterNames DEF TaskType
  <1>1. /\ cpu' = Executed(Store(s, n, r))
        /\ mem' = Spoiled(cpu'.esp, Written(Store(s, n, r)))
    BY Runs
  <1>2. cpu' = [cpu EXCEPT !.eip = cpu.eip + 1]
    BY <1>1 DEF Executed, Store
  <1>3. cpu'.esp = esp
    BY <1>2, RegisterNames DEF TaskType
  <1>4. Written(Store(s, n, r)) = memory
    BY DEF Written, Store
  <1>5. memory \in [Memory -> Int]
    BY <1>0 DEF TaskType
  <1>6. memory[to] = cpu[r] /\ \A a \in Memory : a # to => memory[a] = mem[a]
    BY <1>0 DEF TaskType
  <1>7. mem' = Spoiled(esp, memory)
    BY <1>1, <1>3, <1>4
  <1> HIDE DEF memory, esp
  <1>8. /\ mem' \in [Memory -> Int]
        /\ \A a \in Memory : a < esp - FrameWords \/ a >= esp => mem'[a] = memory[a]
    BY <1>0, <1>5, <1>7, Interrupted
  <1> QED BY <1>0, <1>2, <1>6, <1>8 DEF esp

LEMMA ExchangeRuns ==
    ASSUME TaskType, Instruction, switchTask[cpu.eip] = Exchange("eax"), cpu.esp \in Memory
    PROVE  /\ Sets("eax", mem[cpu.esp])
           /\ mem' \in [Memory -> Int] /\ mem'[cpu.esp] = cpu.eax
           /\ Elsewhere(cpu.esp - FrameWords, cpu.esp)
  <1> DEFINE esp == cpu.esp
             memory == [mem EXCEPT ![esp] = cpu.eax]
  <1>0. esp \in Int /\ cpu.eax \in Int /\ FrameWords \in Nat /\ mem[esp] \in Int
    BY TasksAssumption, RegisterNames DEF TaskType
  <1>1. /\ cpu' = Executed(Exchange("eax"))
        /\ mem' = Spoiled(cpu'.esp, Written(Exchange("eax")))
    BY Runs
  <1>2. cpu' = [cpu EXCEPT !.eax = mem[cpu.esp], !.eip = cpu.eip + 1]
    BY <1>1 DEF Executed, Exchange
  <1>3. cpu'.esp = esp
    BY <1>2, RegisterNames DEF TaskType
  <1>4. Written(Exchange("eax")) = memory
    BY DEF Written, Exchange
  <1>5. memory \in [Memory -> Int]
    BY <1>0 DEF TaskType
  <1>6. memory[esp] = cpu.eax /\ \A a \in Memory : a # esp => memory[a] = mem[a]
    BY <1>0 DEF TaskType
  <1>7. mem' = Spoiled(esp, memory)
    BY <1>1, <1>3, <1>4
  <1> HIDE DEF memory
  <1>8. /\ mem' \in [Memory -> Int]
        /\ \A a \in Memory : a < esp - FrameWords \/ a >= esp => mem'[a] = memory[a]
    BY <1>0, <1>5, <1>7, Interrupted
  <1>9. Sets("eax", mem[cpu.esp])
    <2>1. "eax" \in Registers \ {"eip"} /\ mem[cpu.esp] \in Int
      BY <1>0, RegisterNames
    <2>2. cpu' = [cpu EXCEPT !["eax"] = mem[cpu.esp], !["eip"] = cpu["eip"] + 1]
      BY <1>2
    <2> QED BY <2>1, <2>2, Setting
  <1> QED BY <1>0, <1>6, <1>8, <1>9 DEF Elsewhere, Memory

LEMMA PushaRuns ==
    ASSUME TaskType, Instruction, switchTask[cpu.eip] = Pusha, NEW esp \in Int, cpu.esp = esp,
           esp - 8 >= 0, esp <= StackTop(Count - 1), StackTop(Count - 1) \in Nat
    PROVE  /\ Sets("esp", esp - 8)
           /\ mem' \in [Memory -> Int]
           /\ mem'[esp - 1] = cpu.eax /\ mem'[esp - 5] = esp /\ mem'[esp - 6] = cpu.ebp
           /\ Elsewhere(esp - 8 - FrameWords, esp - 1)
  <1> DEFINE memory == [a \in Memory |-> IF a \in esp - 8 .. esp - 1
                                         THEN cpu[Pushed[esp - a]] ELSE mem[a]]
             low == esp - 8
  <1>0. /\ low \in Int /\ FrameWords \in Nat
        /\ \A r \in Registers : cpu[r] \in Int
    BY TasksAssumption, RegisterNames DEF TaskType
  <1>1. cpu' = Executed(Pusha) /\ mem' = Spoiled(cpu'.esp, Written(Pusha))
    BY Runs
  <1>2. cpu' = [cpu EXCEPT !.esp = esp - 8, !.eip = cpu.eip + 1]
    BY <1>1 DEF Executed, Pusha
  <1>3. cpu'.esp = low
    BY <1>2, RegisterNames DEF TaskType
  <1>4. Written(Pusha) = memory
    BY DEF Written, Pusha
  <1>5. \A k \in 1 .. 8 : Pushed[k] \in Registers
    <2>1. \A k \in 1 .. 8 : k \in {1, 2, 3, 4, 5, 6, 7, 8}
      OBVIOUS
    <2> QED BY <2>1, RegisterNames DEF Pushed
  <1>6. memory \in [Memory -> Int]
    <2>1. ASSUME NEW a \in Memory, a \in esp - 8 .. esp - 1
          PROVE  cpu[Pushed[esp - a]] \in Int
      <3>1. esp - a \in 1 .. 8
        BY <2>1 DEF Memory
      <3> QED BY <1>0, <1>5, <3>1
    <2> QED BY <2>1 DEF TaskType
  <1>7. /\ esp - 1 \in Memory /\ esp - 5 \in Memory /\ esp - 6 \in Memory
        /\ esp - (esp - 1) = 1 /\ esp - (esp - 5) = 5 /\ esp - (esp - 6) = 6
    BY DEF Memory
  <1>8. memory[esp - 1] = cpu.eax /\ memory[esp - 5] = esp /\ memory[esp - 6] = cpu.ebp
    BY <1>7 DEF Pushed
  <1>9. \A a \in Memory : a < low \/ a > esp - 1 => memory[a] = mem[a]
    BY DEF Memory
  <1>10. mem' = Spoiled(low, memory)
    BY <1>1, <1>3, <1>4
  <1> HIDE DEF memory
  <1>11. /\ mem' \in [Memory -> Int]
         /\ \A a \in Memory : a < low - FrameWords \/ a >= low => mem'[a] = memory[a]
    BY <1>0, <1>6, <1>10, Interrupted
  <1>12. mem'[esp - 1] = cpu.eax /\ mem'[esp - 5] = esp /\ mem'[esp - 6] = cpu.ebp
    BY <1>7, <1>8, <1>11
  <1>13. Elsewhere(esp - 8 - FrameWords, esp - 1)
    BY <1>0, <1>9, <1>11 DEF Elsewhere, Memory
  <1>14. Sets("esp", esp - 8)
    <2>1. "esp" \in Registers \ {"eip"} /\ esp - 8 \in Int
      BY <1>0, RegisterNames
    <2>2. cpu' = [cpu EXCEPT !["esp"] = esp - 8, !["eip"] = cpu["eip"] + 1]
      BY <1>2
    <2> QED BY <2>1, <2>2, Setting
  <1> QED BY <1>11, <1>12, <1>13, <1>14

-----------------------------------------------------------------------------
(* The first half of switchTask.                                           *)

\* What a step of the first half leaves alone: t's stack from the return
\* address up, and everything else but t's TaskRegisters until they are saved.
Leaving(t) == LeavingStack(t) /\ LeavingRegisters(t) /\ LeavingBlock(t)
LeavesAlone(t) ==
    \A a \in Memory :
        \/ a >= StackTop(t) - 4
        \/ /\ a < StackTop(t) - 16 - FrameWords
           /\ a < regs(t) \/ a > regs(t) + 10 \/ cpu.eip >= 24
        => mem'[a] = mem[a]
Leaves(t) ==
    /\ TaskType /\ Instruction /\ running' = running /\ expected' = expected
    /\ Preempted(t) /\ Leaving(t)
Left(t) ==
    /\ cpu' \in [Registers -> Int] /\ mem' \in [Memory -> Int]
    /\ cpu'.eip = cpu.eip + 1 /\ LeavesAlone(t)

LEMMA Bounds ==
    ASSUME NEW t \in TaskIds
    PROVE  /\ StackTop(t) \in Nat /\ regs(t) \in Nat /\ FrameWords \in Nat
           /\ regs(t) + 11 <= StackTop(t) - 17 - FrameWords
           /\ \A a \in 0 .. StackTop(t) - 1 : a \in Memory
  <1>1. /\ StackTop(t) \in Nat /\ regs(t) \in Nat /\ FrameWords \in Nat /\ StackWords \in Nat
        /\ regs(t) + 11 <= 11 * Count /\ StackTop(t) >= 11 * Count + StackWords
        /\ StackWords >= FrameWords + 17 /\ StackTop(t) <= StackTop(Count - 1) /\ Count \in Nat
        /\ StackTop(Count - 1) \in Nat
    <2>1. Count - 1 \in TaskIds
      BY TasksAssumption DEF TaskIds
    <2> QED BY <2>1, StacksApart, Blocks
  <1> QED BY <1>1 DEF Memory

LEMMA LeavingStores ==
    ASSUME NEW t \in TaskIds, Leaves(t), cpu.eip \in 6 .. 10 \cup 17 .. 21 \cup {23}
    PROVE  Left(t) /\ Leaving(t)'
  <1> DEFINE p == cpu.eip
             top == StackTop(t)
             base == regs(t)
             Saved(k, r) ==
                 /\ cpu' = [cpu EXCEPT !.eip = p + 1]
                 /\ mem' \in [Memory -> Int] /\ mem'[base + k] = cpu[r]
                 /\ \A a \in Memory : a # base + k /\ (a < cpu.esp - FrameWords \/ a >= cpu.esp)
                        => mem'[a] = mem[a]
  <1>0. /\ top \in Nat /\ base \in Nat /\ FrameWords \in Nat /\ base + 11 <= top - 17 - FrameWords
        /\ \A a \in 0 .. top - 1 : a \in Memory
    BY Bounds
  <1>1. /\ cpu.eax = base /\ cpu.esp \in {top - 13, top - 14}
        /\ p = 23 => cpu.esp = top - 13
        /\ p # 23 => cpu.esp = top - 14
    BY DEF Leaves, Leaving, LeavingRegisters, LeavingStack
  <1>2. ASSUME NEW n, NEW k \in 0 .. 10, NEW r \in Registers, n \div 4 = k,
               switchTask[p] = Store("eax", n, r)
        PROVE  Saved(k, r)
    <2>1. /\ base + k \in Memory /\ cpu["eax"] + k = base + k /\ base + k < cpu.esp - FrameWords
          /\ k \in Nat /\ "eax" \in Registers
      BY <1>0, <1>1, RegisterNames
    <2> QED BY <1>2, <2>1, StoreRuns DEF Leaves
  <1>3. /\ p = 6 => Saved(1, "ebx")
        /\ p = 7 => Saved(2, "ecx")
        /\ p = 8 => Saved(3, "edx")
        /\ p = 9 => Saved(4, "esi")
        /\ p = 10 => Saved(5, "edi")
        /\ p = 17 => Saved(0, "ebx")
        /\ p = 18 => Saved(6, "edx")
        /\ p = 19 => Saved(7, "esi")
        /\ p = 20 => Saved(8, "ecx")
        /\ p = 21 => Saved(9, "edi")
        /\ p = 23 => Saved(10, "ebx")
    BY <1>2, Program, RegisterNames
  <1>4. PICK k \in 0 .. 10, r \in Registers : Saved(k, r)
    BY <1>3, RegisterNames
  <1>5. cpu' \in [Registers -> Int] /\ cpu'.eip = p + 1 /\ \A q \in Registers \ {"eip"} : cpu'[q] = cpu[q]
    BY <1>4, RegisterNames DEF Leaves, TaskType
  <1>6. LeavingRegisters(t)'
    BY <1>5, RegisterNames DEF Leaves, Leaving, LeavingRegisters
  <1> HIDE DEF top, base
  <1>7. ASSUME NEW a \in Memory, a >= cpu.esp \/ a < cpu.esp - FrameWords, a < base \/ a > base + 10
        PROVE  mem'[a] = mem[a]
    <2>1. a # base + k
      BY <1>0, <1>7 DEF Memory
    <2> QED BY <1>4, <1>7, <2>1
  <1>8. LeavingStack(t)'
    <2>1. \A a \in 0 .. top - 1 : a >= top - 13 => mem'[a] = mem[a]
      BY <1>0, <1>1, <1>7
    <2>2. p # 23 => mem'[top - 14] = mem[top - 14]
      BY <1>0, <1>1, <1>7
    <2> QED BY <1>0, <1>5, <2>1, <2>2, RegisterNames DEF Leaves, Leaving, LeavingStack, top
  <1>9. LeavingBlock(t)'
    <2>1. \A j \in 0 .. 10 : base + j \in Memory /\ (base + j < cpu.esp - FrameWords)
      BY <1>0, <1>1
    <2>2. ASSUME NEW i \in 0 .. 10, NEW q \in Registers, Saved(i, q)
          PROVE  /\ i # 0 => mem'[base] = mem[base]
                 /\ i # 1 => mem'[base + 1] = mem[base + 1]
                 /\ i # 2 => mem'[base + 2] = mem[base + 2]
                 /\ i # 3 => mem'[base + 3] = mem[base + 3]
                 /\ i # 4 => mem'[base + 4] = mem[base + 4]
                 /\ i # 5 => mem'[base + 5] = mem[base + 5]
                 /\ i # 6 => mem'[base + 6] = mem[base + 6]
                 /\ i # 7 => mem'[base + 7] = mem[base + 7]
                 /\ i # 8 => mem'[base + 8] = mem[base + 8]
                 /\ i # 9 => mem'[base + 9] = mem[base + 9]
                 /\ i # 10 => mem'[base + 10] = mem[base + 10]
      <3>1. ASSUME NEW j \in 0 .. 10, i # j
            PROVE  mem'[base + j] = mem[base + j]
        BY <1>0, <2>1, <2>2, <3>1
      <3>2. base + 0 = base
        BY <1>0
      <3> QED BY <3>1, <3>2
    <2>3. p \in {6, 7, 8, 9, 10, 17, 18, 19, 20, 21, 23}
      OBVIOUS
    <2>4. base + 0 = base
      BY <1>0
    <2> HIDE DEF Saved
    <2>5. CASE p = 6
      <3>1. Saved(1, "ebx")
        BY <1>3, <2>5
      <3>2. mem'[base + 1] = cpu.ebx
        BY <2>4, <3>1 DEF Saved
      <3> QED BY <1>5, <2>2, <2>5, <3>1, <3>2, RegisterNames
              DEF Leaves, Leaving, LeavingBlock, LeavingRegisters, Preempted, base
    <2>6. CASE p = 7
      <3>1. Saved(2, "ecx")
        BY <1>3, <2>6
      <3>2. mem'[base + 2] = cpu.ecx
        BY <2>4, <3>1 DEF Saved
      <3> QED BY <1>5, <2>2, <2>6, <3>1, <3>2, RegisterNames
              DEF Leaves, Leaving, LeavingBlock, LeavingRegisters, Preempted, base
    <2>7. CASE p = 8
      <3>1. Saved(3, "edx")
        BY <1>3, <2>7
      <3>2. mem'[base + 3] = cpu.edx
        BY <2>4, <3>1 DEF Saved
      <3> QED BY <1>5, <2>2, <2>7, <3>1, <3>2, RegisterNames
              DEF Leaves, Leaving, LeavingBlock, LeavingRegisters, Preempted, base
    <2>8. CASE p = 9
      <3>1. Saved(4, "esi")
        BY <1>3, <2>8
      <3>2. mem'[base + 4] = cpu.esi
        BY <2>4, <3>1 DEF Saved
      <3> QED BY <1>5, <2>2, <2>8, <3>1, <3>2, RegisterNames
              DEF Leaves, Leaving, LeavingBlock, LeavingRegisters, Preempted, base
    <2>9. CASE p = 10
      <3>1. Saved(5, "edi")
        BY <1>3, <2>9
      <3>2. mem'[base + 5] = cpu.edi
        BY <2>4, <3>1 DEF Saved
      <3> QED BY <1>5, <2>2, <2>9, <3>1, <3>2, RegisterNames
              DEF Leaves, Leaving, LeavingBlock, LeavingRegisters, Preempted, base
    <2>10. CASE p = 17
      <3>1. Saved(0, "ebx")
        BY <1>3, <2>10
      <3>2. mem'[base] = cpu.ebx
        BY <2>4, <3>1 DEF Saved
      <3> QED BY <1>5, <2>2, <2>10, <3>1, <3>2, RegisterNames
              DEF Leaves, Leaving, LeavingBlock, LeavingRegisters, Preempted, base
    <2>11. CASE p = 18
      <3>1. Saved(6, "edx")
        BY <1>3, <2>11
      <3>2. mem'[base + 6] = cpu.edx
        BY <2>4, <3>1 DEF Saved
      <3> QED BY <1>5, <2>2, <2>11, <3>1, <3>2, RegisterNames
              DEF Leaves, Leaving, LeavingBlock, LeavingRegisters, Preempted, base
    <2>12. CASE p = 19
      <3>1. Saved(7, "esi")
        BY <1>3, <2>12
      <3>2. mem'[base + 7] = cpu.esi
        BY <2>4, <3>1 DEF Saved
      <3> QED BY <1>5, <2>2, <2>12, <3>1, <3>2, RegisterNames
              DEF Leaves, Leaving, LeavingBlock, LeavingRegisters, Preempted, base
    <2>13. CASE p = 20
      <3>1. Saved(8, "ecx")
        BY <1>3, <2>13
      <3>2. mem'[base + 8] = cpu.ecx
        BY <2>4, <3>1 DEF Saved
      <3> QED BY <1>5, <2>2, <2>13, <3>1, <3>2, RegisterNames
              DEF Leaves, Leaving, LeavingBlock, LeavingRegisters, Preempted, base
    <2>14. CASE p = 21
      <3>1. Saved(9, "edi")
        BY <1>3, <2>14
      <3>2. mem'[base + 9] = cpu.edi
        BY <2>4, <3>1 DEF Saved
      <3> QED BY <1>5, <2>2, <2>14, <3>1, <3>2, RegisterNames
              DEF Leaves, Leaving, LeavingBlock, LeavingRegisters, Preempted, base
    <2>15. CASE p = 23
      <3>1. Saved(10, "ebx")
        BY <1>3, <2>15
      <3>2. mem'[base + 10] = cpu.ebx
        BY <2>4, <3>1 DEF Saved
      <3> QED BY <1>5, <2>2, <2>15, <3>1, <3>2, RegisterNames
              DEF Leaves, Leaving, LeavingBlock, LeavingRegisters, Preempted, base
    <2> QED BY <2>3, <2>5, <2>6, <2>7, <2>8, <2>9, <2>10, <2>11, <2>12, <2>13, <2>14, <2>15
  <1>10. LeavesAlone(t)
    BY <1>0, <1>1, <1>7 DEF LeavesAlone, Memory, top, base
  <1> QED BY <1>4, <1>5, <1>6, <1>8, <1>9, <1>10 DEF Left, Leaving

\* The steps that save nothing: the words of the stack above high stay.
LEMMA LeavingStays ==
    ASSUME NEW t \in TaskIds, Leaves(t), cpu.eip \in 1 .. 5 \cup 11 .. 16 \cup {22, 24},
           NEW low \in Int, NEW high \in Int, Elsewhere(low, high),
           low >= StackTop(t) - 16 - FrameWords, high <= StackTop(t) - 5,
           cpu' \in [Registers -> Int], cpu'.eip = cpu.eip + 1, mem' \in [Memory -> Int]
    PROVE  /\ Left(t) /\ LeavingBlock(t)'
           /\ \A a \in 0 .. StackTop(t) - 1 : a > high => mem'[a] = mem[a]
  <1> DEFINE top == StackTop(t)
             base == regs(t)
  <1>0. /\ top \in Nat /\ base \in Nat /\ FrameWords \in Nat /\ base + 11 <= top - 17 - FrameWords
        /\ \A a \in 0 .. top - 1 : a \in Memory
    BY Bounds
  <1>1. \A a \in 0 .. top - 1 : a > high => mem'[a] = mem[a]
    BY <1>0 DEF Elsewhere
  <1>2. LeavesAlone(t)
    <2>1. ASSUME NEW a \in Memory, a >= top - 4 \/ a < top - 16 - FrameWords
          PROVE  mem'[a] = mem[a]
      <3>1. a \in Int /\ (a < low \/ a > high)
        BY <1>0, <2>1 DEF Memory
      <3> QED BY <3>1 DEF Elsewhere
    <2> QED BY <2>1 DEF LeavesAlone
  <1> HIDE DEF top, base
  <1>3. ASSUME NEW j \in 0 .. 10
        PROVE  mem'[base + j] = mem[base + j]
    <2>1. base + j \in Memory /\ base + j < low
      BY <1>0 DEF top
    <2> QED BY <2>1 DEF Elsewhere
  <1>4. base + 0 = base
    BY <1>0
  <1>5. /\ mem'[base] = mem[base] /\ mem'[base + 1] = mem[base + 1]
        /\ mem'[base + 2] = mem[base + 2] /\ mem'[base + 3] = mem[base + 3]
        /\ mem'[base + 4] = mem[base + 4] /\ mem'[base + 5] = mem[base + 5]
        /\ mem'[base + 6] = mem[base + 6] /\ mem'[base + 7] = mem[base + 7]
        /\ mem'[base + 8] = mem[base + 8] /\ mem'[base + 9] = mem[base + 9]
        /\ mem'[base + 10] = mem[base + 10]
    BY <1>3, <1>4
  <1>6. LeavingBlock(t)'
    BY <1>5 DEF Leaves, Leaving, LeavingBlock, base
  <1> QED BY <1>1, <1>2, <1>6 DEF Left, top

\* The loads from the stack.
LEMMA LeavingLoad ==
    ASSUME NEW t \in TaskIds, Leaves(t), cpu.eip \in {5, 11, 12, 13, 14, 15},
           NEW r \in Registers \ {"esp", "eip"}, NEW n, NEW k \in 0 .. 13, n \div 4 = k,
           switchTask[cpu.eip] = Load(r, "esp", n)
    PROVE  /\ Sets(r, mem[StackTop(t) - 14 + k])
           /\ Left(t) /\ LeavingBlock(t)' /\ LeavingStack(t)'
  <1> DEFINE p == cpu.eip
             top == StackTop(t)
             low == top - 14 - FrameWords
             high == top - 15
             from == top - 14 + k
  <1>0. /\ top \in Nat /\ FrameWords \in Nat /\ 17 <= top - FrameWords
        /\ \A a \in 0 .. top - 1 : a \in Memory
    BY Bounds
  <1>1. cpu.esp = top - 14
    BY DEF Leaves, Leaving, LeavingStack
  <1>2. TaskType /\ Instruction
    BY DEF Leaves
  <1> HIDE DEF top
  <1>3. /\ from \in Memory /\ cpu["esp"] + k = from /\ k \in Nat
        /\ "esp" \in Registers /\ r \in Registers \ {"eip"}
    BY <1>0, <1>1, RegisterNames
  <1> HIDE DEF from
  <1>4. Sets(r, mem[from]) /\ mem' \in [Memory -> Int]
        /\ Elsewhere(cpu'.esp - FrameWords, cpu'.esp - 1)
    BY <1>2, <1>3, LoadRuns
  <1>6. cpu' \in [Registers -> Int] /\ cpu'.eip = p + 1 /\ cpu'.esp = top - 14
    BY <1>1, <1>4, RegisterNames DEF Sets
  <1>7. /\ Elsewhere(low, high) /\ low \in Int /\ high \in Int
        /\ low >= top - 16 - FrameWords /\ high <= top - 5
    <2>1. cpu'.esp - FrameWords = low /\ cpu'.esp - 1 = high
      BY <1>0, <1>6
    <2>2. Elsewhere(low, high)
      BY <1>4, <2>1
    <2> QED BY <1>0, <2>2
  <1>8. Left(t) /\ LeavingBlock(t)' /\ \A b \in 0 .. top - 1 : b > high => mem'[b] = mem[b]
    <2>1. cpu.eip \in 1 .. 5 \cup 11 .. 16 \cup {22, 24}
      OBVIOUS
    <2> HIDE DEF low, high
    <2> QED BY <1>4, <1>6, <1>7, <2>1, LeavingStays DEF top
  <1>9. \A b \in 0 .. top - 1 : b >= top - 14 => mem'[b] = mem[b]
    BY <1>0, <1>8
  <1>10. LeavingStack(t)'
    BY <1>0, <1>6, <1>9 DEF Leaves, Leaving, LeavingStack, top
  <1> QED BY <1>4, <1>8, <1>10 DEF top, from

LEMMA LeavingLoads ==
    ASSUME NEW t \in TaskIds, Leaves(t), cpu.eip \in {5, 11, 12, 13, 14, 15}
    PROVE  Left(t) /\ Leaving(t)'
  <1> DEFINE p == cpu.eip
             top == StackTop(t)
             Loaded(r, k) ==
                 /\ Sets(r, mem[top - 14 + k])
                 /\ Left(t) /\ LeavingBlock(t)' /\ LeavingStack(t)'
  <1>0. top \in Nat
    BY Bounds
  <1>1. ASSUME NEW r \in Registers \ {"esp", "eip"}, NEW n, NEW k \in 0 .. 13, n \div 4 = k,
               switchTask[p] = Load(r, "esp", n)
        PROVE  Loaded(r, k)
    BY ONLY <1>1, t \in TaskIds, Leaves(t), cpu.eip \in {5, 11, 12, 13, 14, 15}, LeavingLoad
  <1> HIDE DEF top, Loaded
  <1>2. /\ p = 5  => Loaded("eax", 11)
        /\ p = 11 => Loaded("ebx", 9)
        /\ p = 12 => Loaded("ecx", 10)
        /\ p = 13 => Loaded("esi", 4)
        /\ p = 14 => Loaded("edi", 1)
        /\ p = 15 => Loaded("edx", 5)
    <2>1. 44 \div 4 = 11 /\ 36 \div 4 = 9 /\ 40 \div 4 = 10 /\ 16 \div 4 = 4 /\ 4 \div 4 = 1
          /\ 20 \div 4 = 5
      OBVIOUS
    <2>2. {"eax", "ebx", "ecx", "esi", "edi", "edx"} \subseteq Registers \ {"esp", "eip"}
      BY RegisterNames
    <2> QED BY <1>1, <2>1, <2>2, Program
  <1>3. /\ top - 14 + 11 = top - 3 /\ top - 14 + 9 = top - 5 /\ top - 14 + 10 = top - 4
        /\ top - 14 + 4 = top - 10 /\ top - 14 + 1 = top - 13 /\ top - 14 + 5 = top - 9
    BY <1>0
  <1>4. cpu \in [Registers -> Int] /\ running' = running /\ expected' = expected
    BY DEF Leaves, TaskType
  <1>5. CASE p = 5
    <2>1. Sets("eax", mem[top - 3])
      BY <1>2, <1>3, <1>5 DEF Loaded
    <2>2. LeavingRegisters(t)'
      BY <1>4, <1>5, <2>1, RegisterNames
         DEF Leaves, Leaving, LeavingRegisters, LeavingStack, Preempted, Sets, top
    <2> QED BY <1>2, <1>5, <2>2 DEF Loaded, Leaving
  <1>6. CASE p = 11
    <2>1. Sets("ebx", mem[top - 5])
      BY <1>2, <1>3, <1>6 DEF Loaded
    <2>2. LeavingRegisters(t)'
      BY <1>4, <1>6, <2>1, RegisterNames
         DEF Leaves, Leaving, LeavingRegisters, LeavingStack, Preempted, Sets, top
    <2> QED BY <1>2, <1>6, <2>2 DEF Loaded, Leaving
  <1>7. CASE p = 12
    <2>1. Sets("ecx", mem[top - 4])
      BY <1>2, <1>3, <1>7 DEF Loaded
    <2>2. LeavingRegisters(t)'
      BY <1>4, <1>7, <2>1, RegisterNames
         DEF Leaves, Leaving, LeavingRegisters, LeavingStack, Preempted, Sets, top
    <2> QED BY <1>2, <1>7, <2>2 DEF Loaded, Leaving
  <1>8. CASE p = 13
    <2>1. Sets("esi", mem[top - 10])
      BY <1>2, <1>3, <1>8 DEF Loaded
    <2>2. LeavingRegisters(t)'
      BY <1>4, <1>8, <2>1, RegisterNames
         DEF Leaves, Leaving, LeavingRegisters, LeavingStack, Preempted, Sets, top
    <2> QED BY <1>2, <1>8, <2>2 DEF Loaded, Leaving
  <1>9. CASE p = 14
    <2>1. Sets("edi", mem[top - 13])
      BY <1>2, <1>3, <1>9 DEF Loaded
    <2>2. LeavingRegisters(t)'
      BY <1>4, <1>9, <2>1, RegisterNames
         DEF Leaves, Leaving, LeavingRegisters, LeavingStack, Preempted, Sets, top
    <2> QED BY <1>2, <1>9, <2>2 DEF Loaded, Leaving
  <1>10. CASE p = 15
    <2>1. Sets("edx", mem[top - 9])
      BY <1>2, <1>3, <1>10 DEF Loaded
    <2>2. LeavingRegisters(t)'
      BY <1>4, <1>10, <2>1, RegisterNames
         DEF Leaves, Leaving, LeavingRegisters, LeavingStack, Preempted, Sets, top
    <2> QED BY <1>2, <1>10, <2>2 DEF Loaded, Leaving
  <1> QED BY <1>5, <1>6, <1>7, <1>8, <1>9, <1>10

\* The steps that move the stack pointer, and the two that only compute.
LEMMA LeavingMoves ==
    ASSUME NEW t \in TaskIds, Leaves(t), cpu.eip \in {1, 2, 3, 4, 16, 22, 24}
    PROVE  Left(t) /\ Leaving(t)'
  <1> DEFINE p == cpu.eip
             top == StackTop(t)
  <1>0. /\ top \in Nat /\ FrameWords \in Nat /\ 17 <= top - FrameWords
        /\ \A a \in 0 .. top - 1 : a \in Memory
    BY Bounds
  <1>1. TaskType /\ Instruction /\ running' = running /\ expected' = expected
        /\ cpu \in [Registers -> Int]
    BY DEF Leaves, TaskType
  <1>2. StackTop(Count - 1) \in Nat /\ top <= StackTop(Count - 1)
    <2>1. Count - 1 \in TaskIds
      BY TasksAssumption DEF TaskIds
    <2> QED BY <2>1, StacksApart
  <1>3. /\ p = 1 => cpu.esp = top - 4
        /\ p = 2 => cpu.esp = top - 12
        /\ p \in {3, 4, 24} => cpu.esp = top - 13
        /\ p \in {16, 22} => cpu.esp = top - 14
    BY DEF Leaves, Leaving, LeavingStack
  <1> HIDE DEF top
  <1>4. ASSUME NEW esp \in Int, cpu'.esp = esp,
               NEW low \in Int, NEW high \in Int, Elsewhere(low, high),
               low >= top - 16 - FrameWords, high <= top - 5,
               cpu' \in [Registers -> Int], cpu'.eip = p + 1, mem' \in [Memory -> Int]
        PROVE  /\ Left(t) /\ LeavingBlock(t)'
               /\ \A a \in 0 .. top - 1 : a > high => mem'[a] = mem[a]
    <2>1. cpu.eip \in 1 .. 5 \cup 11 .. 16 \cup {22, 24}
      OBVIOUS
    <2> QED BY <1>4, <2>1, LeavingStays DEF top
  <1>5. CASE p = 1
    <2>1. /\ Sets("esp", top - 12) /\ mem' \in [Memory -> Int]
          /\ mem'[top - 5] = cpu.eax /\ mem'[top - 9] = top - 4 /\ mem'[top - 10] = cpu.ebp
          /\ Elsewhere(top - 12 - FrameWords, top - 5)
      <3> DEFINE esp == top - 4
      <3>1. /\ esp \in Int /\ cpu.esp = esp /\ esp - 8 >= 0 /\ esp <= StackTop(Count - 1)
            /\ switchTask[cpu.eip] = Pusha
        BY <1>0, <1>2, <1>3, <1>5, Program
      <3>2. /\ esp - 8 = top - 12 /\ esp - 1 = top - 5 /\ esp - 5 = top - 9 /\ esp - 6 = top - 10
            /\ esp - 8 - FrameWords = top - 12 - FrameWords
        BY <1>0
      <3> HIDE DEF esp
      <3>3. /\ Sets("esp", esp - 8) /\ mem' \in [Memory -> Int]
            /\ mem'[esp - 1] = cpu.eax /\ mem'[esp - 5] = esp /\ mem'[esp - 6] = cpu.ebp
            /\ Elsewhere(esp - 8 - FrameWords, esp - 1)
        BY <1>1, <1>2, <3>1, PushaRuns
      <3> QED BY <3>2, <3>3 DEF esp
    <2>2. /\ cpu' \in [Registers -> Int] /\ cpu'.eip = p + 1 /\ cpu'.esp = top - 12
          /\ \A q \in Registers \ {"eip", "esp"} : cpu'[q] = cpu[q]
      BY <2>1, RegisterNames DEF Sets
    <2>3. /\ Left(t) /\ LeavingBlock(t)'
          /\ \A a \in 0 .. top - 1 : a > top - 5 => mem'[a] = mem[a]
      <3>1. /\ top - 12 \in Int /\ top - 12 - FrameWords \in Int /\ top - 5 \in Int
            /\ top - 12 - FrameWords >= top - 16 - FrameWords
        BY <1>0
      <3> QED BY <1>4, <2>1, <2>2, <3>1
    <2>4. LeavingStack(t)'
      BY <1>0, <1>1, <1>5, <2>1, <2>2, <2>3, RegisterNames
         DEF Leaves, Leaving, LeavingStack, LeavingRegisters, top
    <2>5. LeavingRegisters(t)'
      BY <1>1, <1>5, <2>2, RegisterNames DEF Leaves, Leaving, LeavingRegisters
    <2> QED BY <2>3, <2>4, <2>5 DEF Leaving
  <1>6. CASE p \in {2, 4, 24}
    <2> DEFINE esp == cpu.esp
               r == IF p = 2 THEN "eflags" ELSE IF p = 4 THEN "eax" ELSE "ebx"
    <2>1. /\ r \in Registers \ {"esp", "eip"} /\ switchTask[cpu.eip] = Push(r)
          /\ esp - 1 \in Memory
          /\ esp \in {top - 12, top - 13} /\ esp \in Int
      BY <1>0, <1>3, <1>6, Program, RegisterNames
    <2> HIDE DEF r
    <2>2. /\ Sets("esp", esp - 1) /\ mem' \in [Memory -> Int] /\ mem'[esp - 1] = cpu[r]
          /\ Elsewhere(esp - 1 - FrameWords, esp - 1)
      BY <1>1, <2>1, PushRuns
    <2> HIDE DEF esp
    <2>3. /\ cpu' \in [Registers -> Int] /\ cpu'.eip = p + 1 /\ cpu'.esp = esp - 1
          /\ \A q \in Registers \ {"eip", "esp"} : cpu'[q] = cpu[q]
      BY <2>2, RegisterNames DEF Sets
    <2>4. /\ Left(t) /\ LeavingBlock(t)'
          /\ \A a \in 0 .. top - 1 : a > esp - 1 => mem'[a] = mem[a]
      <3>1. /\ esp - 1 \in Int /\ esp - 1 - FrameWords \in Int
            /\ esp - 1 - FrameWords >= top - 16 - FrameWords /\ esp - 1 <= top - 5
        BY <1>0, <2>1
      <3> QED BY <1>4, <2>2, <2>3, <3>1
    <2>5. CASE p = 2
      <3>1. esp = top - 12 /\ mem'[top - 13] = cpu.eflags
        BY <1>0, <1>3, <2>2, <2>5 DEF esp, r
      <3> QED BY <1>0, <1>1, <2>3, <2>4, <2>5, <3>1, RegisterNames
              DEF Leaves, Leaving, LeavingStack, LeavingRegisters, top
    <2>6. CASE p = 4
      <3>1. esp = top - 13 /\ mem'[top - 14] = cpu.eax
        BY <1>0, <1>3, <2>2, <2>6 DEF esp, r
      <3> QED BY <1>0, <1>1, <2>3, <2>4, <2>6, <3>1, RegisterNames
              DEF Leaves, Leaving, LeavingStack, LeavingRegisters, top
    <2>7. CASE p = 24
      <3>1. esp = top - 13
        BY <1>3, <2>7 DEF esp
      <3> QED BY <1>0, <1>1, <2>3, <2>4, <2>7, <3>1, RegisterNames
              DEF Leaves, Leaving, LeavingStack, LeavingRegisters, top
    <2> QED BY <1>6, <2>5, <2>6, <2>7
  <1>7. CASE p = 3
    <2>1. /\ "eax" \in Registers \ {"esp", "eip"} /\ "cr3" \in Registers
          /\ switchTask[cpu.eip] = Mov("eax", "cr3")
      BY <1>7, Program, RegisterNames
    <2>2. /\ Sets("eax", cpu["cr3"]) /\ mem' \in [Memory -> Int]
          /\ Elsewhere(cpu.esp - FrameWords, cpu.esp - 1)
      BY <1>1, <2>1, MovRuns
    <2>3. /\ cpu' \in [Registers -> Int] /\ cpu'.eip = p + 1 /\ cpu'.esp = top - 13
          /\ cpu'.eax = cpu.cr3 /\ \A q \in Registers \ {"eip", "eax"} : cpu'[q] = cpu[q]
      BY <1>3, <1>7, <2>2, RegisterNames DEF Sets
    <2>4. /\ Left(t) /\ LeavingBlock(t)'
          /\ \A a \in 0 .. top - 1 : a > top - 14 => mem'[a] = mem[a]
      <3>1. cpu.esp - FrameWords = top - 13 - FrameWords /\ cpu.esp - 1 = top - 14
        BY <1>0, <1>3, <1>7
      <3>2. /\ top - 14 \in Int /\ top - 13 \in Int /\ top - 13 - FrameWords \in Int
            /\ top - 13 - FrameWords >= top - 16 - FrameWords /\ top - 14 <= top - 5
        BY <1>0
      <3>3. Elsewhere(top - 13 - FrameWords, top - 14)
        BY <2>2, <3>1
      <3> QED BY <1>4, <2>2, <2>3, <3>2, <3>3
    <2> QED BY <1>0, <1>1, <1>7, <2>3, <2>4, RegisterNames
            DEF Leaves, Leaving, LeavingStack, LeavingRegisters, top
  <1>8. CASE p = 16
    <2>1. "edx" \in Registers \ {"esp", "eip"} /\ switchTask[cpu.eip] = AddTo("edx", 4)
      BY <1>8, Program, RegisterNames
    <2>2. /\ Sets("edx", cpu["edx"] + 1) /\ mem' \in [Memory -> Int]
          /\ Elsewhere(cpu.esp - FrameWords, cpu.esp - 1)
      BY <1>1, <2>1, AddRuns
    <2>3. /\ cpu' \in [Registers -> Int] /\ cpu'.eip = p + 1 /\ cpu'.esp = top - 14
          /\ cpu'.edx = cpu.edx + 1 /\ \A q \in Registers \ {"eip", "edx"} : cpu'[q] = cpu[q]
      BY <1>3, <1>8, <2>2, RegisterNames DEF Sets
    <2>4. /\ Left(t) /\ LeavingBlock(t)'
          /\ \A a \in 0 .. top - 1 : a > top - 15 => mem'[a] = mem[a]
      <3>1. cpu.esp - FrameWords = top - 14 - FrameWords /\ cpu.esp - 1 = top - 15
        BY <1>0, <1>3, <1>8
      <3>2. /\ top - 14 \in Int /\ top - 15 \in Int /\ top - 14 - FrameWords \in Int
            /\ top - 14 - FrameWords >= top - 16 - FrameWords /\ top - 15 <= top - 5
        BY <1>0
      <3>3. Elsewhere(top - 14 - FrameWords, top - 15)
        BY <2>2, <3>1
      <3> QED BY <1>4, <2>2, <2>3, <3>2, <3>3
    <2> QED BY <1>0, <1>1, <1>8, <2>3, <2>4, RegisterNames
            DEF Leaves, Leaving, LeavingStack, LeavingRegisters, top
  <1>9. CASE p = 22
    <2>1. /\ "ebx" \in Registers \ {"esp", "eip"} /\ cpu.esp = top - 14 /\ cpu.esp \in Memory
          /\ switchTask[cpu.eip] = Pop("ebx")
      BY <1>0, <1>3, <1>9, Program, RegisterNames
    <2>2. /\ cpu' \in [Registers -> Int] /\ cpu'.eip = cpu.eip + 1
          /\ cpu'["ebx"] = mem[cpu.esp] /\ cpu'.esp = cpu.esp + 1
          /\ \A q \in Registers \ {"eip", "esp", "ebx"} : cpu'[q] = cpu[q]
          /\ mem' \in [Memory -> Int] /\ Elsewhere(cpu.esp + 1 - FrameWords, cpu.esp)
      BY <1>1, <2>1, PopRuns
    <2>3. /\ cpu'.ebx = mem[top - 14] /\ cpu'.esp = top - 13
      BY <1>0, <2>1, <2>2
    <2>4. /\ Left(t) /\ LeavingBlock(t)'
          /\ \A a \in 0 .. top - 1 : a > top - 14 => mem'[a] = mem[a]
      <3>1. cpu.esp + 1 - FrameWords = top - 13 - FrameWords
        BY <1>0, <2>1
      <3>2. /\ top - 14 \in Int /\ top - 13 \in Int /\ top - 13 - FrameWords \in Int
            /\ top - 13 - FrameWords >= top - 16 - FrameWords /\ top - 14 <= top - 5
        BY <1>0
      <3>3. Elsewhere(top - 13 - FrameWords, top - 14)
        BY <2>1, <2>2, <3>1
      <3> QED BY <1>4, <2>2, <2>3, <3>2, <3>3
    <2> QED BY <1>0, <1>1, <1>9, <2>2, <2>3, <2>4, RegisterNames
            DEF Leaves, Leaving, LeavingStack, LeavingRegisters, top
  <1> QED BY <1>5, <1>6, <1>7, <1>8, <1>9

-----------------------------------------------------------------------------
(* The second half of switchTask.                                          *)

\* The TaskRegisters of u, and the word of its k_preempt on its stack, stay.
BlockStays(u) == \A k \in 0 .. 10 : mem'[regs(u) + k] = mem[regs(u) + k]
WordStays(u) == Preempted(u) => mem'[StackTop(u) - 1] = mem[StackTop(u) - 1]

LEMMA LeavesOthers ==
    ASSUME NEW t \in TaskIds, LeavesAlone(t), NEW u \in TaskIds
    PROVE  WordStays(u) /\ (u # t \/ cpu.eip >= 24 => BlockStays(u))
  <1>1. /\ StackTop(t) \in Nat /\ StackTop(u) \in Nat /\ regs(t) \in Nat /\ regs(u) \in Nat
        /\ FrameWords \in Nat /\ StackWords \in Nat /\ StackWords >= FrameWords + 17
        /\ Count \in Nat /\ 11 * Count + StackWords <= StackTop(t)
        /\ 11 * Count + StackWords <= StackTop(u)
        /\ regs(t) + 11 <= 11 * Count /\ regs(u) + 11 <= 11 * Count
    BY StacksApart, Blocks
  <1>2. u = t \/ u < t \/ t < u
    BY DEF TaskIds
  <1>3. /\ u < t => StackTop(u) + StackWords <= StackTop(t)
        /\ t < u => StackTop(t) + StackWords <= StackTop(u)
        /\ u # t => regs(u) + 11 <= regs(t) \/ regs(t) + 11 <= regs(u)
    BY StacksApart, Blocks
  <1>4. \A a \in 0 .. StackTop(u) - 1 : a \in Memory
    BY Bounds
  <1>5. WordStays(u)
    <2>1. StackTop(u) - 1 \in Memory
      BY <1>1, <1>4
    <2>2. \/ StackTop(u) - 1 >= StackTop(t) - 4
          \/ /\ StackTop(u) - 1 < StackTop(t) - 16 - FrameWords
             /\ StackTop(u) - 1 > regs(t) + 10
      BY <1>1, <1>2, <1>3
    <2> QED BY <2>1, <2>2 DEF WordStays, LeavesAlone
  <1>6. ASSUME u # t \/ cpu.eip >= 24, NEW k \in 0 .. 10
        PROVE  mem'[regs(u) + k] = mem[regs(u) + k]
    <2>1. regs(u) + k \in Memory /\ regs(u) + k < StackTop(t) - 16 - FrameWords
      BY <1>1, <1>4
    <2>2. cpu.eip >= 24 \/ regs(u) + k < regs(t) \/ regs(u) + k > regs(t) + 10
      BY <1>1, <1>3, <1>6
    <2> QED BY <2>1, <2>2 DEF LeavesAlone
  <1> QED BY <1>5, <1>6 DEF BlockStays

\* A step that writes on the stack of u below the word of its k_preempt.
LEMMA StackStep ==
    ASSUME NEW u \in TaskIds, NEW low \in Int, NEW high \in Int, Elsewhere(low, high),
           low >= StackTop(u) - 16 - FrameWords, high <= StackTop(u) - 1,
           Preempted(u) => high < StackTop(u) - 1, NEW v \in TaskIds
    PROVE  WordStays(v) /\ BlockStays(v)
  <1>1. /\ StackTop(u) \in Nat /\ StackTop(v) \in Nat /\ regs(v) \in Nat
        /\ FrameWords \in Nat /\ StackWords \in Nat /\ StackWords >= FrameWords + 17
        /\ Count \in Nat /\ 11 * Count + StackWords <= StackTop(u)
        /\ 11 * Count + StackWords <= StackTop(v) /\ regs(v) + 11 <= 11 * Count
    BY StacksApart, Blocks
  <1>2. u = v \/ u < v \/ v < u
    BY DEF TaskIds
  <1>3. /\ u < v => StackTop(u) + StackWords <= StackTop(v)
        /\ v < u => StackTop(v) + StackWords <= StackTop(u)
    BY StacksApart
  <1>4. \A a \in 0 .. StackTop(v) - 1 : a \in Memory
    BY Bounds
  <1>5. WordStays(v)
    <2> SUFFICES ASSUME Preempted(v) PROVE mem'[StackTop(v) - 1] = mem[StackTop(v) - 1]
      BY DEF WordStays
    <2>1. StackTop(v) - 1 \in Memory
      BY <1>1, <1>4
    <2>2. StackTop(v) - 1 < low \/ StackTop(v) - 1 > high
      BY <1>1, <1>2, <1>3
    <2> QED BY <2>1, <2>2 DEF Elsewhere
  <1>6. ASSUME NEW k \in 0 .. 10
        PROVE  mem'[regs(v) + k] = mem[regs(v) + k]
    <2>1. regs(v) + k \in Memory /\ regs(v) + k < low
      BY <1>1, <1>4
    <2> QED BY <2>1 DEF Elsewhere
  <1> QED BY <1>5, <1>6 DEF BlockStays

Arriving(n) == ArrivingStack(n) /\ ArrivingRegisters(n)
Arrives(n) ==
    /\ TaskType /\ Instruction /\ running' = running /\ expected' = expected
    /\ n = running /\ Kept(n) /\ Block(n) /\ Preempted(From) /\ Arriving(n)
Spares == \A u \in TaskIds : WordStays(u) /\ BlockStays(u)

\* Where it happens: on the stack of the task that left, then on n's own.
LEMMA StackPlaces ==
    ASSUME NEW n \in TaskIds, Arrives(n)
    PROVE  /\ From \in TaskIds /\ From' = From
           /\ expected[n].esp \in Int /\ expected[n].esp <= StackTop(n)
           /\ expected[n].esp >= StackTop(n) - 3
           /\ Preempted(n) => expected[n].esp = StackTop(n) - 3
           /\ StackTop(n) \in Nat /\ StackTop(From) \in Nat /\ FrameWords \in Nat
           /\ 28 + FrameWords <= StackTop(From) /\ 28 + FrameWords <= StackTop(n)
           /\ \A a \in 0 .. StackTop(From) - 1 : a \in Memory
           /\ \A a \in 0 .. StackTop(n) - 1 : a \in Memory
  <1>1. From \in TaskIds /\ From' = From
    BY TasksAssumption DEF Arrives, TaskType, From, TaskIds
  <1>2. /\ StackTop(n) \in Nat /\ StackTop(From) \in Nat /\ FrameWords \in Nat
        /\ regs(n) + 11 <= StackTop(n) - 17 - FrameWords /\ regs(n) \in Nat
        /\ regs(From) + 11 <= StackTop(From) - 17 - FrameWords /\ regs(From) \in Nat
        /\ \A a \in 0 .. StackTop(From) - 1 : a \in Memory
        /\ \A a \in 0 .. StackTop(n) - 1 : a \in Memory
    BY <1>1, Bounds
  <1>3. Preempted(n) => expected[n].esp = StackTop(n) - 3
    BY DEF Preempted
  <1>4. expected[n].esp = StackTop(n) - 3 \/ expected[n].esp = StackTop(n)
    BY DEF Arrives, Kept, Preempted
  <1>5. /\ expected[n].esp \in Int /\ expected[n].esp <= StackTop(n)
        /\ expected[n].esp >= StackTop(n) - 3
    BY <1>2, <1>4
  <1>6. 28 + FrameWords <= StackTop(From) /\ 28 + FrameWords <= StackTop(n)
    BY <1>2
  <1> QED BY <1>1, <1>2, <1>3, <1>5, <1>6

Arrived(n) ==
    /\ cpu' \in [Registers -> Int] /\ cpu'.eip = cpu.eip + 1 /\ mem' \in [Memory -> Int]
    /\ Spares /\ Arriving(n)'

\* The loads from the TaskRegisters of n.
LEMMA ArrivingLoad ==
    ASSUME NEW n \in TaskIds, Arrives(n), cpu.eip \in {26, 27, 28, 29, 30, 31, 33, 37, 39, 43, 45},
           NEW r \in Registers \ {"eip"}, NEW j, NEW k \in 0 .. 10, j \div 4 = k,
           switchTask[cpu.eip] = Load(r, "eax", j), r = "esp" <=> cpu.eip = 37,
           NEW word \in Int, mem[regs(n) + k] = word, r = "esp" => word = expected[n].esp
    PROVE  /\ Sets(r, word) /\ mem' \in [Memory -> Int] /\ Spares
           /\ cpu.eip = 33 => mem'[StackTop(From) - 15] = mem[StackTop(From) - 15]
           /\ cpu.eip \in {39, 43, 45} =>
                  mem'[expected[n].esp - 1] = mem[expected[n].esp - 1]
  <1> DEFINE p == cpu.eip
             top == StackTop(From)
             sp == expected[n].esp
             from == regs(n) + k
             esp == cpu'.esp
  <1>0. /\ From \in TaskIds /\ sp \in Int /\ sp <= StackTop(n) /\ sp >= StackTop(n) - 3
        /\ Preempted(n) => sp = StackTop(n) - 3
        /\ StackTop(n) \in Nat /\ top \in Nat /\ FrameWords \in Nat
        /\ 28 + FrameWords <= top /\ 28 + FrameWords <= StackTop(n)
        /\ \A a \in 0 .. top - 1 : a \in Memory
        /\ \A a \in 0 .. StackTop(n) - 1 : a \in Memory
    BY StackPlaces
  <1>1. /\ p \in 26 .. 31 => cpu.esp = top - 14
        /\ p = 33 => cpu.esp = top - 15
        /\ p \in {39, 43, 45} => cpu.esp = sp - 1
        /\ cpu.eax = regs(n)
    BY DEF Arrives, Arriving, ArrivingStack, ArrivingRegisters
  <1>2. TaskType /\ Instruction
    BY DEF Arrives
  <1>3. /\ from \in Memory /\ cpu["eax"] + k = from /\ k \in Nat
        /\ "eax" \in Registers
    <2>1. regs(n) \in Nat /\ regs(n) + 11 <= StackTop(n) - 17 - FrameWords
      BY Bounds
    <2> QED BY <1>0, <1>1, <2>1, RegisterNames
  <1> HIDE DEF top, sp, from
  <1>4. /\ Sets(r, mem[from]) /\ mem' \in [Memory -> Int]
        /\ Elsewhere(esp - FrameWords, esp - 1)
    BY <1>2, <1>3, LoadRuns
  <1>5. Sets(r, word)
    BY <1>4 DEF from
  <1>6. /\ p \in 26 .. 31 => esp = top - 14
        /\ p = 33 => esp = top - 15
        /\ p \in {39, 43, 45} => esp = sp - 1
        /\ p = 37 => esp = sp
        /\ esp \in Int
    <2>1. cpu'.eip = p + 1 /\ cpu' \in [Registers -> Int] /\ "esp" \in Registers
      BY <1>5, RegisterNames DEF Sets
    <2>2. CASE p = 37
      BY <1>5, <2>1, <2>2 DEF Sets, sp
    <2>3. CASE p # 37
      <3>1. "esp" \in Registers \ {"eip", r}
        BY <2>3, RegisterNames
      <3>2. cpu'["esp"] = cpu["esp"]
        BY <1>5, <3>1 DEF Sets
      <3> QED BY <1>1, <2>1, <2>3, <3>2
    <2> QED BY <2>2, <2>3
  <1> HIDE DEF esp
  <1>7. Spares
    <2>1. esp - FrameWords \in Int /\ esp - 1 \in Int
      BY <1>0, <1>6
    <2>2. CASE p <= 33
      <3>1. /\ esp - FrameWords >= top - 16 - FrameWords /\ esp - 1 <= top - 1
            /\ esp - 1 < top - 1
        BY <1>0, <1>6, <2>2
      <3> QED BY <1>0, <1>4, <2>1, <3>1, StackStep DEF Spares, top
    <2>3. CASE p > 33
      <3>1. /\ esp - FrameWords >= StackTop(n) - 16 - FrameWords /\ esp - 1 <= StackTop(n) - 1
            /\ Preempted(n) => esp - 1 < StackTop(n) - 1
        BY <1>0, <1>6, <2>3
      <3> QED BY <1>0, <1>4, <2>1, <3>1, StackStep DEF Spares
    <2> QED BY <2>2, <2>3
  <1>8. ASSUME p = 33
        PROVE  mem'[top - 15] = mem[top - 15]
    <2>1. top - 15 \in Memory /\ top - 15 > esp - 1
      BY <1>0, <1>6, <1>8
    <2> QED BY <1>4, <2>1 DEF Elsewhere
  <1>9. ASSUME p \in {39, 43, 45}
        PROVE  mem'[sp - 1] = mem[sp - 1]
    <2>1. sp - 1 \in Memory /\ sp - 1 > esp - 1
      BY <1>0, <1>6, <1>9
    <2> QED BY <1>4, <2>1 DEF Elsewhere
  <1> QED BY <1>4, <1>5, <1>7, <1>8, <1>9 DEF top, sp

LEMMA ArrivingLoads ==
    ASSUME NEW n \in TaskIds, Arrives(n),
           cpu.eip \in {26, 27, 28, 29, 30, 31, 33, 37, 39, 43, 45}
    PROVE  Arrived(n)
  <1> DEFINE p == cpu.eip
             Loaded(r, word) ==
                 /\ Sets(r, word) /\ mem' \in [Memory -> Int] /\ Spares
                 /\ p = 33 => mem'[StackTop(From) - 15] = mem[StackTop(From) - 15]
                 /\ p \in {39, 43, 45} => mem'[expected[n].esp - 1] = mem[expected[n].esp - 1]
  <1>1. /\ From' = From /\ running' = running /\ expected' = expected /\ expected[n].esp \in Int
        /\ \A r \in Registers : expected[n][r] \in Int
        /\ StackTop(From) \in Nat
    BY StackPlaces DEF Arrives, TaskType
  <1>2. /\ 4 \div 4 = 1 /\ 8 \div 4 = 2 /\ 12 \div 4 = 3 /\ 16 \div 4 = 4 /\ 20 \div 4 = 5
        /\ 24 \div 4 = 6 /\ 28 \div 4 = 7 /\ 32 \div 4 = 8 /\ 36 \div 4 = 9 /\ 40 \div 4 = 10
        /\ 0 \div 4 = 0
    OBVIOUS
  <1>3. /\ Block(n) /\ regs(n) \in Nat
    BY Blocks DEF Arrives
  <1>4. ASSUME NEW r \in Registers \ {"eip"}, NEW j, NEW k \in 0 .. 10, j \div 4 = k,
               switchTask[p] = Load(r, "eax", j), r = "esp" <=> p = 37,
               NEW word \in Int, mem[regs(n) + k] = word, r = "esp" => word = expected[n].esp
        PROVE  Loaded(r, word)
    BY <1>4, ArrivingLoad
  <1> HIDE DEF Loaded
  <1>5. CASE p = 26
    <2>1. /\ "ebx" \in Registers \ {"eip"} /\ "ebx" \in Registers
          /\ switchTask[p] = Load("ebx", "eax", 4) /\ ("ebx" = "esp" <=> p = 37)
      BY <1>5, Program, RegisterNames
    <2>2. mem[regs(n) + 1] = expected[n].ebx /\ expected[n].ebx \in Int
      BY <1>1, <1>3, <2>1 DEF Block
    <2>3. Loaded("ebx", expected[n].ebx)
      BY <1>2, <1>4, <2>1, <2>2
    <2> QED BY <1>1, <1>5, <2>3, RegisterNames
            DEF Loaded, Sets, Arrived, Arrives, Arriving, ArrivingStack, ArrivingRegisters
  <1>6. CASE p = 27
    <2>1. /\ "ecx" \in Registers \ {"eip"} /\ "ecx" \in Registers
          /\ switchTask[p] = Load("ecx", "eax", 8) /\ ("ecx" = "esp" <=> p = 37)
      BY <1>6, Program, RegisterNames
    <2>2. mem[regs(n) + 2] = expected[n].ecx /\ expected[n].ecx \in Int
      BY <1>1, <1>3, <2>1 DEF Block
    <2>3. Loaded("ecx", expected[n].ecx)
      BY <1>2, <1>4, <2>1, <2>2
    <2> QED BY <1>1, <1>6, <2>3, RegisterNames
            DEF Loaded, Sets, Arrived, Arrives, Arriving, ArrivingStack, ArrivingRegisters
  <1>7. CASE p = 28
    <2>1. /\ "edx" \in Registers \ {"eip"} /\ "edx" \in Registers
          /\ switchTask[p] = Load("edx", "eax", 12) /\ ("edx" = "esp" <=> p = 37)
      BY <1>7, Program, RegisterNames
    <2>2. mem[regs(n) + 3] = expected[n].edx /\ expected[n].edx \in Int
      BY <1>1, <1>3, <2>1 DEF Block
    <2>3. Loaded("edx", expected[n].edx)
      BY <1>2, <1>4, <2>1, <2>2
    <2> QED BY <1>1, <1>7, <2>3, RegisterNames
            DEF Loaded, Sets, Arrived, Arrives, Arriving, ArrivingStack, ArrivingRegisters
  <1>8. CASE p = 29
    <2>1. /\ "esi" \in Registers \ {"eip"} /\ "esi" \in Registers
          /\ switchTask[p] = Load("esi", "eax", 16) /\ ("esi" = "esp" <=> p = 37)
      BY <1>8, Program, RegisterNames
    <2>2. mem[regs(n) + 4] = expected[n].esi /\ expected[n].esi \in Int
      BY <1>1, <1>3, <2>1 DEF Block
    <2>3. Loaded("esi", expected[n].esi)
      BY <1>2, <1>4, <2>1, <2>2
    <2> QED BY <1>1, <1>8, <2>3, RegisterNames
            DEF Loaded, Sets, Arrived, Arrives, Arriving, ArrivingStack, ArrivingRegisters
  <1>9. CASE p = 30
    <2>1. /\ "edi" \in Registers \ {"eip"} /\ "edi" \in Registers
          /\ switchTask[p] = Load("edi", "eax", 20) /\ ("edi" = "esp" <=> p = 37)
      BY <1>9, Program, RegisterNames
    <2>2. mem[regs(n) + 5] = expected[n].edi /\ expected[n].edi \in Int
      BY <1>1, <1>3, <2>1 DEF Block
    <2>3. Loaded("edi", expected[n].edi)
      BY <1>2, <1>4, <2>1, <2>2
    <2> QED BY <1>1, <1>9, <2>3, RegisterNames
            DEF Loaded, Sets, Arrived, Arrives, Arriving, ArrivingStack, ArrivingRegisters
  <1>10. CASE p = 31
    <2>1. /\ "ebp" \in Registers \ {"eip"} /\ "ebp" \in Registers
          /\ switchTask[p] = Load("ebp", "eax", 28) /\ ("ebp" = "esp" <=> p = 37)
      BY <1>10, Program, RegisterNames
    <2>2. mem[regs(n) + 7] = expected[n].ebp /\ expected[n].ebp \in Int
      BY <1>1, <1>3, <2>1 DEF Block
    <2>3. Loaded("ebp", expected[n].ebp)
      BY <1>2, <1>4, <2>1, <2>2
    <2> QED BY <1>1, <1>10, <2>3, RegisterNames
            DEF Loaded, Sets, Arrived, Arrives, Arriving, ArrivingStack, ArrivingRegisters
  <1>11. CASE p = 33
    <2>1. /\ "eax" \in Registers \ {"eip"} /\ "eflags" \in Registers
          /\ switchTask[p] = Load("eax", "eax", 36) /\ ("eax" = "esp" <=> p = 37)
      BY <1>11, Program, RegisterNames
    <2>2. mem[regs(n) + 9] = expected[n].eflags /\ expected[n].eflags \in Int
      BY <1>1, <1>3, <2>1 DEF Block
    <2>3. Loaded("eax", expected[n].eflags)
      BY <1>2, <1>4, <2>1, <2>2
    <2> QED BY <1>1, <1>11, <2>3, RegisterNames
            DEF Loaded, Sets, Arrived, Arrives, Arriving, ArrivingStack, ArrivingRegisters
  <1>12. CASE p = 37
    <2>1. /\ "esp" \in Registers \ {"eip"} /\ "esp" \in Registers
          /\ switchTask[p] = Load("esp", "eax", 24) /\ ("esp" = "esp" <=> p = 37)
      BY <1>12, Program, RegisterNames
    <2>2. mem[regs(n) + 6] = expected[n].esp /\ expected[n].esp \in Int
      BY <1>1, <1>3, <2>1 DEF Block
    <2>3. Loaded("esp", expected[n].esp)
      BY <1>2, <1>4, <2>1, <2>2
    <2> QED BY <1>1, <1>12, <2>3, RegisterNames
            DEF Loaded, Sets, Arrived, Arrives, Arriving, ArrivingStack, ArrivingRegisters
  <1>13. CASE p = 39
    <2>1. /\ "eax" \in Registers \ {"eip"} /\ "cr3" \in Registers
          /\ switchTask[p] = Load("eax", "eax", 40) /\ ("eax" = "esp" <=> p = 37)
      BY <1>13, Program, RegisterNames
    <2>2. mem[regs(n) + 10] = expected[n].cr3 /\ expected[n].cr3 \in Int
      BY <1>1, <1>3, <2>1 DEF Block
    <2>3. Loaded("eax", expected[n].cr3)
      BY <1>2, <1>4, <2>1, <2>2
    <2> QED BY <1>1, <1>13, <2>3, RegisterNames
            DEF Loaded, Sets, Arrived, Arrives, Arriving, ArrivingStack, ArrivingRegisters
  <1>14. CASE p = 43
    <2>1. /\ "eax" \in Registers \ {"eip"} /\ "eip" \in Registers
          /\ switchTask[p] = Load("eax", "eax", 32) /\ ("eax" = "esp" <=> p = 37)
      BY <1>14, Program, RegisterNames
    <2>2. mem[regs(n) + 8] = expected[n].eip /\ expected[n].eip \in Int
      BY <1>1, <1>3, <2>1 DEF Block
    <2>3. Loaded("eax", expected[n].eip)
      BY <1>2, <1>4, <2>1, <2>2
    <2> QED BY <1>1, <1>14, <2>3, RegisterNames
            DEF Loaded, Sets, Arrived, Arrives, Arriving, ArrivingStack, ArrivingRegisters
  <1>15. CASE p = 45
    <2>1. /\ "eax" \in Registers \ {"eip"} /\ "eax" \in Registers
          /\ switchTask[p] = Load("eax", "eax", 0) /\ ("eax" = "esp" <=> p = 37)
      BY <1>15, Program, RegisterNames
    <2>2. mem[regs(n) + 0] = expected[n].eax /\ expected[n].eax \in Int
      BY <1>1, <1>3, <2>1 DEF Block
    <2>3. Loaded("eax", expected[n].eax)
      BY <1>2, <1>4, <2>1, <2>2
    <2> QED BY <1>1, <1>15, <2>3, RegisterNames
            DEF Loaded, Sets, Arrived, Arrives, Arriving, ArrivingStack, ArrivingRegisters
  <1> QED BY <1>5, <1>6, <1>7, <1>8, <1>9, <1>10, <1>11, <1>12, <1>13, <1>14, <1>15

\* The steps that move the stack pointer, mov cr3 and xchg.
LEMMA ArrivingMoves ==
    ASSUME NEW n \in TaskIds, Arrives(n), cpu.eip \in {32, 34, 35, 36, 38, 40, 41, 42, 44}
    PROVE  Arrived(n)
  <1> DEFINE p == cpu.eip
             top == StackTop(From)
             sp == expected[n].esp
             esp == cpu.esp
  <1>0. /\ From \in TaskIds /\ sp \in Int /\ sp <= StackTop(n) /\ sp >= StackTop(n) - 3
        /\ Preempted(n) => sp = StackTop(n) - 3
        /\ StackTop(n) \in Nat /\ top \in Nat /\ FrameWords \in Nat
        /\ 28 + FrameWords <= top /\ 28 + FrameWords <= StackTop(n)
        /\ \A a \in 0 .. top - 1 : a \in Memory
        /\ \A a \in 0 .. StackTop(n) - 1 : a \in Memory
        /\ From' = From /\ running' = running /\ expected' = expected /\ TaskType /\ Instruction
    BY StackPlaces DEF Arrives
  <1>1. /\ p = 32 => esp = top - 14
        /\ p \in {34, 36} => esp = top - 15
        /\ p = 35 => esp = top - 16
        /\ p \in {38, 42} => esp = sp
        /\ p \in {40, 41, 44} => esp = sp - 1
        /\ esp \in Int
    BY RegisterNames DEF Arrives, Arriving, ArrivingStack, TaskType
  <1> HIDE DEF top, sp, esp
  <1>2. ASSUME NEW low \in Int, NEW high \in Int, Elsewhere(low, high), p <= 36,
               low >= top - 16 - FrameWords, high < top - 1
        PROVE  Spares
    <2>1. low >= StackTop(From) - 16 - FrameWords /\ high < StackTop(From) - 1
          /\ high <= StackTop(From) - 1
      BY <1>0, <1>2 DEF top
    <2> QED BY <1>0, <1>2, <2>1, StackStep DEF Spares
  <1>3. ASSUME NEW low \in Int, NEW high \in Int, Elsewhere(low, high),
               low >= sp - 1 - FrameWords, high <= sp - 1
        PROVE  Spares
    <2>1. low >= StackTop(n) - 16 - FrameWords /\ high <= StackTop(n) - 1
          /\ (Preempted(n) => high < StackTop(n) - 1)
      BY <1>0, <1>3
    <2> QED BY <1>3, <2>1, StackStep DEF Spares
  <1>4. CASE p \in {32, 34, 38, 42}
    <2>1. /\ "eax" \in Registers \ {"esp", "eip"} /\ switchTask[p] = Push("eax")
          /\ esp - 1 \in Memory /\ esp - 1 \in Int /\ esp - 1 - FrameWords \in Int
      BY <1>0, <1>1, <1>4, Program, RegisterNames
    <2>2. /\ Sets("esp", esp - 1) /\ mem' \in [Memory -> Int] /\ mem'[esp - 1] = cpu["eax"]
          /\ Elsewhere(esp - 1 - FrameWords, esp - 1)
      BY <1>0, <2>1, PushRuns DEF esp
    <2>3. /\ cpu' \in [Registers -> Int] /\ cpu'.eip = p + 1 /\ cpu'.esp = esp - 1
          /\ \A q \in Registers \ {"eip", "esp"} : cpu'[q] = cpu[q]
      BY <2>2, RegisterNames DEF Sets
    <2>4. CASE p = 32
      <3>1. esp - 1 = top - 15 /\ mem'[top - 15] = cpu.eax
        BY <1>0, <1>1, <2>2, <2>4
      <3>2. esp - 1 - FrameWords >= top - 16 - FrameWords /\ esp - 1 < top - 1 /\ p <= 36
        BY <1>0, <1>1, <2>4
      <3>3. Spares
        BY <1>2, <2>1, <2>2, <3>2
      <3> QED BY <1>0, <2>2, <2>3, <2>4, <3>1, <3>3, RegisterNames
              DEF Arrived, Arrives, Arriving, ArrivingStack, ArrivingRegisters, top
    <2>5. CASE p = 34
      <3>1. esp - 1 = top - 16 /\ mem'[top - 16] = cpu.eax
        BY <1>0, <1>1, <2>2, <2>5
      <3>2. esp - 1 - FrameWords >= top - 16 - FrameWords /\ esp - 1 < top - 1 /\ p <= 36
        BY <1>0, <1>1, <2>5
      <3>3. Spares
        BY <1>2, <2>1, <2>2, <3>2
      <3>4. mem'[top - 15] = mem[top - 15]
        <4>1. top - 15 \in Memory /\ top - 15 > esp - 1
          BY <1>0, <1>1, <2>5
        <4> QED BY <2>2, <4>1 DEF Elsewhere
      <3> QED BY <1>0, <2>2, <2>3, <2>5, <3>1, <3>3, <3>4, RegisterNames
              DEF Arrived, Arrives, Arriving, ArrivingStack, ArrivingRegisters, top
    <2>6. CASE p \in {38, 42}
      <3>1. esp - 1 = sp - 1 /\ mem'[sp - 1] = cpu.eax
        BY <1>0, <1>1, <2>2, <2>6
      <3>2. esp - 1 - FrameWords >= sp - 1 - FrameWords /\ esp - 1 <= sp - 1
        BY <1>0, <1>1, <2>6
      <3>3. Spares
        BY <1>3, <2>1, <2>2, <3>2
      <3> QED BY <1>0, <2>2, <2>3, <2>6, <3>1, <3>3, RegisterNames
              DEF Arrived, Arrives, Arriving, ArrivingStack, ArrivingRegisters, sp
    <2> QED BY <1>4, <2>4, <2>5, <2>6
  <1>5. CASE p \in {35, 36, 41}
    <2> DEFINE r == IF p = 35 THEN "eflags" ELSE "eax"
    <2>1. /\ r \in Registers \ {"esp", "eip"} /\ switchTask[p] = Pop(r)
          /\ esp \in Memory /\ esp \in Int /\ esp + 1 - FrameWords \in Int
      BY <1>0, <1>1, <1>5, Program, RegisterNames
    <2> HIDE DEF r
    <2>2. /\ cpu' \in [Registers -> Int] /\ cpu'.eip = p + 1 /\ cpu'[r] = mem[esp]
          /\ cpu'.esp = esp + 1 /\ \A q \in Registers \ {"eip", "esp", r} : cpu'[q] = cpu[q]
          /\ mem' \in [Memory -> Int] /\ Elsewhere(esp + 1 - FrameWords, esp)
      BY <1>0, <2>1, PopRuns DEF esp
    <2>3. CASE p = 35
      <3>1. esp + 1 = top - 15 /\ mem[esp] = expected[n].eflags
        BY <1>0, <1>1, <2>3 DEF Arrives, Arriving, ArrivingStack, top
      <3>2. esp + 1 - FrameWords >= top - 16 - FrameWords /\ esp < top - 1 /\ p <= 36
        BY <1>0, <1>1, <2>3
      <3>3. Spares
        BY <1>2, <2>1, <2>2, <3>2
      <3>4. mem'[top - 15] = mem[top - 15]
        <4>1. top - 15 \in Memory /\ top - 15 > esp
          BY <1>0, <1>1, <2>3
        <4> QED BY <2>2, <4>1 DEF Elsewhere
      <3>5. cpu'.eflags = expected[n].eflags
        BY <2>2, <2>3, <3>1 DEF r
      <3> QED BY <1>0, <2>2, <2>3, <3>1, <3>3, <3>4, <3>5, RegisterNames
              DEF Arrived, Arrives, Arriving, ArrivingStack, ArrivingRegisters, top, r
    <2>4. CASE p = 36
      <3>1. esp + 1 = top - 14 /\ mem[esp] = regs(n)
        BY <1>0, <1>1, <2>4 DEF Arrives, Arriving, ArrivingStack, top
      <3>2. esp + 1 - FrameWords >= top - 16 - FrameWords /\ esp < top - 1 /\ p <= 36
        BY <1>0, <1>1, <2>4
      <3>3. Spares
        BY <1>2, <2>1, <2>2, <3>2
      <3>4. cpu'.eax = regs(n)
        BY <2>2, <2>4, <3>1 DEF r
      <3> QED BY <1>0, <2>2, <2>4, <3>1, <3>3, <3>4, RegisterNames
              DEF Arrived, Arrives, Arriving, ArrivingStack, ArrivingRegisters, top, r
    <2>5. CASE p = 41
      <3>1. esp + 1 = sp /\ mem[esp] = regs(n)
        BY <1>0, <1>1, <2>5 DEF Arrives, Arriving, ArrivingStack, sp
      <3>2. esp + 1 - FrameWords >= sp - 1 - FrameWords /\ esp <= sp - 1
        BY <1>0, <1>1, <2>5
      <3>3. Spares
        BY <1>3, <2>1, <2>2, <3>2
      <3>4. cpu'.eax = regs(n)
        BY <2>2, <2>5, <3>1 DEF r
      <3> QED BY <1>0, <2>2, <2>5, <3>1, <3>3, <3>4, RegisterNames
              DEF Arrived, Arrives, Arriving, ArrivingStack, ArrivingRegisters, sp, r
    <2> QED BY <1>5, <2>3, <2>4, <2>5
  <1>6. CASE p = 40
    <2>1. /\ "cr3" \in Registers \ {"esp", "eip"} /\ "eax" \in Registers
          /\ switchTask[p] = Mov("cr3", "eax") /\ esp - FrameWords \in Int /\ esp - 1 \in Int
      BY <1>0, <1>1, <1>6, Program, RegisterNames
    <2>2. /\ Sets("cr3", cpu["eax"]) /\ mem' \in [Memory -> Int]
          /\ Elsewhere(esp - FrameWords, esp - 1)
      BY <1>0, <2>1, MovRuns DEF esp
    <2>3. /\ cpu' \in [Registers -> Int] /\ cpu'.eip = p + 1 /\ cpu'.esp = sp - 1
          /\ cpu'.cr3 = cpu.eax /\ \A q \in Registers \ {"eip", "cr3"} : cpu'[q] = cpu[q]
      BY <1>1, <1>6, <2>2, RegisterNames DEF Sets, esp
    <2>4. esp - FrameWords >= sp - 1 - FrameWords /\ esp - 1 <= sp - 1
      BY <1>0, <1>1, <1>6
    <2>5. Spares
      BY <1>3, <2>1, <2>2, <2>4
    <2>6. mem'[sp - 1] = mem[sp - 1]
      <3>1. sp - 1 \in Memory /\ sp - 1 > esp - 1
        BY <1>0, <1>1, <1>6
      <3> QED BY <2>2, <3>1 DEF Elsewhere
    <2> QED BY <1>0, <1>6, <2>2, <2>3, <2>5, <2>6, RegisterNames
            DEF Arrived, Arrives, Arriving, ArrivingStack, ArrivingRegisters, sp
  <1>7. CASE p = 44
    <2>1. /\ switchTask[p] = Exchange("eax") /\ esp \in Memory /\ esp - FrameWords \in Int
          /\ mem[esp] = regs(n) /\ esp = sp - 1
      BY <1>0, <1>1, <1>7, Program DEF Arrives, Arriving, ArrivingStack, sp
    <2>2. /\ Sets("eax", mem[esp]) /\ mem' \in [Memory -> Int] /\ mem'[esp] = cpu.eax
          /\ Elsewhere(esp - FrameWords, esp)
      BY <1>0, <2>1, ExchangeRuns DEF esp
    <2>3. /\ cpu' \in [Registers -> Int] /\ cpu'.eip = p + 1 /\ cpu'.esp = sp - 1
          /\ cpu'.eax = regs(n) /\ \A q \in Registers \ {"eip", "eax"} : cpu'[q] = cpu[q]
      BY <2>1, <2>2, RegisterNames DEF Sets, esp
    <2>4. esp - FrameWords >= sp - 1 - FrameWords /\ esp <= sp - 1
      BY <1>0, <2>1
    <2>5. Spares
      BY <1>1, <1>3, <2>1, <2>2, <2>4
    <2>6. mem'[sp - 1] = expected[n].eip
      BY <1>7, <2>1, <2>2 DEF Arrives, Arriving, ArrivingRegisters
    <2> QED BY <1>0, <1>7, <2>2, <2>3, <2>5, <2>6, RegisterNames
            DEF Arrived, Arrives, Arriving, ArrivingStack, ArrivingRegisters, sp
  <1> QED BY <1>4, <1>5, <1>6, <1>7

\* The ret: the task goes on with the registers it must find.
LEMMA ArrivingReturns ==
    ASSUME NEW n \in TaskIds, Arrives(n), cpu.eip = 46
    PROVE  cpu' = expected[n] /\ mem' \in [Memory -> Int] /\ Spares
  <1> DEFINE sp == expected[n].esp
             esp == cpu.esp
  <1>0. /\ sp \in Int /\ sp <= StackTop(n) /\ sp >= StackTop(n) - 3
        /\ Preempted(n) => sp = StackTop(n) - 3
        /\ StackTop(n) \in Nat /\ FrameWords \in Nat /\ 28 + FrameWords <= StackTop(n)
        /\ \A a \in 0 .. StackTop(n) - 1 : a \in Memory
        /\ TaskType /\ Instruction
    BY StackPlaces DEF Arrives
  <1>1. esp = sp - 1 /\ mem[esp] = expected[n].eip
    BY DEF Arrives, Arriving, ArrivingStack
  <1> HIDE DEF sp, esp
  <1>2. switchTask[cpu.eip] = Ret /\ esp \in Memory /\ esp + 1 = sp /\ esp + 1 - FrameWords \in Int
    BY <1>0, <1>1, Program
  <1>3. /\ cpu' = [cpu EXCEPT !.eip = mem[esp], !.esp = esp + 1]
        /\ mem' \in [Memory -> Int] /\ Elsewhere(esp + 1 - FrameWords, esp)
    BY <1>0, <1>2, RetRuns DEF esp
  <1>4. cpu' = [cpu EXCEPT !.eip = expected[n].eip, !.esp = expected[n].esp]
    BY <1>1, <1>2, <1>3 DEF sp
  <1>5. cpu' = expected[n]
    <2> DEFINE e == expected[n]
    <2>1. cpu \in [Registers -> Int] /\ e \in [Registers -> Int]
      BY <1>0 DEF TaskType
    <2>2. /\ cpu["eax"] = e["eax"] /\ cpu["ebx"] = e["ebx"] /\ cpu["ecx"] = e["ecx"]
          /\ cpu["edx"] = e["edx"] /\ cpu["esi"] = e["esi"] /\ cpu["edi"] = e["edi"]
          /\ cpu["ebp"] = e["ebp"] /\ cpu["eflags"] = e["eflags"] /\ cpu["cr3"] = e["cr3"]
      BY DEF Arrives, Arriving, ArrivingRegisters
    <2>3. cpu' = [cpu EXCEPT !["eip"] = e["eip"], !["esp"] = e["esp"]]
      BY <1>4
    <2> HIDE DEF e
    <2>4. ASSUME NEW q \in Registers
          PROVE  cpu'[q] = e[q]
      BY <2>1, <2>2, <2>3, RegisterNames
    <2>5. cpu' \in [Registers -> Int]
      BY <2>1, <2>3, RegisterNames
    <2>6. cpu' = e
      BY <2>1, <2>4, <2>5
    <2> QED BY <2>6 DEF e
  <1>6. Spares
    <2>1. /\ esp + 1 - FrameWords >= StackTop(n) - 16 - FrameWords /\ esp <= StackTop(n) - 1
          /\ (Preempted(n) => esp < StackTop(n) - 1) /\ esp \in Int
      BY <1>0, <1>1
    <2> QED BY <1>2, <1>3, <2>1, StackStep DEF Spares
  <1> QED BY <1>3, <1>5, <1>6

-----------------------------------------------------------------------------
(* The steps keep the invariant.                                           *)

\* The last of the first half: eax is the TaskRegisters of the task that goes on.
LEMMA LeavingLast ==
    ASSUME NEW t \in TaskIds, Leaves(t), t = From, running \in TaskIds, cpu.eip = 25
    PROVE  Arrived(running)
  <1> DEFINE top == StackTop(t)
             from == top - 2
             low == top - 14 - FrameWords
             high == top - 15
  <1>0. /\ top \in Nat /\ FrameWords \in Nat /\ 28 + FrameWords <= top
        /\ \A a \in 0 .. top - 1 : a \in Memory
    <2>1. regs(t) + 11 <= top - 17 - FrameWords /\ regs(t) \in Nat
      BY Bounds
    <2> QED BY <2>1, Bounds
  <1>1. /\ TaskType /\ Instruction /\ running' = running /\ expected' = expected
        /\ cpu.esp = top - 14 /\ mem[top - 2] = regs(running) /\ Preempted(t)
    BY DEF Leaves, Leaving, LeavingStack
  <1> HIDE DEF top
  <1>2. /\ switchTask[cpu.eip] = Load("eax", "esp", 48) /\ 48 \div 4 = 12 /\ 12 \in Nat
        /\ "eax" \in Registers \ {"eip"} /\ "esp" \in Registers
        /\ from \in Memory /\ cpu["esp"] + 12 = from /\ mem[from] = regs(running)
    BY <1>0, <1>1, Program, RegisterNames
  <1> HIDE DEF from
  <1>3. /\ Sets("eax", mem[from]) /\ mem' \in [Memory -> Int]
        /\ Elsewhere(cpu'.esp - FrameWords, cpu'.esp - 1)
    BY <1>1, <1>2, LoadRuns
  <1>4. /\ cpu' \in [Registers -> Int] /\ cpu'.eip = 26 /\ cpu'.esp = top - 14
        /\ cpu'.eax = regs(running)
    BY <1>1, <1>2, <1>3, RegisterNames DEF Sets
  <1>5. Spares
    <2>1. /\ cpu'.esp - FrameWords = low /\ cpu'.esp - 1 = high
          /\ low \in Int /\ high \in Int /\ low >= top - 16 - FrameWords
          /\ high <= top - 1 /\ high < top - 1
      BY <1>0, <1>4
    <2>2. Elsewhere(low, high)
      BY <1>3, <2>1
    <2> HIDE DEF low, high
    <2> QED BY <2>1, <2>2, StackStep DEF Spares, top
  <1>6. From' = From
    BY <1>1 DEF From
  <1> QED BY <1>1, <1>3, <1>4, <1>5, <1>6
          DEF Arrived, Arriving, ArrivingStack, ArrivingRegisters, top

LEMMA LeavingSteps ==
    ASSUME NEW t \in TaskIds, Leaves(t), cpu.eip \in 1 .. 24
    PROVE  Left(t) /\ Leaving(t)'
  <1>1. \/ cpu.eip \in 6 .. 10 \cup 17 .. 21 \cup {23} \/ cpu.eip \in {5, 11, 12, 13, 14, 15}
        \/ cpu.eip \in {1, 2, 3, 4, 16, 22, 24}
    OBVIOUS
  <1> QED BY <1>1, LeavingStores, LeavingLoads, LeavingMoves

LEMMA ArrivingSteps ==
    ASSUME NEW n \in TaskIds, Arrives(n), cpu.eip \in 26 .. 45
    PROVE  Arrived(n)
  <1>1. \/ cpu.eip \in {26, 27, 28, 29, 30, 31, 33, 37, 39, 43, 45}
        \/ cpu.eip \in {32, 34, 35, 36, 38, 40, 41, 42, 44}
    OBVIOUS
  <1> QED BY <1>1, ArrivingLoads, ArrivingMoves

LEMMA KeptStays ==
    ASSUME NEW u \in TaskIds, expected' = expected, WordStays(u)
    PROVE  (Kept(u) => Kept(u)') /\ (Preempted(u) => Preempted(u)')
  BY DEF Kept, Preempted, WordStays

LEMMA BlockKept ==
    ASSUME NEW u \in TaskIds, expected' = expected, BlockStays(u), Block(u)
    PROVE  Block(u)'
  <1>1. regs(u) \in Nat
    BY Blocks
  <1>2. regs(u) + 0 = regs(u)
    BY <1>1
  <1>3. mem'[regs(u) + 0] = mem[regs(u) + 0]
    BY DEF BlockStays
  <1>4. /\ mem'[regs(u)] = mem[regs(u)] /\ mem'[regs(u) + 1] = mem[regs(u) + 1]
        /\ mem'[regs(u) + 2] = mem[regs(u) + 2] /\ mem'[regs(u) + 3] = mem[regs(u) + 3]
        /\ mem'[regs(u) + 4] = mem[regs(u) + 4] /\ mem'[regs(u) + 5] = mem[regs(u) + 5]
        /\ mem'[regs(u) + 6] = mem[regs(u) + 6] /\ mem'[regs(u) + 7] = mem[regs(u) + 7]
        /\ mem'[regs(u) + 8] = mem[regs(u) + 8] /\ mem'[regs(u) + 9] = mem[regs(u) + 9]
        /\ mem'[regs(u) + 10] = mem[regs(u) + 10]
    BY <1>2, <1>3 DEF BlockStays
  <1> QED BY <1>4 DEF Block

LEMMA InstructionStep ==
    ASSUME TasksInv, Instruction
    PROVE  TasksInv' /\ (InTask' \/ cpu'.eip = cpu.eip + 1)
  <1> DEFINE p == cpu.eip
  <1>0. /\ TaskType /\ running \in TaskIds /\ p \in 1 .. 46 /\ ~InTask
        /\ running' = running /\ link' = link /\ made' = made /\ readyByte' = readyByte
        /\ frame' = frame /\ expected' = expected
    BY Program DEF TasksInv, TaskType, Instruction, InTask, Switching
  <1>1. made = Count
    <2>1. Handler(0) = 1000
      BY DEF Handler
    <2>2. made \in 0 .. Count /\ Count \in Nat
      BY <1>0, TasksAssumption DEF TaskType
    <2>3. made < Count => p = 1000
      BY <2>1 DEF TasksInv
    <2> QED BY <1>0, <2>2, <2>3
  <1>2. /\ From \in TaskIds /\ From' = From /\ Preempted(From)
        /\ \A u \in TaskIds : Kept(u) /\ (u # Busy => Block(u))
    <2>1. From \in TaskIds /\ From' = From
      BY <1>0, TasksAssumption DEF From, TaskIds
    <2>2. \A u \in TaskIds : u < made
      BY <1>1, TasksAssumption DEF TaskIds
    <2>3. Preempted(From)
      BY <1>0 DEF TasksInv
    <2>4. \A u \in TaskIds : Kept(u) /\ (u # Busy => Block(u))
      BY <2>2 DEF TasksInv
    <2> QED BY <2>1, <2>3, <2>4
  <1>3. /\ p <= 23 => Busy = From
        /\ p >= 24 => Busy = -1
    BY <1>0 DEF Busy
  <1>4. ASSUME cpu' \in [Registers -> Int], mem' \in [Memory -> Int],
               \A u \in TaskIds : WordStays(u),
               \A u \in TaskIds : u # Busy' => Block(u)',
               InTask' => cpu' = expected[running],
               cpu'.eip \in 1 .. 25 => Leaving(From)', cpu'.eip \in 26 .. 46 => Arriving(running)'
        PROVE  TasksInv'
    <2>1. TaskType'
      BY <1>0, <1>4 DEF TaskType
    <2>2. \A u \in TaskIds : Kept(u)'
      BY <1>0, <1>2, <1>4, KeptStays
    <2>3. Preempted(From)'
      BY <1>0, <1>2, <1>4, KeptStays
    <2>4. made' = Count
      BY <1>0, <1>1
    <2>5. (\A u \in TaskIds : link[u] = IF u < made - 1 THEN u + 1 ELSE -1)'
      BY <1>0 DEF TasksInv
    <2>6. LeavingStack(From)' /\ LeavingRegisters(From)' /\ LeavingBlock(From)' <=> Leaving(From)'
      BY DEF Leaving
    <2>7. ArrivingStack(running)' /\ ArrivingRegisters(running)' <=> Arriving(running)'
      BY DEF Arriving
    <2>8. (made < Count => running = 0 /\ cpu.eip = Handler(0))'
      BY <2>4, TasksAssumption
    <2>9. (\A u \in TaskIds : u < made \/ u = 0 => Kept(u))'
      BY <2>2
    <2>10. (\A u \in TaskIds : u < made /\ u # Busy => Block(u))'
      BY <1>4
    <2>11. (InTask => cpu = expected[running])' /\ (~InTask => Preempted(From) /\ readyByte)'
      BY <1>0, <1>4, <2>3 DEF TasksInv
    <2>12. /\ (cpu.eip \in 1 .. 25 => LeavingStack(From) /\ LeavingRegisters(From) /\ LeavingBlock(From))'
           /\ (cpu.eip \in 26 .. 46 => ArrivingStack(running) /\ ArrivingRegisters(running))'
      BY <1>4, <2>6, <2>7
    <2> QED BY <2>1, <2>5, <2>8, <2>9, <2>10, <2>11, <2>12 DEF TasksInv
  <1>5. CASE p \in 1 .. 25
    <2>1. Leaves(From)
      BY <1>0, <1>2, <1>5 DEF Leaves, Leaving, TasksInv
    <2>2. CASE p <= 24
      <3>1. Left(From) /\ Leaving(From)'
        BY <1>0, <1>2, <2>1, <2>2, LeavingSteps
      <3>2. cpu' \in [Registers -> Int] /\ mem' \in [Memory -> Int] /\ cpu'.eip = p + 1
        BY <3>1 DEF Left
      <3>3. ~InTask' /\ cpu'.eip \in 1 .. 25
        BY <1>0, <2>2, <3>2, Program DEF InTask, Switching
      <3>4. \A u \in TaskIds : WordStays(u) /\ (u # From \/ p >= 24 => BlockStays(u))
        BY <1>2, <3>1, LeavesOthers DEF Left
      <3>5. ASSUME NEW u \in TaskIds, u # Busy'
            PROVE  Block(u)'
        <4>1. p <= 22 => Busy' = From
          BY <1>0, <1>2, <3>2, <3>3 DEF Busy
        <4>2. CASE u # From \/ p >= 24
          <5>1. u # Busy
            BY <1>0, <1>3, <4>2 DEF TaskIds
          <5> QED BY <1>0, <1>2, <3>4, <4>2, <5>1, BlockKept
        <4>3. CASE u = From /\ p = 23
          <5>1. LeavingBlock(From)' /\ cpu'.eip = 24
            BY <3>1, <3>2, <4>3 DEF Leaving
          <5> QED BY <1>2, <4>3, <5>1 DEF LeavingBlock, Block
        <4> QED BY <1>0, <2>2, <3>5, <4>1, <4>2, <4>3
      <3> QED BY <1>4, <3>1, <3>2, <3>3, <3>4, <3>5
    <2>3. CASE p = 25
      <3>1. Arrived(running)
        BY <1>0, <1>2, <2>1, <2>3, LeavingLast
      <3>2. cpu' \in [Registers -> Int] /\ mem' \in [Memory -> Int] /\ cpu'.eip = 26 /\ 26 = p + 1
        BY <2>3, <3>1 DEF Arrived
      <3>3. ~InTask' /\ cpu'.eip \in 26 .. 46
        BY <3>2, Program DEF InTask, Switching
      <3>4. \A u \in TaskIds : WordStays(u) /\ Block(u)'
        BY <1>0, <1>2, <1>3, <2>3, <3>1, BlockKept DEF Arrived, Spares, TaskIds
      <3> QED BY <1>4, <3>1, <3>2, <3>3, <3>4 DEF Arrived
    <2> QED BY <1>5, <2>2, <2>3
  <1>6. CASE p \in 26 .. 46
    <2>1. \A u \in TaskIds : Block(u)
      BY <1>2, <1>3, <1>6 DEF TaskIds
    <2>2. Arrives(running)
      BY <1>0, <1>2, <1>6, <2>1 DEF Arrives, Arriving, TasksInv
    <2>3. CASE p <= 45
      <3>1. Arrived(running)
        BY <1>0, <1>6, <2>2, <2>3, ArrivingSteps
      <3>2. cpu' \in [Registers -> Int] /\ mem' \in [Memory -> Int] /\ cpu'.eip = p + 1
        BY <3>1 DEF Arrived
      <3>3. ~InTask' /\ cpu'.eip \in 26 .. 46
        BY <1>6, <2>3, <3>2, Program DEF InTask, Switching
      <3>4. \A u \in TaskIds : WordStays(u) /\ Block(u)'
        BY <1>0, <2>1, <3>1, BlockKept DEF Arrived, Spares
      <3> QED BY <1>4, <3>1, <3>2, <3>3, <3>4 DEF Arrived
    <2>4. CASE p = 46
      <3>1. cpu' = expected[running] /\ mem' \in [Memory -> Int] /\ Spares
        BY <1>0, <2>2, <2>4, ArrivingReturns
      <3>2. cpu' \in [Registers -> Int]
        BY <1>0, <3>1 DEF TaskType
      <3>3. cpu'.eip >= 999
        BY <1>0, <1>2, <3>1 DEF Kept, Preempted, Returned, Handler, TaskIds
      <3>4. \A u \in TaskIds : WordStays(u) /\ Block(u)'
        BY <1>0, <2>1, <3>1, BlockKept DEF Spares
      <3>5. InTask'
        BY <3>3, Program DEF InTask, Switching
      <3> QED BY <1>4, <3>1, <3>2, <3>3, <3>4, <3>5
    <2> QED BY <1>6, <2>3, <2>4
  <1> QED BY <1>0, <1>5, <1>6

LEMMA NotSwitching ==
    /\ Switching = 1 .. 46 /\ Returned \notin Switching /\ 1 \in Switching
    /\ \A u \in TaskIds : Handler(u) \notin Switching /\ Handler(u) # Returned
    /\ \A u, v \in TaskIds : u # v => Handler(u) # Handler(v)
  <1>1. Switching = 1 .. 46
    BY Program DEF Switching
  <1> QED BY <1>1 DEF Returned, Handler, TaskIds

LEMMA SlotType == \A r \in Registers : Slot(0, r) \in Int
  <1> TAKE r \in Registers
  <1> DEFINE i == CHOOSE i \in 1 .. 11 : Slots[i] = r
  <1>1. \E j \in 1 .. 11 : Slots[j] = r
    BY DEF Registers
  <1>2. i \in 1 .. 11
    BY <1>1
  <1>3. Slot(0, r) = regs(0) + i - 1
    BY Zenon DEF Slot
  <1>4. regs(0) \in Int
    BY DEF regs
  <1> HIDE DEF i
  <1> QED BY <1>2, <1>3, <1>4

LEMMA TasksInitially == TasksInit => TasksInv
  <1> SUFFICES ASSUME TasksInit PROVE TasksInv
    OBVIOUS
  <1>0. 0 \in TaskIds /\ StackTop(0) \in Int /\ Handler(0) \in Int /\ FrameWords \in Nat /\ Count \in Nat
        /\ Count >= 2
    <2>1. 0 \in TaskIds
      BY TasksAssumption DEF TaskIds
    <2> QED BY <2>1, TasksAssumption, StacksApart DEF Handler
  <1>1. /\ cpu \in [Registers -> Int] /\ cpu.esp = StackTop(0) /\ cpu.eip = Handler(0)
    BY <1>0, RegisterNames DEF TasksInit
  <1>2. /\ running = 0 /\ made = 0 /\ expected = [t \in TaskIds |-> cpu]
        /\ link = [t \in TaskIds |-> -1] /\ mem = [a \in Memory |-> 0]
        /\ readyByte = FALSE /\ frame = 0
    BY DEF TasksInit, TaskIds
  <1>3. TaskType
    <2>1. mem \in [Memory -> Int] /\ expected \in [TaskIds -> [Registers -> Int]]
      BY <1>1, <1>2
    <2>2. link \in [TaskIds -> Int] /\ made \in 0 .. Count
      BY <1>0, <1>2
    <2> QED BY <1>0, <1>1, <1>2, <2>1, <2>2 DEF TaskType
  <1>4. expected[0] = cpu
    BY <1>0, <1>2
  <1>5. InTask /\ cpu.eip \notin 1 .. 25 /\ cpu.eip \notin 26 .. 46
    BY <1>0, <1>1, NotSwitching DEF InTask
  <1>6. Kept(0)
    BY <1>1, <1>4 DEF Kept
  <1>7. \A u \in TaskIds : ~(u < made) /\ ~(u < made - 1)
    BY <1>2 DEF TaskIds
  <1>8. \A u \in TaskIds : link[u] = IF u < made - 1 THEN u + 1 ELSE -1
    BY <1>2, <1>7
  <1> QED BY <1>1, <1>2, <1>3, <1>4, <1>5, <1>6, <1>7, <1>8 DEF TasksInv

LEMMA InitTaskingStep ==
    ASSUME TasksInv, initTasking
    PROVE  TasksInv'
  <1>0. 0 \in TaskIds /\ FrameWords \in Nat /\ Count \in Nat /\ Count >= 2
    BY TasksAssumption DEF TaskIds
  <1>1. /\ TaskType /\ made = 0 /\ made' = 1 /\ running' = 0 /\ running = 0 /\ cpu' = cpu
        /\ link' = link /\ expected' = expected /\ readyByte' \in BOOLEAN /\ frame' \in {0, FrameWords}
        /\ cpu.eip = Handler(0)
    BY <1>0 DEF TasksInv, initTasking
  <1>2. mem' \in [Memory -> Int]
    <2>1. cpu["cr3"] \in Int /\ cpu["eflags"] \in Int
      BY <1>1, RegisterNames DEF TaskType
    <2> QED BY <1>1, <2>1 DEF initTasking, TaskType
  <1>3. TaskType'
    BY <1>0, <1>1, <1>2 DEF TaskType
  <1>4. InTask /\ cpu.eip \notin 1 .. 25 /\ cpu.eip \notin 26 .. 46
    BY <1>0, <1>1, NotSwitching DEF InTask
  <1>5. expected[0] = cpu
    BY <1>1, <1>4 DEF TasksInv
  <1>6. Kept(0)'
    <2>1. Kept(0) /\ ~Preempted(0)
      BY <1>0, <1>1, <1>5, NotSwitching DEF TasksInv, Preempted
    <2> QED BY <1>1, <2>1 DEF Kept
  <1>7. \A u \in TaskIds : (u < 1 \/ u = 0 => u = 0) /\ ~(u < 0) /\ (u < 1 => u = 0) /\ ~(u < 0 - 1)
    BY DEF TaskIds
  <1>8. InTask'
    BY <1>1, <1>4 DEF InTask
  <1>9. Busy' = 0
    <2>1. cpu'.eip \notin 1 .. 23
      BY <1>1, <1>4
    <2> QED BY <1>1, <1>8, <2>1 DEF Busy
  <1>10. (\A u \in TaskIds : link[u] = IF u < made - 1 THEN u + 1 ELSE -1)'
    BY <1>1, <1>7 DEF TasksInv
  <1>11. (\A u \in TaskIds : u < made \/ u = 0 => Kept(u))'
    BY <1>1, <1>6, <1>7
  <1>12. (\A u \in TaskIds : u < made /\ u # Busy => Block(u))'
    BY <1>1, <1>7, <1>9
  <1> QED BY <1>1, <1>3, <1>4, <1>5, <1>8, <1>10, <1>11, <1>12 DEF TasksInv

LEMMA CreateTaskStep ==
    ASSUME TasksInv, createTask
    PROVE  TasksInv'
  <1> DEFINE t == made
  <1>0. 0 \in TaskIds /\ FrameWords \in Nat /\ Count \in Nat /\ Count >= 2
    BY TasksAssumption DEF TaskIds
  <1>1. /\ TaskType /\ t \in TaskIds /\ t >= 1 /\ made' = t + 1 /\ made' \in 0 .. Count
        /\ running' = 0 /\ running = 0 /\ cpu' = cpu /\ readyByte' = readyByte /\ frame' = frame
        /\ cpu.eip = Handler(0) /\ link' = Linked(t) /\ expected' = [expected EXCEPT ![t] = Start(t)]
        /\ mem' = [a \in Memory |-> IF a \in regs(t) .. regs(t) + 10
                                    THEN Start(t)[Slots[a - regs(t) + 1]] ELSE mem[a]]
    BY <1>0 DEF TasksInv, createTask, TaskIds
  <1>2. /\ Start(t) \in [Registers -> Int]
        /\ Start(t).esp = StackTop(t) /\ Start(t).eip = Handler(t)
    <2>1. /\ StackTop(t) \in Int /\ Handler(t) \in Int
      BY <1>1, StacksApart DEF Handler, TaskIds
    <2>2. \A r \in {"eflags", "cr3"} : mem[Slot(0, r)] \in Int
      <3>1. regs(0) \in Nat /\ regs(0) + 11 <= StackTop(0) - 17 - FrameWords /\ StackTop(0) \in Nat
            /\ \A a \in 0 .. StackTop(0) - 1 : a \in Memory
        BY <1>0, Bounds
      <3>2. regs(0) + 9 \in Memory /\ regs(0) + 10 \in Memory
        BY <1>0, <3>1
      <3> QED BY <1>0, <1>1, <3>2, SlotNumbers DEF TaskType
    <2>3. mem[Slot(t, "ebp")] \in Int
      <3>1. regs(t) \in Nat /\ regs(t) + 11 <= StackTop(t) - 17 - FrameWords /\ StackTop(t) \in Nat
            /\ \A a \in 0 .. StackTop(t) - 1 : a \in Memory
        BY <1>1, Bounds
      <3>2. regs(t) + 7 \in Memory
        BY <1>0, <3>1
      <3> QED BY <1>1, <3>2, SlotNumbers DEF TaskType
    <2> QED BY <1>1, <2>1, <2>2, <2>3, RegisterNames DEF Start
  <1> DEFINE start == Start(t)
  <1> HIDE DEF start
  <1>3. /\ expected' = [expected EXCEPT ![t] = start] /\ start \in [Registers -> Int]
        /\ start.esp = StackTop(t) /\ start.eip = Handler(t)
        /\ mem' = [a \in Memory |-> IF a \in regs(t) .. regs(t) + 10
                                    THEN start[Slots[a - regs(t) + 1]] ELSE mem[a]]
    BY <1>1, <1>2 DEF start
  <1>4. expected' \in [TaskIds -> [Registers -> Int]]
    BY <1>1, <1>3 DEF TaskType
  <1>5. /\ expected'[t] = start
        /\ \A u \in TaskIds : u # t => expected'[u] = expected[u]
    BY <1>1, <1>3 DEF TaskType
  <1>6. /\ mem' \in [Memory -> Int]
        /\ \A k \in 0 .. 10 : mem'[regs(t) + k] = start[Slots[k + 1]]
        /\ \A a \in Memory : a \notin regs(t) .. regs(t) + 10 => mem'[a] = mem[a]
    <2>1. regs(t) \in Nat /\ regs(t) + 11 <= StackTop(t) - 17 - FrameWords /\ StackTop(t) \in Nat
          /\ \A a \in 0 .. StackTop(t) - 1 : a \in Memory
      BY <1>1, Bounds
    <2>2. \A i \in 1 .. 11 : Slots[i] \in Registers
      BY DEF Registers
    <2>3. ASSUME NEW a \in Memory, a \in regs(t) .. regs(t) + 10
          PROVE  start[Slots[a - regs(t) + 1]] \in Int
      <3>1. a - regs(t) + 1 \in 1 .. 11
        BY <2>1, <2>3
      <3>2. Slots[a - regs(t) + 1] \in Registers
        BY <2>2, <3>1
      <3> QED BY <1>3, <3>2
    <2>4. mem' \in [Memory -> Int]
      BY <1>1, <1>3, <2>3 DEF TaskType
    <2>5. ASSUME NEW k \in 0 .. 10
          PROVE  mem'[regs(t) + k] = start[Slots[k + 1]]
      <3>1. regs(t) + k \in Memory /\ regs(t) + k \in regs(t) .. regs(t) + 10
            /\ (regs(t) + k) - regs(t) + 1 = k + 1
        BY <1>0, <2>1
      <3> QED BY <1>3, <3>1
    <2>6. \A a \in Memory : a \notin regs(t) .. regs(t) + 10 => mem'[a] = mem[a]
      BY <1>3
    <2> QED BY <2>4, <2>5, <2>6
  <1>7. /\ link' \in [TaskIds -> Int]
        /\ \A u \in TaskIds : link'[u] = IF u < t THEN u + 1 ELSE -1
    <2>1. link' = [link EXCEPT ![t] = -1, ![t - 1] = t]
      BY <1>1 DEF Linked
    <2>3. t - 1 \in TaskIds
      BY <1>0, <1>1 DEF TaskIds
    <2>2. link \in [TaskIds -> Int] /\ \A u \in TaskIds : link[u] = IF u < t - 1 THEN u + 1 ELSE -1
      BY <1>1 DEF TaskType, TasksInv
    <2> QED BY <1>1, <2>1, <2>2, <2>3 DEF TaskIds
  <1>8. TaskType'
    BY <1>0, <1>1, <1>4, <1>6, <1>7 DEF TaskType
  <1>9. InTask /\ cpu.eip \notin 1 .. 25 /\ cpu.eip \notin 26 .. 46
    BY <1>0, <1>1, NotSwitching DEF InTask
  <1>10. expected'[0] = cpu /\ InTask' /\ Busy' = 0
    <2>1. expected[0] = cpu
      BY <1>1, <1>9 DEF TasksInv
    <2>2. InTask'
      BY <1>1, <1>9 DEF InTask
    <2>3. cpu'.eip \notin 1 .. 23
      BY <1>1, <1>9
    <2>4. Busy' = 0
      BY <1>1, <2>2, <2>3 DEF Busy
    <2> QED BY <1>0, <1>1, <1>5, <2>1, <2>2, <2>4
  <1>11. ASSUME NEW u \in TaskIds, u < t
         PROVE  WordStays(u) /\ BlockStays(u) /\ u # t /\ expected'[u] = expected[u]
    <2>1. /\ regs(t) \in Nat /\ regs(u) \in Nat /\ regs(t) + 11 <= 11 * Count
          /\ (regs(u) + 11 <= regs(t) \/ regs(t) + 11 <= regs(u))
          /\ StackTop(u) \in Nat /\ 11 * Count + StackWords <= StackTop(u)
          /\ StackWords \in Nat /\ StackWords >= 17 /\ u # t
          /\ regs(u) + 11 <= StackTop(u)
          /\ \A a \in 0 .. StackTop(u) - 1 : a \in Memory
      <3>1. u # t
        BY <1>1, <1>11 DEF TaskIds
      <3>2. FrameWords \in Nat /\ StackWords \in Nat /\ StackWords >= FrameWords + 17
            /\ StackTop(u) \in Nat /\ 11 * Count + StackWords <= StackTop(u)
        BY StacksApart
      <3>3. StackWords >= 17
        BY <3>2
      <3>4. regs(u) \in Nat /\ regs(u) + 11 <= StackTop(u) - 17 - FrameWords
            /\ \A a \in 0 .. StackTop(u) - 1 : a \in Memory
        BY Bounds
      <3>5. regs(u) + 11 <= StackTop(u)
        BY <3>2, <3>4
      <3> QED BY <1>1, <3>1, <3>2, <3>3, <3>4, <3>5, Blocks
    <2>2. StackTop(u) - 1 \in Memory /\ StackTop(u) - 1 \notin regs(t) .. regs(t) + 10
      BY <1>0, <2>1
    <2>3. ASSUME NEW k \in 0 .. 10
          PROVE  regs(u) + k \in Memory /\ regs(u) + k \notin regs(t) .. regs(t) + 10
      BY <2>1
    <2> QED BY <1>5, <1>6, <2>1, <2>2, <2>3 DEF WordStays, BlockStays
  <1>12. \A u \in TaskIds : u < t + 1 \/ u = 0 => u < t \/ u = t
    BY <1>1 DEF TaskIds
  <1>13. ASSUME NEW u \in TaskIds, u < t \/ u = t
         PROVE  Kept(u)'
    <2>1. CASE u < t
      <3>1. Kept(u)
        BY <2>1 DEF TasksInv
      <3> QED BY <1>11, <2>1, <3>1 DEF Kept, Preempted, WordStays
    <2>2. CASE u = t
      BY <1>3, <1>5, <2>2 DEF Kept
    <2> QED BY <1>13, <2>1, <2>2
  <1>14. ASSUME NEW u \in TaskIds, u < t \/ u = t, u # 0
         PROVE  Block(u)'
    <2>1. CASE u < t
      <3>1. Block(u)
        <4>1. Busy = 0
          BY <1>1, <1>9 DEF Busy
        <4> QED BY <1>14, <2>1, <4>1 DEF TasksInv
      <3>2. regs(u) + 0 = regs(u)
        BY Blocks
      <3> DEFINE base == regs(u)
      <3>3. \A k \in 0 .. 10 : mem'[base + k] = mem[base + k]
        BY <1>11, <2>1 DEF BlockStays
      <3> HIDE DEF base
      <3>4. /\ mem'[base + 0] = mem[base + 0] /\ mem'[base + 1] = mem[base + 1]
            /\ mem'[base + 2] = mem[base + 2] /\ mem'[base + 3] = mem[base + 3]
            /\ mem'[base + 4] = mem[base + 4] /\ mem'[base + 5] = mem[base + 5]
            /\ mem'[base + 6] = mem[base + 6] /\ mem'[base + 7] = mem[base + 7]
            /\ mem'[base + 8] = mem[base + 8] /\ mem'[base + 9] = mem[base + 9]
            /\ mem'[base + 10] = mem[base + 10]
        BY <3>3
      <3> QED BY <1>11, <2>1, <3>1, <3>2, <3>4 DEF Block, base
    <2>2. CASE u = t
      <3> DEFINE base == regs(t)
      <3>1. base + 0 = base
        BY <1>1, Blocks
      <3>2. \A k \in 0 .. 10 : mem'[base + k] = start[Slots[k + 1]]
        BY <1>6
      <3> HIDE DEF base
      <3>3. /\ mem'[base + 0] = start["eax"] /\ mem'[base + 1] = start["ebx"]
            /\ mem'[base + 2] = start["ecx"] /\ mem'[base + 3] = start["edx"]
            /\ mem'[base + 4] = start["esi"] /\ mem'[base + 5] = start["edi"]
            /\ mem'[base + 6] = start["esp"] /\ mem'[base + 7] = start["ebp"]
            /\ mem'[base + 8] = start["eip"] /\ mem'[base + 9] = start["eflags"]
            /\ mem'[base + 10] = start["cr3"]
        BY <3>2 DEF Slots
      <3> QED BY <1>5, <2>2, <3>1, <3>3 DEF Block, base
    <2> QED BY <1>14, <2>1, <2>2
  <1>15. (\A u \in TaskIds : link[u] = IF u < made - 1 THEN u + 1 ELSE -1)'
    BY <1>1, <1>7 DEF TaskIds
  <1>16. (\A u \in TaskIds : u < made \/ u = 0 => Kept(u))'
    BY <1>1, <1>12, <1>13
  <1>17. (\A u \in TaskIds : u < made /\ u # Busy => Block(u))'
    BY <1>1, <1>10, <1>12, <1>14
  <1> QED BY <1>1, <1>8, <1>9, <1>10, <1>15, <1>16, <1>17 DEF TasksInv

\* A register file at the next call of a task.
LEMMA WorkedType ==
    ASSUME TaskType, NEW t \in TaskIds
    PROVE  Worked(t) \in [Registers -> Int]
  <1> DEFINE first == [r \in Registers |->
                          IF r = "cr3" THEN cpu.cr3 ELSE 100 * (t + 1) + Slot(0, r)]
             later == [r \in Registers |-> IF r = "cr3" THEN cpu.cr3 ELSE first[r] + 20]
  <1>1. cpu.cr3 \in Int /\ t \in Int
    BY RegisterNames DEF TaskType, TaskIds
  <1>2. first \in [Registers -> Int]
    <2>1. \A r \in Registers : 100 * (t + 1) + Slot(0, r) \in Int
      BY <1>1, SlotType
    <2> QED BY <1>1, <2>1
  <1>3. later \in [Registers -> Int]
    <2> HIDE DEF first
    <2> QED BY <1>1, <1>2
  <1>4. Worked(t) = first \/ Worked(t) = later
    BY DEF Worked
  <1> QED BY <1>2, <1>3, <1>4

LEMMA PreemptStep ==
    ASSUME TasksInv, k_preempt
    PROVE  TasksInv' /\ From' = running /\ cpu'.eip = 1 /\ ~InTask'
  <1>00. running \in TaskIds
    BY DEF TasksInv, TaskType
  <1> PICK t \in TaskIds : t = running
    BY <1>00
  <1> DEFINE top == StackTop(t)
             next == IF link[t] # -1 THEN link[t] ELSE 0
             own == [Worked(t) EXCEPT !["esp"] = top - 4, !["eip"] = 1]
             found == [own EXCEPT !["esp"] = top - 3, !["eip"] = Returned]
  <1>0. Count \in Nat /\ Count >= 2 /\ FrameWords \in Nat
    BY TasksAssumption
  <1>1. /\ TaskType /\ made = Count /\ t \in TaskIds /\ InTask /\ cpu = expected[t]
        /\ made' = made /\ link' = link /\ readyByte' = readyByte /\ frame' = frame /\ readyByte
        /\ \A u \in TaskIds : u < made /\ link[u] = (IF u < made - 1 THEN u + 1 ELSE -1) /\ Kept(u)
        /\ \A u \in TaskIds : u # t => Block(u)
    <2>1. /\ TaskType /\ made = Count /\ t \in TaskIds /\ InTask
          /\ made' = made /\ link' = link /\ readyByte' = readyByte /\ frame' = frame /\ readyByte
      BY DEF TasksInv, k_preempt, TaskType
    <2>2. cpu = expected[t]
      BY <2>1 DEF TasksInv
    <2>3. cpu.eip \notin 1 .. 23
      BY <2>1, NotSwitching DEF InTask
    <2>4. Busy = t
      BY <2>1, <2>3 DEF Busy
    <2>5. \A u \in TaskIds : u < made
      BY <1>0, <2>1 DEF TaskIds
    <2> QED BY <2>1, <2>2, <2>4, <2>5 DEF TasksInv
  <1>2. /\ next \in TaskIds /\ next = IF t = Count - 1 THEN 0 ELSE t + 1
    <2>1. link[t] = IF t < Count - 1 THEN t + 1 ELSE -1
      BY <1>1
    <2> QED BY <1>0, <1>1, <2>1 DEF TaskIds
  <1> DEFINE sp == IF cpu.eip = Returned THEN cpu.esp + 3 ELSE cpu.esp
  <1>3. sp = top /\ top \in Nat /\ regs(t) + 11 <= top - 17 - FrameWords /\ regs(t) \in Nat
        /\ \A a \in 0 .. top - 1 : a \in Memory
    <2>1. top \in Nat /\ regs(t) + 11 <= top - 17 - FrameWords /\ regs(t) \in Nat
          /\ \A a \in 0 .. top - 1 : a \in Memory
      BY <1>1, Bounds
    <2>2. \/ cpu.esp = top - 3 /\ cpu.eip = Returned
          \/ cpu.esp = top /\ cpu.eip = Handler(t)
      BY <1>1 DEF Kept, Preempted
    <2> QED BY <1>1, <2>1, <2>2, NotSwitching
  <1>4. /\ cpu' = own /\ running' = next
        /\ mem' = [mem EXCEPT ![top - 1] = -2 - t, ![top - 2] = regs(next),
                              ![top - 3] = regs(t), ![top - 4] = Returned]
        /\ expected' = [expected EXCEPT ![t] = found]
    <2>1. /\ cpu' = [Worked(t) EXCEPT !.esp = sp - 4, !.eip = 1] /\ running' = next
          /\ mem' = [mem EXCEPT ![sp - 1] = -2 - t, ![sp - 2] = regs(next),
                                ![sp - 3] = regs(t), ![sp - 4] = Returned]
          /\ expected' = [expected EXCEPT
                 ![t] = [[Worked(t) EXCEPT !.esp = sp - 4, !.eip = 1] EXCEPT !.esp = sp - 3, !.eip = Returned]]
      BY DEF k_preempt
    <2>2. sp = top
      BY <1>3
    <2> HIDE DEF sp, top, next
    <2> QED BY <2>1, <2>2
  <1>5. Worked(t) \in [Registers -> Int]
    BY <1>1, WorkedType
  <1> HIDE DEF top, next, sp
  <1>6. /\ own \in [Registers -> Int] /\ own["esp"] = top - 4 /\ own["eip"] = 1
        /\ \A r \in Registers \ {"esp", "eip"} : own[r] = Worked(t)[r]
    BY <1>3, <1>5, RegisterNames
  <1> HIDE DEF own
  <1>7. /\ found \in [Registers -> Int] /\ found["esp"] = top - 3 /\ found["eip"] = Returned
        /\ \A r \in Registers \ {"esp", "eip"} : found[r] = own[r]
    BY <1>3, <1>6, RegisterNames DEF Returned
  <1> HIDE DEF found
  <1>8. /\ expected' \in [TaskIds -> [Registers -> Int]] /\ expected'[t] = found
        /\ \A u \in TaskIds : u # t => expected'[u] = expected[u]
    BY <1>1, <1>4, <1>7 DEF TaskType
  <1>9. /\ top - 1 \in Memory /\ top - 2 \in Memory /\ top - 3 \in Memory /\ top - 4 \in Memory
    BY <1>0, <1>3
  <1>10. /\ mem' \in [Memory -> Int] /\ mem'[top - 1] = -2 - t /\ mem'[top - 2] = regs(next)
         /\ mem'[top - 3] = regs(t) /\ mem'[top - 4] = Returned
         /\ \A a \in Memory : a < top - 4 \/ a > top - 1 => mem'[a] = mem[a]
    <2>1. regs(next) \in Int /\ regs(t) \in Int /\ t \in Int /\ Returned \in Int
      BY <1>1, <1>2, Blocks DEF TaskIds, Returned
    <2>2. mem \in [Memory -> Int]
      BY <1>1 DEF TaskType
    <2> QED BY <1>3, <1>4, <1>9, <2>1, <2>2
  <1>11. TaskType'
    BY <1>1, <1>2, <1>4, <1>6, <1>8, <1>10 DEF TaskType
  <1>12. From' = t
    BY <1>0, <1>1, <1>2, <1>4 DEF From, TaskIds
  <1>13. cpu'.eip = 1 /\ ~InTask' /\ Busy' = t
    <2>1. cpu'.eip = 1
      BY <1>4, <1>6
    <2>2. ~InTask'
      BY <2>1, NotSwitching DEF InTask
    <2> QED BY <1>12, <2>1, <2>2 DEF Busy
  <1>14. Preempted(t)'
    BY <1>7, <1>8, <1>10 DEF Preempted, top
  <1>15. ASSUME NEW u \in TaskIds, u # t
         PROVE  WordStays(u) /\ BlockStays(u)
    <2>1. Elsewhere(top - 4, top - 1)
      BY <1>10 DEF Elsewhere
    <2>2. /\ StackTop(u) \in Nat /\ regs(u) \in Nat /\ StackWords \in Nat /\ StackWords >= FrameWords + 17
          /\ (u < t => StackTop(u) + StackWords <= StackTop(t))
          /\ (t < u => StackTop(t) + StackWords <= StackTop(u)) /\ (u < t \/ t < u)
          /\ 11 * Count + StackWords <= StackTop(t) /\ regs(u) + 11 <= 11 * Count
      <3>1. u < t \/ t < u
        BY <1>1, <1>15 DEF TaskIds
      <3> QED BY <1>1, <3>1, StacksApart, Blocks
    <2>3. \A a \in 0 .. StackTop(u) - 1 : a \in Memory
      BY Bounds
    <2>4. regs(u) + 11 <= StackTop(u) - 17 - FrameWords
      BY Bounds
    <2>5. StackTop(u) - 1 \in Memory /\ (StackTop(u) - 1 < top - 4 \/ StackTop(u) - 1 > top - 1)
      BY <1>0, <1>3, <2>2, <2>3, <2>4 DEF top
    <2>6. ASSUME NEW k \in 0 .. 10
          PROVE  regs(u) + k \in Memory /\ regs(u) + k < top - 4
      BY <1>0, <1>3, <2>2, <2>3, <2>4 DEF top
    <2> QED BY <2>1, <2>5, <2>6 DEF Elsewhere, WordStays, BlockStays
  <1>16. ASSUME NEW u \in TaskIds
         PROVE  Kept(u)'
    <2>1. CASE u = t
      BY <1>14, <2>1 DEF Kept
    <2>2. CASE u # t
      BY <1>1, <1>8, <1>15, <2>2 DEF Kept, Preempted, WordStays
    <2> QED BY <2>1, <2>2
  <1>17. ASSUME NEW u \in TaskIds, u # t
         PROVE  Block(u)'
    <2> DEFINE base == regs(u)
    <2>1. base + 0 = base /\ Block(u) /\ expected'[u] = expected[u]
      BY <1>1, <1>8, <1>17, Blocks
    <2>2. \A k \in 0 .. 10 : mem'[base + k] = mem[base + k]
      BY <1>15, <1>17 DEF BlockStays
    <2> HIDE DEF base
    <2>3. /\ mem'[base + 0] = mem[base + 0] /\ mem'[base + 1] = mem[base + 1]
          /\ mem'[base + 2] = mem[base + 2] /\ mem'[base + 3] = mem[base + 3]
          /\ mem'[base + 4] = mem[base + 4] /\ mem'[base + 5] = mem[base + 5]
          /\ mem'[base + 6] = mem[base + 6] /\ mem'[base + 7] = mem[base + 7]
          /\ mem'[base + 8] = mem[base + 8] /\ mem'[base + 9] = mem[base + 9]
          /\ mem'[base + 10] = mem[base + 10]
      BY <2>2
    <2> QED BY <2>1, <2>3 DEF Block, base
  <1>18. LeavingStack(t)' /\ LeavingRegisters(t)' /\ LeavingBlock(t)'
    <2>1. cpu'["esp"] = top - 4
      BY <1>4, <1>6
    <2>2. LeavingStack(t)'
      BY <1>4, <1>10, <1>13, <2>1 DEF LeavingStack, top
    <2>3. \A r \in Registers \ {"esp", "eip"} : cpu'[r] = expected'[t][r]
      BY <1>4, <1>7, <1>8
    <2>4. LeavingRegisters(t)'
      BY <1>13, <2>3, RegisterNames DEF LeavingRegisters
    <2> QED BY <1>13, <2>2, <2>4 DEF LeavingBlock
  <1>19. (\A u \in TaskIds : link[u] = IF u < made - 1 THEN u + 1 ELSE -1)'
    BY <1>1
  <1>20. (\A u \in TaskIds : u < made \/ u = 0 => Kept(u))'
    BY <1>16
  <1>21. (\A u \in TaskIds : u < made /\ u # Busy => Block(u))'
    BY <1>13, <1>17
  <1>22. (made < Count => running = 0 /\ cpu.eip = Handler(0))'
    BY <1>0, <1>1
  <1>23. (cpu.eip \in 1 .. 25 => LeavingStack(From) /\ LeavingRegisters(From) /\ LeavingBlock(From))'
    BY <1>12, <1>18
  <1>24. (~InTask => Preempted(From) /\ readyByte)'
    BY <1>1, <1>12, <1>14
  <1>25. TasksInv'
    BY <1>11, <1>13, <1>19, <1>20, <1>21, <1>22, <1>23, <1>24 DEF TasksInv
  <1> QED BY <1>12, <1>13, <1>25

LEMMA TasksStutter ==
    ASSUME TasksInv, UNCHANGED taskVars
    PROVE  TasksInv'
  BY DEF TasksInv, taskVars, TaskType, From, Block, Preempted, Kept, LeavingStack, LeavingRegisters,
         LeavingBlock, ArrivingStack, ArrivingRegisters, Busy, InTask

\* Every step of the tasks keeps the invariant.
LEMMA TasksKeep ==
    ASSUME TasksInv, TaskStep \/ UNCHANGED taskVars
    PROVE  TasksInv'
  BY InstructionStep, InitTaskingStep, CreateTaskStep, PreemptStep, TasksStutter DEF TaskStep, NobodyReady

-----------------------------------------------------------------------------
(* The theorems.                                                           *)

LEMMA TasksInductive == Spec => []TasksInv
  <1>1. Init => TasksInv
    BY TasksInitially DEF Init
  <1>2. TasksInv /\ [Next]_vars => TasksInv'
    <2> SUFFICES ASSUME TasksInv, [Next]_vars PROVE TasksInv'
      OBVIOUS
    <2>1. TaskStep \/ UNCHANGED taskVars
      BY DEF Next, vars, kmain, Test, ReadTime, Delay, RunTasks, TimerTick, Drive, ChipStarts, ChipEnds
    <2> QED BY <2>1, TasksKeep
  <1> QED BY <1>1, <1>2, PTL DEF Spec

\* A task that goes on has the registers it called k_preempt with and its local
\* word where it left it: for any number of tasks, any distance of their stacks
\* with room for switchTask and one handler's frame, and a handler after any
\* instruction.
THEOREM TasksGoOn == Spec => []Resumes
  <1>1. TasksInv => Resumes
    <2> SUFFICES ASSUME TasksInv, InTask, made = Count
                 PROVE  /\ cpu = expected[running]
                        /\ cpu.eip = Returned => mem[cpu.esp + 2] = -2 - running
      BY DEF Resumes
    <2>1. running \in TaskIds /\ running < made /\ StackTop(running) \in Nat
      <3>1. running \in TaskIds
        BY DEF TasksInv, TaskType
      <3> QED BY <3>1, TasksAssumption, StacksApart DEF TaskIds
    <2>2. Kept(running) /\ cpu = expected[running]
      BY <2>1 DEF TasksInv
    <2>3. ASSUME cpu.eip = Returned
          PROVE  mem[cpu.esp + 2] = -2 - running
      <3>1. Preempted(running)
        BY <2>1, <2>2, <2>3, NotSwitching DEF Kept
      <3>2. cpu.esp = StackTop(running) - 3 /\ mem[StackTop(running) - 1] = -2 - running
        BY <2>2, <3>1 DEF Preempted
      <3>3. cpu.esp + 2 = StackTop(running) - 1
        BY <2>1, <3>2
      <3> QED BY <3>2, <3>3
    <2> QED BY <2>2, <2>3
  <1> QED BY <1>1, TasksInductive, PTL

\* The stack in use is the task's that runs, and until instruction 38 of
\* switchTask still that of the task that called it.
StackUsed == made = Count => Owner = IF InTask \/ cpu.eip >= 38 THEN running ELSE From

LEMMA StackInUse == TasksInv => StackUsed
  <1> SUFFICES ASSUME TasksInv, made = Count
               PROVE  Owner = IF InTask \/ cpu.eip >= 38 THEN running ELSE From
    BY DEF StackUsed
  <1>0. /\ StackWords \in Nat /\ StackWords >= 17 + FrameWords /\ FrameWords \in Nat
        /\ Count \in Nat /\ Count >= 2
        /\ running \in TaskIds /\ From \in TaskIds /\ \A u \in TaskIds : Kept(u)
    <2>1. running \in TaskIds
      BY DEF TasksInv, TaskType
    <2>2. Count \in Nat /\ Count >= 2
      BY TasksAssumption
    <2>3. From \in TaskIds
      BY <2>1, <2>2 DEF From, TaskIds
    <2>4. \A u \in TaskIds : Kept(u)
      BY <2>2 DEF TasksInv, TaskIds
    <2> QED BY <2>1, <2>2, <2>3, <2>4, TasksAssumption
  <1>1. ASSUME NEW u \in TaskIds, NEW esp \in Int, cpu.esp = esp,
               esp <= StackTop(u), esp >= StackTop(u) - 16
        PROVE  Owner = u
    <2> DEFINE d == esp - 11 * Count - 1
               product == u * StackWords
    <2>1. /\ u \in Nat /\ product \in Nat /\ StackTop(u) = 11 * Count + (product + StackWords)
      <3>1. u \in Nat /\ product \in Nat
        BY <1>0 DEF TaskIds
      <3>2. (u + 1) * StackWords = product + StackWords
        BY <1>0, <3>1
      <3> QED BY <3>1, <3>2 DEF StackTop
    <2> HIDE DEF product
    <2>2. d \in Nat /\ product <= d /\ d < product + StackWords
      BY <1>0, <1>1, <2>1
    <2> HIDE DEF d
    <2>3. ASSUME NEW a \in Nat, NEW b \in Nat, NEW s \in Nat, s > 0, b * s <= a, a < b * s + s
          PROVE  a \div s = b
      BY <2>3
    <2>4. d \div StackWords = u
      BY <1>0, <2>1, <2>2, <2>3 DEF product
    <2> QED BY <1>1, <2>4 DEF Owner, d
  <1>2. \A u \in TaskIds : StackTop(u) \in Nat
    BY StacksApart
  <1>3. CASE InTask
    <2>1. cpu = expected[running] /\ Kept(running)
      BY <1>0, <1>3 DEF TasksInv
    <2>2. cpu.esp = StackTop(running) \/ cpu.esp = StackTop(running) - 3
      BY <2>1 DEF Kept, Preempted
    <2>3. Owner = running
      BY <1>0, <1>1, <1>2, <2>2
    <2> QED BY <1>3, <2>3
  <1>4. CASE ~InTask
    <2>1. cpu.eip \in 1 .. 46
      BY <1>4, NotSwitching DEF InTask
    <2>2. CASE cpu.eip <= 25
      <3>1. \E k \in {4, 12, 13, 14} : cpu.esp = StackTop(From) - k
        BY <2>1, <2>2 DEF TasksInv, LeavingStack
      <3>2. Owner = From
        BY <1>0, <1>1, <1>2, <3>1
      <3> QED BY <1>4, <2>1, <2>2, <3>2
    <2>3. CASE cpu.eip \in 26 .. 37
      <3>1. \E k \in {14, 15, 16} : cpu.esp = StackTop(From) - k
        BY <2>1, <2>3 DEF TasksInv, ArrivingStack
      <3>2. Owner = From
        BY <1>0, <1>1, <1>2, <3>1
      <3> QED BY <1>4, <2>1, <2>3, <3>2
    <2>4. CASE cpu.eip >= 38
      <3>1. cpu.esp = expected[running].esp \/ cpu.esp = expected[running].esp - 1
        BY <2>1, <2>4 DEF TasksInv, ArrivingStack
      <3>2. Kept(running)
        BY <1>0
      <3>3. \E k \in {0, 1, 3, 4} : cpu.esp = StackTop(running) - k
        <4>1. expected[running].esp = StackTop(running) \/ expected[running].esp = StackTop(running) - 3
          BY <3>2 DEF Kept, Preempted
        <4> QED BY <1>0, <1>2, <3>1, <4>1
      <3>4. Owner = running
        BY <1>0, <1>1, <1>2, <3>3
      <3> QED BY <2>4, <3>4
    <2> QED BY <2>1, <2>2, <2>3, <2>4
  <1> QED BY <1>3, <1>4

LEMMA TurnStep ==
    ASSUME TasksInv, TasksInv', StackUsed, StackUsed', TaskStep
    PROVE  [Switched!TurnOn \/ Switched!Pass]_(<<Owner, made = Count /\ readyByte>>)
  <1> DEFINE on == made = Count /\ readyByte
  <1>0. Count \in Nat /\ Count >= 2 /\ 0 \in TaskIds
    BY TasksAssumption DEF TaskIds
  <1>1. CASE initTasking
    <2>1. made # Count /\ made' # Count
      BY <1>0, <1>1 DEF initTasking
    <2> QED BY <2>1 DEF Owner
  <1>2. CASE createTask
    <2>1. made # Count /\ Owner = 0 /\ ~on
      BY <1>0, <1>2 DEF createTask, Owner
    <2>2. CASE made' # Count
      BY <2>1, <2>2 DEF Owner
    <2>3. CASE made' = Count
      <3>1. running' = 0 /\ cpu.eip = Handler(0) /\ cpu' = cpu /\ readyByte' = readyByte
        BY <1>0, <1>2, <2>1 DEF createTask, TasksInv, TaskType
      <3>2. InTask'
        BY <1>0, <3>1, NotSwitching DEF InTask
      <3>3. Owner' = 0
        BY <2>3, <3>1, <3>2 DEF StackUsed
      <3> QED BY <2>1, <2>3, <3>3 DEF Switched!TurnOn
    <2> QED BY <2>2, <2>3
  <1>3. CASE Instruction
    <2>1. /\ made' = made /\ readyByte' = readyByte /\ running' = running /\ From' = From
          /\ ~InTask /\ readyByte /\ cpu.eip \in 1 .. 46 /\ running \in TaskIds
      BY <1>3, NotSwitching DEF Instruction, InTask, TasksInv, TaskType, From
    <2>2. made = Count
      <3>1. made < Count => cpu.eip = 1000
        BY DEF TasksInv, Handler
      <3>2. made \in 0 .. Count
        BY DEF TasksInv, TaskType
      <3> QED BY <1>0, <2>1, <3>1, <3>2
    <2>3. running = (From + 1) % Count
      BY <1>0, <2>1 DEF From, TaskIds
    <2>4. Owner \in {running, From} /\ Owner' \in {running, From}
      BY <2>1, <2>2 DEF StackUsed
    <2>5. Owner = running => Owner' = running
      <3>1. CASE From = running
        BY <2>4, <3>1
      <3>2. CASE From # running
        <4>1. Owner = running => cpu.eip >= 38
          BY <2>1, <2>2, <3>2 DEF StackUsed
        <4>2. InTask' \/ cpu'.eip = cpu.eip + 1
          BY <1>3, InstructionStep
        <4> QED BY <2>1, <2>2, <4>1, <4>2 DEF StackUsed
      <3> QED BY <3>1, <3>2
    <2>6. Owner # running => Owner' = Owner \/ Switched!Pass
      BY <2>1, <2>2, <2>3, <2>4 DEF Switched!Pass
    <2> QED BY <2>1, <2>2, <2>4, <2>5, <2>6
  <1>4. CASE k_preempt
    <2>1. From' = running /\ cpu'.eip = 1 /\ ~InTask' /\ made' = made /\ made = Count /\ InTask
          /\ readyByte' = readyByte
      BY <1>4, PreemptStep DEF k_preempt
    <2>2. Owner = running /\ Owner' = From'
      BY <2>1 DEF StackUsed
    <2> QED BY <2>1, <2>2
  <1>5. CASE NobodyReady
    BY <1>5 DEF NobodyReady, taskVars, Owner
  <1> QED BY <1>1, <1>2, <1>3, <1>4, <1>5 DEF TaskStep

\* The safety of round robin: switching is turned on once, with the first task's
\* stack in use, and after that the stack in use is the next task's each time.
THEOREM TasksTakeTurns == Spec => Switched!Turns
  <1>1. Init => Owner = 0 /\ (made = Count /\ readyByte) = FALSE
    BY TasksAssumption DEF Init, TasksInit, Owner
  <1>2. TasksInv /\ TasksInv' /\ StackUsed /\ StackUsed' /\ [Next]_vars
        => [Switched!TurnOn \/ Switched!Pass]_(<<Owner, made = Count /\ readyByte>>)
    <2> SUFFICES ASSUME TasksInv, TasksInv', StackUsed, StackUsed', [Next]_vars
                 PROVE  [Switched!TurnOn \/ Switched!Pass]_(<<Owner, made = Count /\ readyByte>>)
      OBVIOUS
    <2>1. TaskStep \/ UNCHANGED taskVars
      BY DEF Next, vars, kmain, Test, ReadTime, Delay, RunTasks, TimerTick, Drive, ChipStarts, ChipEnds
    <2>2. CASE UNCHANGED taskVars
      BY <2>2 DEF taskVars, Owner
    <2> QED BY <2>1, <2>2, TurnStep
  <1> QED BY <1>1, <1>2, StackInUse, TasksInductive, PTL DEF Spec, Switched!Turns
=============================================================================
