--------------------------------- MODULE Rtc --------------------------------
(***************************************************************************)
(* read_rtc of timer.c against the clock chip, which goes on counting.     *)
(* kmain waits until no update is in progress and reads six registers, one *)
(* step each; it repeats this until two readings agree.  The chip keeps    *)
(* each field in the format of its register B.  century_register is 0.     *)
(***************************************************************************)
EXTENDS Integers, Sequences

CONSTANTS
    Starts,         \* the times at which read_rtc may be called
    MaxUpdates      \* bound: updates of the chip during the call

ASSUME RtcAssumption ==
    /\ Starts \subseteq (0 .. 59) \X (0 .. 59) \X (0 .. 23) \X (1 .. 31) \X (1 .. 12)
                        \X (2016 .. 2115)
    /\ MaxUpdates \in Nat

Fields == 1 .. 6    \* second, minute, hour, day, month, year

VARIABLES
    time, binary, hours24,  \* the chip's time and the format in its register B,
    updating, updates,      \* its update in progress, and how many there were
    passes,                 \* whole passes of kmain since the last: none, begun, made
    rpc, reading, last,     \* kmain's place, and its last two readings
    times                   \* history: what the time has been during the call

chipVars == <<time, binary, hours24, updating, updates>>
rtcVars  == <<chipVars, passes, rpc, reading, last, times>>

-----------------------------------------------------------------------------
(* The chip.                                                               *)

\* The days of the month; the chip's leap years are every fourth.
MonthDays(month, year) ==
    CASE month = 2 -> IF year % 4 = 0 THEN 29 ELSE 28
      [] month \in {4, 6, 9, 11} -> 30
      [] OTHER -> 31

\* The next second.  The chip's year has two digits, and read_rtc takes 16 for
\* 2016: so does the model, in which the century ends there.
Successor(t) ==
    LET first == <<0, 0, 0, 1, 1, 2016>>
        final == <<59, 59, 23, MonthDays(t[5], t[6]), 12, 2115>>
    IN  [i \in Fields |->
            IF \A j \in 1 .. i - 1 : t[j] >= final[j]
            THEN IF t[i] >= final[i] THEN first[i] ELSE t[i] + 1
            ELSE t[i]]

Bcd(n) == (n \div 10) * 16 + (n % 10)
Digits(n) == IF binary THEN n ELSE Bcd(n)
Stored(i, n) ==
    CASE i = 6 -> Digits(n % 100)
      [] i = 3 /\ ~hours24 -> Digits(((n + 11) % 12) + 1) + (IF n >= 12 THEN 128 ELSE 0)
      [] OTHER -> Digits(n)

\* A pass takes microseconds of the second between updates: one at least is
\* made whole between two updates.
BeginUpdate ==
    /\ times # {} /\ ~updating /\ updates < MaxUpdates /\ passes = "made"
    /\ updating' = TRUE
    /\ UNCHANGED <<time, binary, hours24, updates, passes, rpc, reading, last, times>>

EndUpdate ==
    /\ updating
    /\ updating' = FALSE /\ updates' = updates + 1 /\ passes' = "none"
    /\ time' = Successor(time) /\ times' = times \cup {time'}
    /\ UNCHANGED <<binary, hours24, rpc, reading, last>>

-----------------------------------------------------------------------------
(* kmain.                                                                  *)

RtcInit ==
    /\ time = <<>> /\ times = {}
    /\ binary = FALSE /\ hours24 = FALSE
    /\ updating = FALSE /\ updates = 0 /\ passes = "made"
    /\ rpc = 0 /\ reading = <<>> /\ last = <<>>

\* The chip has counted until kmain calls read_rtc, in the format it was set to.
read_rtc ==
    /\ rpc = 0 /\ times = {}
    /\ time' \in Starts /\ times' = {time'}
    /\ binary' \in BOOLEAN /\ hours24' \in BOOLEAN
    /\ UNCHANGED <<updating, updates, passes, rpc, reading, last>>

\* while (get_update_in_progress_flag())
get_update_in_progress_flag ==
    /\ rpc = 0 /\ times # {} /\ ~updating
    /\ rpc' = 1 /\ last' = reading /\ reading' = <<>>
    /\ passes' = IF passes = "none" THEN "begun" ELSE passes
    /\ UNCHANGED <<chipVars, times>>

\* While the chip updates, its registers hold the new time or neither.
get_RTC_register ==
    /\ rpc \in Fields
    /\ \E value \in IF updating THEN {Stored(rpc, Successor(time)[rpc]), 255}
                    ELSE {Stored(rpc, time[rpc])} :
           reading' = Append(reading, value)
    /\ rpc' = rpc + 1
    /\ UNCHANGED <<chipVars, passes, last, times>>

\* One reading is enough.
MutantCompare ==
    /\ rpc = 7
    /\ rpc' = IF last = <<>> \/ last = reading THEN 8 ELSE 0
    /\ passes' = IF passes = "begun" THEN "made" ELSE passes
    /\ UNCHANGED <<chipVars, reading, last, times>>

\* while( (last_second != second) || ... )
Compare ==
    /\ rpc = 7
    /\ rpc' = IF last = reading THEN 8 ELSE 0
    /\ passes' = IF passes = "begun" THEN "made" ELSE passes
    /\ UNCHANGED <<chipVars, reading, last, times>>

\* return ret: what the model kept of the call is forgotten.
ReturnTime ==
    /\ rpc = 8 /\ ~updating
    /\ time' = <<>> /\ times' = {} /\ binary' = FALSE /\ hours24' = FALSE
    /\ updates' = 0 /\ passes' = "made"
    /\ rpc' = 0 /\ reading' = <<>> /\ last' = <<>>
    /\ UNCHANGED updating

RtcStep == read_rtc \/ get_update_in_progress_flag \/ get_RTC_register \/ Compare

-----------------------------------------------------------------------------
(* The conversion of the last reading.                                     *)

FromBcd(n) == (n % 16) + (n \div 16) * 10

Hour(raw) ==
    LET pm   == raw >= 128
        hour == IF binary THEN raw % 128 ELSE FromBcd(raw % 128)
    IN  IF ~hours24 /\ pm THEN (hour + 12) % 24 ELSE hour

Year(raw) ==
    LET year == 2000 + (IF binary THEN raw ELSE FromBcd(raw))
    IN  IF year < 2016 THEN year + 100 ELSE year

Converted(raw) ==
    [i \in Fields |-> CASE i = 3 -> Hour(raw[i])
                        [] i = 6 -> Year(raw[i])
                        [] OTHER -> IF binary THEN raw[i] ELSE FromBcd(raw[i])]

=============================================================================
