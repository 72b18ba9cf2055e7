-------------------------------- MODULE Clock -------------------------------
(***************************************************************************)
(* The delays of timer.c: busy waits of kmain on the tick count that       *)
(* timer_handler, IRQ 0, increments.  The count is a u32 and wraps.        *)
(* _next_preempt is left out: nothing but the handler reads it.            *)
(***************************************************************************)
EXTENDS Integers

CONSTANTS
    Wrap,       \* 2^32
    hz,         \* _timer_hz: 100
    Second,     \* 1000 milliseconds
    Delays      \* the arguments of the delays

ASSUME ClockAssumption ==
    /\ Wrap \in Nat \ {0} /\ hz \in Nat \ {0} /\ Second \in Nat \ {0}
    /\ Delays \subseteq Nat

VARIABLES
    ticks,      \* _timer_ticks
    delay,      \* "idle", "test", "done": kmain's place in the delay
    eticks,     \* the count at which the delay ends
    asked,      \* history: the time asked for, Second to a tick,
    elapsed,    \* the ticks counted since, up to Wrap,
    crossing    \* and whether its end, or a product on the way, wraps

clockVars == <<ticks, delay, eticks, asked, elapsed, crossing>>

ClockInit ==
    /\ ticks = 0 /\ delay = "idle" /\ eticks = 0
    /\ asked = 0 /\ elapsed = 0 /\ crossing = FALSE

timer_handler ==
    /\ ticks' = (ticks + 1) % Wrap
    /\ elapsed' = IF elapsed < Wrap THEN elapsed + 1 ELSE elapsed
    /\ UNCHANGED <<delay, eticks, asked, crossing>>

\* kmain tests the count again before it is missed + 1 ticks late.
Tick(missed) ==
    /\ delay = "test" /\ ticks < eticks + missed
    /\ timer_handler

MutantTicksFromMs(ms) == ((ms \div Second) * hz) % Wrap

\* Both operations in u32.
TicksFromMs(ms) == ((ms * hz) % Wrap) \div Second
TicksFromS(s)   == (s * hz) % Wrap

\* u32 eticks = _timer_ticks + n, a single load of the count
Begin(n, time) ==
    /\ delay = "idle" /\ delay' = "test"
    /\ eticks' = (ticks + n) % Wrap
    /\ asked' = time /\ elapsed' = 0
    /\ UNCHANGED ticks

delay_ticks(n) == Begin(n % Wrap, n * Second) /\ crossing' = (ticks + n >= Wrap)
delay_s(s) ==
    Begin(TicksFromS(s), s * hz * Second) /\ crossing' = (ticks + s * hz >= Wrap)
delay_ms(ms) ==
    /\ Begin(TicksFromMs(ms), ms * hz)
    /\ crossing' = (ms * hz >= Wrap \/ ticks + (ms * hz) \div Second >= Wrap)

\* while(_timer_ticks < eticks)
DelayEnds ==
    /\ delay = "test" /\ ticks >= eticks
    /\ delay' = "done"
    /\ UNCHANGED <<ticks, eticks, asked, elapsed, crossing>>

\* The delay returns: what the model kept of it is forgotten.
ReturnDelay ==
    /\ delay = "done" /\ delay' = "idle"
    /\ asked' = 0 /\ elapsed' = 0 /\ eticks' = 0 /\ crossing' = FALSE
    /\ UNCHANGED ticks

=============================================================================
