----------------------------- MODULE RoundRobin -----------------------------
(***************************************************************************)
(* What task switching promises: once it is on, the processor goes round   *)
(* the tasks for ever, each in its turn.                                   *)
(***************************************************************************)
EXTENDS Naturals

CONSTANT Tasks      \* their number
VARIABLES turn, on

TurnOn == ~on /\ on' = TRUE /\ UNCHANGED turn
Pass   == on /\ turn' = (turn + 1) % Tasks /\ UNCHANGED on

Turns == turn = 0 /\ on = FALSE /\ [][TurnOn \/ Pass]_<<turn, on>>

\* The last conjunct is the weak fairness of Pass, which is enabled when on is.
RoundRobin == Turns /\ ([]<>(~on) \/ []<><<Pass>>_<<turn, on>>)
=============================================================================
