------------------------------ MODULE KeyQueue ------------------------------
(***************************************************************************)
(* What the keyboard buffer of kb.c promises its readers: a first-in       *)
(* first-out queue of make codes.  A read takes the oldest code, or says   *)
(* that there is none; a key is added at the other end.  Past its capacity *)
(* the queue promises nothing any more ("overrun").                        *)
(***************************************************************************)
EXTENDS Sequences, Naturals

CONSTANTS
    Keys,       \* the make codes a keyboard sends
    Capacity    \* the number of unread codes the queue must hold

VARIABLES
    queue,      \* the unread codes, oldest first
    taken,      \* the code a reader has taken, or 0
    overrun     \* TRUE once the promise is void

queueVars == <<queue, taken, overrun>>

Init == queue = <<>> /\ taken = 0 /\ overrun = FALSE

\* A key is pressed while there is room for it.
Put(k) ==
    /\ ~overrun
    /\ Len(queue) < Capacity
    /\ queue' = Append(queue, k)
    /\ UNCHANGED <<taken, overrun>>

\* A reader takes the oldest code.
Take ==
    /\ ~overrun
    /\ queue # <<>>
    /\ queue' = Tail(queue)
    /\ taken' = Head(queue)
    /\ UNCHANGED overrun

\* A reader is told that the queue is empty, or is done with what it took.
TakeNone ==
    /\ ~overrun
    /\ taken' = 0
    /\ UNCHANGED <<queue, overrun>>

\* A key too many: from here on nothing is promised.
Overrun ==
    /\ ~overrun
    /\ overrun' = TRUE
    /\ queue' = <<>>
    /\ taken' = 0

Next == (\E k \in Keys : Put(k)) \/ Take \/ TakeNone \/ Overrun

Spec == Init /\ [][Next]_queueVars
=============================================================================
