------------------------------ MODULE Keyboard ------------------------------
(***************************************************************************)
(* The keyboard buffer of kb.c and its two users.  The interrupt handler   *)
(* (keyboard_handler, kb.c) stores make codes at kb_buf_last; the kernel's *)
(* main line (wait_any_key, kgetch, the SPACE loop of kmain) takes them at *)
(* kb_buf_first through keyboard_read_next.  There is no lock: the handler *)
(* may run between any two machine instructions of the reader, while the   *)
(* reader never runs inside the handler (the handler is one step here; the *)
(* module Interrupts shows that nothing nests inside it).                  *)
(*                                                                         *)
(* The two indices are u8 and wrap at 256, but kb_buf has 255 entries: the *)
(* slot 255 lies behind the array.  What is stored there depends on the    *)
(* build: at -O0, the makefile's setting, kb_buf_first is that byte; an    *)
(* optimised build leaves padding there.  "layout" is that choice.         *)
(***************************************************************************)
EXTENDS Naturals, Sequences

CONSTANTS
    BufSize,    \* MAX_BUFFERED_INPUT_KEYS: 255 in kb.c
    Keys,       \* make codes (release bit clear) the keyboard sends
    F2,         \* SCAN_US_F2, the key that leaves for user mode
    Layouts     \* the layouts the build may produce

Wrap == BufSize + 1             \* the u8 indices are taken modulo this: 256

ASSUME BufSizeAssumption == BufSize \in Nat \ {0}
ASSUME KeysAssumption    == Keys \subseteq 1 .. BufSize
ASSUME LayoutsAssumption == Layouts \subseteq {"first", "pad"}

VARIABLES
    layout,         \* what lies behind kb_buf
    kb_buf,         \* the 255 entries and the byte behind them
    kb_buf_first,   \* next entry to read
    kb_buf_last,    \* next entry to write
    pc,             \* the reader's place in keyboard_read_next
    reg,            \* the register that holds kb_buf_first
    ret,            \* what keyboard_read_next returned last
    caller,         \* which loop of the kernel is reading
    ring3,          \* the handler has left for user mode
    unread,         \* history: codes stored and not yet taken, oldest first
    inflight,       \* history: the code the reader has taken but not fetched
    stale,          \* history: unread codes older than the wait_any_key call
    overrun         \* history: "none", or why codes were lost

bufVars    == <<layout, kb_buf, kb_buf_first, kb_buf_last>>
readerVars == <<pc, reg, ret, caller>>
history    == <<unread, inflight, stale, overrun>>
vars       == <<bufVars, readerVars, ring3, history>>

Callers == {"main", "poll", "drain", "getch"}
Places  == {"called", "compare", "load", "advance", "fetch", "return"}

\* Mutant: an index wider than a u8.
IndexNoWrap(i, n) == i + n

\* A u8 index moved on by n places, n at most a lap.
Index(i, n) == IF i + n < Wrap THEN i + n ELSE i + n - Wrap

Init ==
    /\ layout \in Layouts
    /\ kb_buf = [i \in 0 .. BufSize |-> 0]
    /\ kb_buf_first = 0
    /\ kb_buf_last = 0
    /\ pc = "return"
    /\ reg = 0
    /\ ret = 0
    /\ caller = "main"
    /\ ring3 = FALSE
    /\ unread = <<>>
    /\ inflight = 0
    /\ stale = 0
    /\ overrun = "none"

-----------------------------------------------------------------------------
(* The interrupt handler.                                                  *)

\* Mutant: kb_buf[++kb_buf_last] = scancode.
StorePreIncrement(k) ==
    /\ kb_buf_last' = Index(kb_buf_last, 1)
    /\ kb_buf' = [kb_buf EXCEPT ![Index(kb_buf_last, 1)] = k]
    /\ kb_buf_first' = kb_buf_first

\* kb_buf[kb_buf_last++] = scancode: the byte behind the array is
\* kb_buf_first itself in the layout "first".
Store(k) ==
    /\ kb_buf_last' = Index(kb_buf_last, 1)
    /\ kb_buf' = [kb_buf EXCEPT ![kb_buf_last] = k]
    /\ kb_buf_first' = IF layout = "first" /\ kb_buf_last = BufSize
                       THEN k ELSE kb_buf_first

\* How storing one more code loses others: the store hits kb_buf_first, or
\* a full buffer becomes one that looks empty (there is no check).
Damage ==
    IF layout = "first" /\ kb_buf_last = BufSize THEN "alias"
    ELSE IF Len(unread) = BufSize THEN "full"
    ELSE "none"

\* keyboard_handler on a make code.  On F2 jump_usermode does not come back: the
\* interrupted reader never runs again, and in ring 3 interrupts stay off.
KeyPressed(k) ==
    /\ ~ring3
    /\ ring3' = (k = F2)
    /\ Store(k)
    /\ IF overrun # "none"
       THEN UNCHANGED history
       ELSE IF Damage # "none"
       THEN /\ overrun' = Damage
            /\ unread' = <<>>
            /\ inflight' = 0
            /\ stale' = 0
       ELSE /\ unread' = Append(unread, k)
            /\ UNCHANGED <<inflight, stale, overrun>>
    /\ UNCHANGED <<layout, readerVars>>

-----------------------------------------------------------------------------
(* keyboard_read_next, one machine instruction on shared memory per step.  *)

\* while(kb_buf_first == kb_buf_last): the load of kb_buf_first ...
LoadFirst ==
    /\ pc = "called"
    /\ pc' = "compare"
    /\ reg' = kb_buf_first
    /\ UNCHANGED <<bufVars, ret, caller, history>>

\* Mutant: first < last means there is something to read.
CompareLess ==
    /\ pc = "compare"
    /\ IF reg >= kb_buf_last
       THEN pc' = "return" /\ ret' = 0
       ELSE pc' = "load" /\ UNCHANGED ret
    /\ UNCHANGED <<bufVars, reg, caller, history>>

\* ... and the comparison with kb_buf_last: return 0 when they are equal.
CompareLast ==
    /\ pc = "compare"
    /\ IF reg = kb_buf_last
       THEN pc' = "return" /\ ret' = 0
       ELSE pc' = "load" /\ UNCHANGED ret
    /\ UNCHANGED <<bufVars, reg, caller, history>>

\* Mutant: kb_buf[++kb_buf_first].
ReloadPreIncrement ==
    /\ pc = "load"
    /\ pc' = "advance"
    /\ reg' = Index(kb_buf_first, 1)
    /\ UNCHANGED <<bufVars, ret, caller, history>>

\* return kb_buf[kb_buf_first++]: the index is loaded again ...
ReloadFirst ==
    /\ pc = "load"
    /\ pc' = "advance"
    /\ reg' = kb_buf_first
    /\ UNCHANGED <<bufVars, ret, caller, history>>

\* ... stored back incremented, which gives the slot away ...
Advance ==
    /\ pc = "advance"
    /\ pc' = "fetch"
    /\ kb_buf_first' = Index(reg, 1)
    /\ IF overrun = "none"
       THEN /\ inflight' = Head(unread)
            /\ unread' = Tail(unread)
            /\ stale' = IF stale = 0 THEN 0 ELSE stale - 1
       ELSE UNCHANGED <<unread, inflight, stale>>
    /\ UNCHANGED <<layout, kb_buf, kb_buf_last, reg, ret, caller, overrun>>

\* What the byte at an index holds: behind the array lies kb_buf_first or
\* the padding, which nothing but the handler writes.
Slot(i) == IF i = BufSize /\ layout = "first" THEN kb_buf_first ELSE kb_buf[i]

\* Mutant: the slot is read through the index that has moved on.
FetchMoved ==
    /\ pc = "fetch"
    /\ pc' = "return"
    /\ ret' = Slot(kb_buf_first)
    /\ inflight' = 0
    /\ UNCHANGED <<bufVars, reg, caller, unread, stale, overrun>>

\* ... and only then the slot is read.
Fetch ==
    /\ pc = "fetch"
    /\ pc' = "return"
    /\ ret' = Slot(reg)
    /\ inflight' = 0
    /\ UNCHANGED <<bufVars, reg, caller, unread, stale, overrun>>

-----------------------------------------------------------------------------
(* The callers.  Each one acts when keyboard_read_next has returned.       *)

Call(c) == pc' = "called" /\ caller' = c /\ ret' = 0

\* The SPACE loop of kmain reads once, delays and reads again.
Poll ==
    /\ pc = "return" /\ caller \in {"main", "poll"}
    /\ Call("poll")
    /\ UNCHANGED <<bufVars, reg, history>>

\* wait_any_key is called: first it clears the buffer.
WaitAnyKey ==
    /\ pc = "return" /\ caller \in {"main", "poll"}
    /\ Call("drain")
    /\ stale' = Len(unread)
    /\ UNCHANGED <<bufVars, reg, unread, inflight, overrun>>

\* Mutant: if(keyboard_read_next()) instead of while.
DrainOnce ==
    /\ pc = "return" /\ caller = "drain"
    /\ Call("getch")
    /\ UNCHANGED <<bufVars, reg, history>>

\* while(keyboard_read_next()): until it returns 0; then kgetch.
Drain ==
    /\ pc = "return" /\ caller = "drain"
    /\ Call(IF ret # 0 THEN "drain" ELSE "getch")
    /\ UNCHANGED <<bufVars, reg, history>>

\* kgetch: until it does not return 0.
Getch ==
    /\ pc = "return" /\ caller = "getch"
    /\ IF ret = 0
       THEN Call("getch")
       ELSE caller' = "main" /\ UNCHANGED <<pc, ret>>
    /\ UNCHANGED <<bufVars, reg, history>>

\* The main line runs as long as no handler has left it for ring 3.
MainRuns == ~ring3 /\ UNCHANGED ring3

Read == MainRuns /\ (LoadFirst \/ CompareLast \/ ReloadFirst \/ Advance \/ Fetch)
Wait == MainRuns /\ (Drain \/ Getch)
Main == Wait \/ (MainRuns /\ (Poll \/ WaitAnyKey))

\* The program in user mode does not touch the buffer.
UserMode == ring3 /\ UNCHANGED vars

Next == (\E k \in Keys : KeyPressed(k)) \/ Read \/ Main \/ UserMode

\* The main line keeps executing instructions; nobody has to press keys.
Spec == Init /\ [][Next]_vars /\ WF_vars(Read \/ Wait)

-----------------------------------------------------------------------------
(* Properties.                                                             *)

TypeOK ==
    /\ layout \in Layouts
    /\ kb_buf \in [0 .. BufSize -> Keys \cup {0}]
    /\ kb_buf_first \in 0 .. BufSize
    /\ kb_buf_last \in 0 .. BufSize
    /\ pc \in Places
    /\ reg \in 0 .. BufSize
    /\ ret \in 0 .. BufSize
    /\ caller \in Callers
    /\ ring3 \in BOOLEAN
    /\ unread \in Seq(Keys)
    /\ inflight \in Keys \cup {0}
    /\ stale \in Nat
    /\ overrun \in {"none", "full", "alias"}

\* The part of the buffer between the indices holds exactly the codes that
\* were stored and not taken, in the order in which the keys were pressed.
KeysInOrder ==
    overrun = "none" =>
        /\ kb_buf_last = Index(kb_buf_first, Len(unread))
        /\ \A i \in 1 .. Len(unread) :
              kb_buf[Index(kb_buf_first, i - 1)] = unread[i]

\* keyboard_read_next gives its slot away before it reads it: whatever the
\* handler stores in between, the byte it reads is the code it took.
TakenIsIntact ==
    pc = "fetch" /\ overrun = "none" => inflight # 0 /\ Slot(reg) = inflight

\* When wait_any_key prompts for a key, every key pressed before it was
\* called has been thrown away.
PromptAfterDrain == caller = "getch" => stale = 0

\* A key pressed while kgetch waits ends the wait, unless codes were lost or the
\* key, or one pressed before kgetch fetched it, is F2.
KeyEndsWait ==
    (caller = "getch" /\ unread # <<>>)
        ~> (caller = "main" \/ overrun # "none" \/ ring3)

\* The buffer implements the queue of KeyQueue.
Queue == INSTANCE KeyQueue WITH
    Capacity <- BufSize,
    queue    <- unread,
    taken    <- IF overrun # "none" THEN 0
                ELSE IF pc = "fetch" THEN Slot(reg)
                ELSE IF pc = "return" THEN ret
                ELSE 0,
    overrun  <- overrun # "none"
ImplementsQueue == Queue!Spec

\* kb.c: "currently allow up to 255 characters to be buffered for use".  A key
\* press makes the buffer lose codes only when 255 of them are unread.
LostOnlyWhenFull ==
    [][overrun = "none" /\ overrun' # "none" => Len(unread) = BufSize]_vars
=============================================================================
