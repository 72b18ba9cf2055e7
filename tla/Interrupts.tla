----------------------------- MODULE Interrupts -----------------------------
(***************************************************************************)
(* How a hardware interrupt travels through the kernel: the two 8259s      *)
(* (their registers are external hardware, modelled as isrs.c programs and *)
(* reads them), the processor's interrupt flag, the stub of asm/start.s,   *)
(* irq_handler and irq_ack (isrs.c), and the boot sequence of kmain that   *)
(* installs all this before it enables interrupts.                         *)
(*                                                                         *)
(* IRQs are numbered as in the code: 0-7 on the first controller, 8-15 on  *)
(* the second, which hangs on line 2 of the first.  "irr" and "isr" are    *)
(* the combined 16-bit registers that pic_get_irr and pic_get_isr return.  *)
(***************************************************************************)
EXTENDS Naturals, Sequences, FiniteSets

CONSTANTS
    Lines,      \* the lines that devices raise
    NoisyLines, \* the lines whose request may disappear again
    Masks,      \* the masks the firmware may have left in the controllers
    CountMod    \* the counters are taken modulo this: 2^32 in isrs.c

ASSUME LinesAssumption == Lines \subseteq (0 .. 15) \ {2} /\ 0 \in Lines
ASSUME NoisyAssumption == NoisyLines \subseteq Lines
ASSUME MasksAssumption == Masks \subseteq SUBSET (0 .. 15)
ASSUME CountModAssumption == CountMod \in Nat \ {0}

VARIABLES
    irr, isr, imr,  \* requested, in-service and masked lines
    noise,          \* the vector of a request that disappeared, or "none"
    intf,           \* the processor's interrupt flag (EFLAGS.IF)
    shadow,         \* the instruction after sti still runs uninterrupted
    boot,           \* how far kmain has come
    irq_routines,   \* the installed handlers
    stack,          \* the frames of the interrupts being handled, top last
    ring3,          \* the keyboard handler has left for user mode
    irq_counts, irq_spurious, _timer_ticks,
    delivered, faked    \* history: real and spurious interrupts delivered

picVars  == <<irr, isr, imr, noise>>
cpuVars  == <<intf, shadow, stack, ring3>>
bootVars == <<boot, irq_routines>>
counters == <<irq_counts, irq_spurious, _timer_ticks>>
history  == <<delivered, faked>>
vars     == <<picVars, cpuVars, bootVars, counters, history>>

Irqs    == 0 .. 15
Vectors == Lines \cup {7, 15}       \* what a controller may answer with
Inc(n)  == (n + 1) % CountMod

Init ==
    /\ irr \in SUBSET Lines         \* latched before the kernel started
    /\ isr = {}
    /\ imr \in Masks
    /\ noise = "none"
    /\ intf = FALSE                 \* start.s: cli before kmain
    /\ shadow = FALSE
    /\ boot = "gdt"
    /\ irq_routines = [i \in Irqs |-> "none"]
    /\ stack = <<>>
    /\ ring3 = FALSE
    /\ irq_counts = [i \in Vectors |-> 0]
    /\ irq_spurious = [i \in Vectors |-> 0]
    /\ _timer_ticks = 0
    /\ delivered = [i \in Vectors |-> 0]
    /\ faked = [i \in Vectors |-> 0]

-----------------------------------------------------------------------------
(* The controllers.                                                        *)

\* A device raises its line; the request stays latched.
Raise(l) ==
    /\ l \notin irr
    /\ irr' = irr \cup {l}
    /\ UNCHANGED <<isr, imr, noise, cpuVars, bootVars, counters, history>>

\* The in-service bits of an interrupt: line 2 stands for the second chip.
Bits(i) == IF i >= 8 THEN {i, 2} ELSE {i}

\* Lines in the order of priority: 8-15 stand in the place of line 2.
Rank(i) == IF i >= 8 THEN 2 * 16 + i ELSE i * 16

\* The controllers signal a request that is not masked and that outranks
\* everything in service.
Signalled(l) ==
    /\ l \in irr
    /\ Bits(l) \cap imr = {}
    /\ \A s \in isr \ {2} : Rank(l) < Rank(s)
    /\ 2 \in isr => l < 2
Top(l) == Signalled(l) /\ \A m \in irr : Signalled(m) => Rank(l) <= Rank(m)

CanDeliver == intf /\ ~shadow /\ ~ring3

\* A line drops again.  When the processor listens it has been told of the
\* request already and is about to ask for a vector nobody wants.
Disappear(l) ==
    /\ Top(l)
    /\ irr' = irr \ {l}
    /\ noise' = IF ~CanDeliver THEN noise
                ELSE IF l >= 8 THEN "slave" ELSE "master"
    /\ UNCHANGED <<isr, imr, cpuVars, bootVars, counters, history>>

\* irq_ack's commands: a non-specific end of interrupt retires the highest
\* in-service bit of the chip it is sent to.
Highest(S)    == {i \in S : \A j \in S : i <= j}
SlaveEoi(s)   == s \ Highest({i \in s : i >= 8})
MasterEoi(s)  == s \ Highest({i \in s : i < 8})

-----------------------------------------------------------------------------
(* Delivery.  Between two instructions of the interrupted code.            *)

Pending    == (\E l \in irr : Signalled(l)) \/ noise # "none"

\* The gates of the IRQs are interrupt gates (0x8E): entering one clears IF.
GateClearsIF == TRUE

Enter(v, real) ==
    /\ stack' = Append(stack, [irq |-> v, real |-> real, at |-> "cli"])
    /\ intf' = (intf /\ ~GateClearsIF)
    /\ noise' = "none"
    /\ UNCHANGED <<imr, shadow, ring3, bootVars, counters>>

Deliver(l) ==
    /\ CanDeliver
    /\ Top(l)
    /\ irr' = irr \ {l}
    /\ isr' = isr \cup Bits(l)
    /\ delivered' = [delivered EXCEPT ![l] = Inc(@)]
    /\ UNCHANGED faked
    /\ Enter(l, TRUE)

\* Without a request to answer with, the chip gives its lowest priority; the
\* first chip has served line 2 when it is the second one that does so.
DeliverSpurious ==
    /\ CanDeliver
    /\ noise # "none"
    /\ ~\E l \in irr : Signalled(l)
    /\ LET v == IF noise = "slave" THEN 15 ELSE 7
       IN  /\ isr' = IF v = 15 THEN isr \cup {2} ELSE isr
           /\ faked' = [faked EXCEPT ![v] = Inc(@)]
           /\ UNCHANGED <<irr, delivered>>
           /\ Enter(v, FALSE)

-----------------------------------------------------------------------------
(* The stub (irq_common_stub) and irq_handler, one step per access to      *)
(* shared state; the top frame runs.                                       *)

Frame           == stack[Len(stack)]
irq             == Frame.irq
Running(place)  == stack # <<>> /\ Frame.at = place /\ ~ring3
Continue(place) == stack' = [stack EXCEPT ![Len(stack)].at = place]

\* irqN: cli.
StubCli ==
    /\ Running("cli")
    /\ intf' = FALSE
    /\ Continue("check")
    /\ UNCHANGED <<picVars, shadow, ring3, bootVars, counters, history>>

\* Mutant: only IRQ 7 is suspected.
CheckSpurious7 ==
    /\ Running("check")
    /\ irq_spurious' = IF irq \in isr \/ irq # 7 THEN irq_spurious
                       ELSE [irq_spurious EXCEPT ![irq] = Inc(@)]
    /\ Continue("handler")
    /\ UNCHANGED <<picVars, intf, shadow, ring3, bootVars, irq_counts,
                   _timer_ticks, history>>

\* The in-service register tells a spurious interrupt; it is only counted.
CheckSpurious ==
    /\ Running("check")
    /\ irq_spurious' = IF irq \in isr THEN irq_spurious
                       ELSE [irq_spurious EXCEPT ![irq] = Inc(@)]
    /\ Continue("handler")
    /\ UNCHANGED <<picVars, intf, shadow, ring3, bootVars, irq_counts,
                   _timer_ticks, history>>

\* Mutant: every installed handler counts a tick.
CallHandlerTicks ==
    /\ Running("handler")
    /\ _timer_ticks' = IF irq_routines[irq] # "none" THEN Inc(_timer_ticks)
                       ELSE _timer_ticks
    /\ Continue("ack")
    /\ UNCHANGED <<picVars, intf, shadow, ring3, bootVars, irq_counts,
                   irq_spurious, history>>

\* Mutant: an interrupt without a handler stays where it is.
CallHandlerOnly ==
    /\ Running("handler")
    /\ irq_routines[irq] # "none"
    /\ _timer_ticks' = IF irq_routines[irq] = "timer" THEN Inc(_timer_ticks)
                       ELSE _timer_ticks
    /\ Continue("ack")
    /\ UNCHANGED <<picVars, intf, shadow, ring3, bootVars, irq_counts,
                   irq_spurious, history>>

\* The installed handler, if there is one.
CallHandler ==
    /\ Running("handler")
    /\ _timer_ticks' = IF irq_routines[irq] = "timer" THEN Inc(_timer_ticks)
                       ELSE _timer_ticks
    /\ Continue("ack")
    /\ UNCHANGED <<picVars, intf, shadow, ring3, bootVars, irq_counts,
                   irq_spurious, history>>

\* The keyboard's handler on F2: jump_usermode does not come back, and the
\* flags it gives to user mode have IF clear.
PressF2 ==
    /\ Running("handler")
    /\ irq_routines[irq] = "keyboard"
    /\ ring3' = TRUE
    /\ UNCHANGED <<picVars, intf, shadow, stack, bootVars, counters, history>>

\* Mutant: the second chip gets no EOI.
AckSlaveNot ==
    /\ Running("ack")
    /\ Continue("ack1")
    /\ UNCHANGED <<picVars, intf, shadow, ring3, bootVars, counters, history>>

\* irq_ack: the second chip first.
AckSlave ==
    /\ Running("ack")
    /\ isr' = IF irq >= 8 THEN SlaveEoi(isr) ELSE isr
    /\ Continue("ack1")
    /\ UNCHANGED <<irr, imr, noise, intf, shadow, ring3, bootVars, counters,
                   history>>

\* Mutant: one EOI, to the chip the interrupt came from.
AckOneChip ==
    /\ Running("ack1")
    /\ isr' = IF irq >= 8 THEN isr ELSE MasterEoi(isr)
    /\ Continue("count")
    /\ UNCHANGED <<irr, imr, noise, intf, shadow, ring3, bootVars, counters,
                   history>>

AckMaster ==
    /\ Running("ack1")
    /\ isr' = MasterEoi(isr)
    /\ Continue("count")
    /\ UNCHANGED <<irr, imr, noise, intf, shadow, ring3, bootVars, counters,
                   history>>

\* Mutant: interrupts without a handler are not counted.
CountHandled ==
    /\ Running("count")
    /\ irq_counts' = IF irq_routines[irq] = "none" THEN irq_counts
                     ELSE [irq_counts EXCEPT ![irq] = Inc(@)]
    /\ Continue("sti")
    /\ UNCHANGED <<picVars, intf, shadow, ring3, bootVars, irq_spurious,
                   _timer_ticks, history>>

CountIrq ==
    /\ Running("count")
    /\ irq_counts' = [irq_counts EXCEPT ![irq] = Inc(@)]
    /\ Continue("sti")
    /\ UNCHANGED <<picVars, intf, shadow, ring3, bootVars, irq_spurious,
                   _timer_ticks, history>>

\* Mutant: more than one instruction between sti and iret.
StubStiEarly ==
    /\ Running("sti")
    /\ intf' = TRUE
    /\ shadow' = FALSE
    /\ Continue("iret")
    /\ UNCHANGED <<picVars, ring3, bootVars, counters, history>>

\* The stub enables interrupts one instruction before it returns.
StubSti ==
    /\ Running("sti")
    /\ intf' = TRUE
    /\ shadow' = ~intf
    /\ Continue("iret")
    /\ UNCHANGED <<picVars, ring3, bootVars, counters, history>>

\* iret restores the flags: interrupts were enabled where this one came in.
StubIret ==
    /\ Running("iret")
    /\ intf' = TRUE
    /\ shadow' = FALSE
    /\ stack' = SubSeq(stack, 1, Len(stack) - 1)
    /\ UNCHANGED <<picVars, ring3, bootVars, counters, history>>

-----------------------------------------------------------------------------
(* The main line: the boot sequence of kmain, then code with and without   *)
(* interrupts (hd.c and test_harddisk have cli/sti windows).               *)

\* An instruction runs unless an interrupt is taken in its place.
MainRuns == stack = <<>> /\ ~ring3 /\ ~(CanDeliver /\ Pending)
Booting(from, to) == MainRuns /\ boot = from /\ boot' = to

\* idt_install: the gates are set and the controllers remapped; their
\* initialisation forgets requests and services, the masks are put back.
IdtInstall ==
    /\ Booting("gdt", "timer")
    /\ irr' = {} /\ isr' = {} /\ noise' = "none"
    /\ UNCHANGED <<imr, cpuVars, irq_routines, counters, history>>

\* timer_install.
TimerInstall ==
    /\ Booting("timer", "ps2")
    /\ irq_routines' = [irq_routines EXCEPT ![0] = "timer"]
    /\ UNCHANGED <<picVars, cpuVars, counters, history>>

\* ps2_install: the mouse's handler only if the mouse is there.
Ps2Install ==
    /\ Booting("ps2", "sti")
    /\ \E mouse \in BOOLEAN :
        irq_routines' = [irq_routines EXCEPT
            ![1] = "keyboard", ![12] = IF mouse THEN "mouse" ELSE @]
    /\ UNCHANGED <<picVars, cpuVars, counters, history>>

\* Mutant: sti before ps2_install.
EnableEarly ==
    /\ Booting("ps2", "up")
    /\ intf' = TRUE
    /\ shadow' = TRUE
    /\ UNCHANGED <<picVars, stack, ring3, irq_routines, counters, history>>

EnableInterrupts ==
    /\ Booting("sti", "up")
    /\ intf' = TRUE
    /\ shadow' = TRUE
    /\ UNCHANGED <<picVars, stack, ring3, irq_routines, counters, history>>

\* Any other instruction of the main line ends the shadow of sti.
Work ==
    /\ MainRuns /\ boot = "up" /\ shadow
    /\ shadow' = FALSE
    /\ UNCHANGED <<picVars, intf, stack, ring3, bootVars, counters, history>>

\* No cli of the kernel directly follows a sti.
MainCli ==
    /\ MainRuns /\ boot = "up" /\ intf /\ ~shadow
    /\ intf' = FALSE
    /\ UNCHANGED <<picVars, shadow, stack, ring3, bootVars, counters, history>>

MainSti ==
    /\ MainRuns /\ boot = "up" /\ ~intf
    /\ intf' = TRUE /\ shadow' = TRUE
    /\ UNCHANGED <<picVars, stack, ring3, bootVars, counters, history>>

Stub == \/ StubCli \/ CheckSpurious \/ CallHandler \/ PressF2 \/ AckSlave
        \/ AckMaster \/ CountIrq \/ StubSti \/ StubIret
Main == \/ IdtInstall \/ TimerInstall \/ Ps2Install \/ EnableInterrupts
        \/ Work \/ MainSti
Interrupt == (\E l \in Lines : Deliver(l)) \/ DeliverSpurious
Device == \/ \E l \in Lines : Raise(l)
          \/ \E l \in NoisyLines : Disappear(l)

Next == Stub \/ Main \/ MainCli \/ Interrupt \/ Device

\* The processor does not stop; cli windows end; devices owe nothing.
Spec == Init /\ [][Next]_vars /\ WF_vars(Stub \/ Main \/ Interrupt)

-----------------------------------------------------------------------------
(* Properties.                                                             *)

FramePlaces == {"cli", "check", "handler", "ack", "ack1", "count", "sti", "iret"}
Frames      == [irq : Vectors, real : BOOLEAN, at : FramePlaces]
Counter     == [Vectors -> 0 .. CountMod - 1]

TypeOK ==
    /\ irr \subseteq Lines
    /\ isr \subseteq Irqs
    /\ imr \in Masks
    /\ noise \in {"none", "master", "slave"}
    /\ intf \in BOOLEAN /\ shadow \in BOOLEAN /\ ring3 \in BOOLEAN
    /\ boot \in {"gdt", "timer", "ps2", "sti", "up"}
    /\ irq_routines \in [Irqs -> {"none", "timer", "keyboard", "mouse"}]
    /\ stack \in Seq(Frames)
    /\ irq_counts \in Counter /\ irq_spurious \in Counter
    /\ _timer_ticks \in 0 .. CountMod - 1
    /\ delivered \in Counter /\ faked \in Counter

\* An interrupt is never taken inside the handling of another one: the gate
\* clears IF and the stub's sti is one instruction before its iret.  The
\* interrupt stack use is therefore one frame, and the handlers of keyboard,
\* mouse and timer need no lock against each other.
OneFrame == Len(stack) <= 1

Before(places) == stack # <<>> /\ Frame.at \in places

\* What the interrupt being handled has in service and not yet acknowledged.
Unacknowledged ==
    IF Before({"cli", "check", "handler", "ack"})
    THEN IF Frame.real THEN Bits(irq)
         ELSE IF irq = 15 THEN {2} ELSE {}
    ELSE IF Before({"ack1"})
    THEN IF irq >= 8 THEN {2} ELSE IF Frame.real THEN {irq} ELSE {}
    ELSE {}

\* The non-specific EOIs of irq_ack retire the interrupt being handled, all
\* of it and no other, although irq_handler also sends them for spurious
\* interrupts: nothing is left in service when the main line runs.
InServiceExact == isr = Unacknowledged

One(b) == IF b THEN 1 ELSE 0

\* irq_counts counts every interrupt delivered, real or not, exactly once.
CountsExact ==
    \A v \in Vectors :
        (irq_counts[v] + One(Before(FramePlaces \ {"sti", "iret"}) /\ irq = v))
            % CountMod = (delivered[v] + faked[v]) % CountMod

\* The test of the in-service register finds exactly the spurious ones.
SpuriousExact ==
    \A v \in Vectors :
        (irq_spurious[v] + One(Before({"cli", "check"}) /\ irq = v
                               /\ ~Frame.real)) % CountMod = faked[v]

\* A tick of the timer is a handled IRQ 0, neither more nor less.
TicksExact ==
    _timer_ticks =
        (irq_counts[0] + One(Before({"ack", "ack1", "count"}) /\ irq = 0)) % CountMod

\* kmain enables interrupts when the controllers are remapped and the timer's
\* and the keyboard's handlers installed: no earlier request is delivered to
\* the vector of an exception or dropped for lack of a handler.
HandlersBeforeDelivery ==
    stack # <<>> => /\ boot = "up"
                    /\ irq_routines[0] = "timer"
                    /\ irq_routines[1] = "keyboard"

\* A request that is not masked does not stay latched for ever, unless
\* requests of higher priority keep coming or F2 has been pressed.
Quiet(l) == \A h \in Lines : Rank(h) < Rank(l) => h \notin irr
RequestServed ==
    \A l \in Lines :
        <>[]Quiet(l) =>
            ((l \in irr /\ Bits(l) \cap imr = {}) ~> (l \notin irr \/ ring3))

\* Every interrupt returns to the main line, unless F2 has been pressed.
InterruptReturns == []<>(stack = <<>> \/ ring3)

\* isrs.c: "If it is a spurious IRQ then you ignore it (and do not send the
\* EOI)", of IRQ 7.
SpuriousNotAcked == ~(Before({"ack", "ack1"}) /\ irq = 7 /\ ~Frame.real)
=============================================================================
