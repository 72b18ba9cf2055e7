-------------------------- MODULE Interrupts_proofs --------------------------
(***************************************************************************)
(* Interrupts do not nest, and the end-of-interrupt commands of irq_ack    *)
(* retire exactly the interrupt being handled, for every set of lines,     *)
(* masks and noisy lines.                                                  *)
(***************************************************************************)
EXTENDS Interrupts, TLAPS

\* One frame at most; while it runs interrupts are off, but for the one
\* instruction behind sti, which no interrupt can precede.
FrameInv ==
    /\ stack = <<>> \/ \E f \in Frames : stack = <<f>>
    /\ stack # <<>> =>
        /\ boot = "up"
        /\ Frame.at # "iret" => ~intf /\ ~shadow
        /\ Frame.at = "iret" => intf /\ shadow
        /\ ~Frame.real => irq \in {7, 15}
        /\ Frame.real => irq \in Lines

\* kmain enables interrupts last.
BootInv ==
    /\ boot # "up" => ~intf /\ ~shadow
    /\ boot \in {"ps2", "sti", "up"} => irq_routines[0] = "timer"
    /\ boot \in {"sti", "up"} => irq_routines[1] = "keyboard"

IInv == TypeOK /\ FrameInv /\ BootInv /\ InServiceExact

\* The steps that leave the frame and the flags as they are.
LEMMA DeviceIInv ==
    ASSUME IInv, NEW l \in Lines, Raise(l) \/ Disappear(l)
    PROVE  IInv'
  <1>1. /\ irr' \in SUBSET Lines
        /\ noise' \in {"none", "master", "slave"}
        /\ UNCHANGED <<isr, imr, intf, shadow, stack, ring3, boot, irq_routines,
                       irq_counts, irq_spurious, _timer_ticks, delivered, faked>>
    BY DEF Raise, Disappear, IInv, TypeOK, cpuVars, bootVars, counters, history
  <1>2. TypeOK'
    BY <1>1 DEF IInv, TypeOK, Counter, Vectors, Irqs
  <1>3. FrameInv' /\ BootInv' /\ InServiceExact'
    BY <1>1 DEF IInv, FrameInv, BootInv, InServiceExact, Unacknowledged, Before,
                Frame, irq
  <1> QED BY <1>2, <1>3 DEF IInv

\* A counter stays below its bound.
LEMMA IncType == \A n \in 0 .. CountMod - 1 : Inc(n) \in 0 .. CountMod - 1
  BY CountModAssumption DEF Inc

LEMMA CounterType ==
    ASSUME NEW c \in Counter, NEW v
    PROVE  [c EXCEPT ![v] = Inc(@)] \in Counter
  BY IncType DEF Counter

\* Delivery finds no other frame, and nothing in service.
LEMMA EnterIInv ==
    ASSUME IInv, CanDeliver, NEW v \in Vectors, NEW real \in BOOLEAN,
           Enter(v, real),
           irr' \in SUBSET Lines,
           delivered' \in Counter, faked' \in Counter,
           IF real THEN v \in Lines ELSE v \in {7, 15},
           isr' = isr \cup (IF real THEN Bits(v) ELSE IF v = 15 THEN {2} ELSE {})
    PROVE  IInv'
  <1> DEFINE f == [irq |-> v, real |-> real, at |-> "cli"]
  <1>1. intf /\ ~shadow /\ ~ring3
    BY DEF CanDeliver
  <1>2. stack = <<>> /\ boot = "up"
    BY <1>1 DEF IInv, FrameInv, BootInv, TypeOK
  <1>3. isr = {}
    BY <1>2 DEF IInv, InServiceExact, Unacknowledged, Before
  <1>4. f \in Frames /\ stack' = <<f>>
    BY <1>2 DEF Enter, Frames, FramePlaces
  <1>5. Frame' = f /\ stack' # <<>> /\ irq' = v
    BY <1>4 DEF Frame, irq
  <1>6. /\ intf' = FALSE /\ noise' = "none"
        /\ UNCHANGED <<imr, shadow, ring3, boot, irq_routines, irq_counts,
                       irq_spurious, _timer_ticks>>
    BY DEF Enter, GateClearsIF, bootVars, counters
  <1>7. isr' \subseteq Irqs
    BY <1>3, LinesAssumption DEF Bits, Irqs, Vectors
  <1>8. TypeOK'
    <2>1. stack' \in Seq(Frames)
      BY <1>4
    <2> QED BY <1>6, <1>7, <2>1 DEF IInv, TypeOK
  <1>9. FrameInv'
    BY <1>1, <1>2, <1>4, <1>5, <1>6 DEF FrameInv
  <1>10. BootInv'
    BY <1>1, <1>2, <1>6 DEF IInv, BootInv
  <1>11. InServiceExact'
    BY <1>3, <1>5 DEF InServiceExact, Unacknowledged, Before
  <1> QED BY <1>8, <1>9, <1>10, <1>11 DEF IInv

LEMMA InterruptIInv ==
    ASSUME IInv, Interrupt
    PROVE  IInv'
  <1>1. ASSUME NEW l \in Lines, Deliver(l) PROVE IInv'
    <2>1. irr' \in SUBSET Lines
      BY <1>1 DEF Deliver, IInv, TypeOK
    <2>2. delivered' \in Counter /\ faked' \in Counter
      BY <1>1, CounterType DEF Deliver, IInv, TypeOK
    <2> QED BY <1>1, <2>1, <2>2, EnterIInv DEF Deliver, Vectors
  <1>2. ASSUME DeliverSpurious PROVE IInv'
    <2> DEFINE v == IF noise = "slave" THEN 15 ELSE 7
    <2>1. v \in {7, 15} /\ v \in Vectors
      BY DEF Vectors
    <2>2. irr' \in SUBSET Lines /\ delivered' \in Counter
      BY <1>2 DEF DeliverSpurious, IInv, TypeOK
    <2>3. faked' \in Counter
      BY <1>2, CounterType DEF DeliverSpurious, IInv, TypeOK
    <2>4. isr' = isr \cup (IF v = 15 THEN {2} ELSE {}) /\ Enter(v, FALSE) /\ CanDeliver
      BY <1>2 DEF DeliverSpurious
    <2> HIDE DEF v
    <2> QED BY <2>1, <2>2, <2>3, <2>4, EnterIInv
  <1> QED BY <1>1, <1>2 DEF Interrupt

\* The frame that runs is the only one.
LEMMA RunningFrame ==
    ASSUME IInv, NEW p, Running(p)
    PROVE  /\ stack = <<Frame>> /\ Len(stack) = 1 /\ stack # <<>>
           /\ Frame \in Frames /\ Frame.at = p /\ irq = Frame.irq
           /\ ~ring3
  BY DEF IInv, FrameInv, Running, Frame, irq

\* A step to the next place of the stub changes nothing else of the frame.
LEMMA ContinueFrame ==
    ASSUME IInv, NEW p, Running(p), NEW q \in FramePlaces, Continue(q)
    PROVE  /\ stack' = <<Frame'>> /\ stack' # <<>> /\ stack' \in Seq(Frames)
           /\ Frame' \in Frames /\ Frame'.at = q
           /\ Frame'.irq = Frame.irq /\ Frame'.real = Frame.real
           /\ irq' = irq
  <1>1. stack = <<Frame>> /\ Len(stack) = 1 /\ Frame \in Frames
    BY RunningFrame
  <1>2. stack' = <<[Frame EXCEPT !.at = q]>>
    BY <1>1 DEF Continue
  <1>3. [Frame EXCEPT !.at = q] \in Frames
    BY <1>1 DEF Frames
  <1>4. Frame' = [Frame EXCEPT !.at = q]
    BY <1>2 DEF Frame
  <1> QED BY <1>1, <1>2, <1>3, <1>4 DEF Frames, irq

\* What the end-of-interrupt commands leave in service.
LEMMA Eoi ==
    ASSUME NEW i \in Irqs
    PROVE  /\ MasterEoi({}) = {}
           /\ i < 8 => MasterEoi({i}) = {}
           /\ SlaveEoi({2}) = {2}
           /\ i >= 8 => SlaveEoi({i, 2}) = {2}
  BY DEF MasterEoi, SlaveEoi, Highest, Irqs

\* Steps of the stub that leave the in-service register alone.
LEMMA QuietStubIInv ==
    ASSUME IInv, StubCli \/ CheckSpurious \/ CallHandler \/ CountIrq
    PROVE  IInv'
  <1>1. PICK p \in {"cli", "check", "handler", "count"},
              q \in {"check", "handler", "ack", "sti"} :
            /\ Running(p) /\ Continue(q)
            /\ q = "sti" <=> p = "count"
    BY DEF StubCli, CheckSpurious, CallHandler, CountIrq
  <1>2. /\ stack' = <<Frame'>> /\ stack' # <<>> /\ stack' \in Seq(Frames)
        /\ Frame' \in Frames /\ Frame'.at = q
        /\ Frame'.irq = Frame.irq /\ Frame'.real = Frame.real
        /\ irq' = irq
    BY <1>1, ContinueFrame DEF FramePlaces
  <1>3. /\ stack # <<>> /\ Frame.at = p /\ ~ring3
        /\ ~intf /\ ~shadow /\ boot = "up"
    BY <1>1, RunningFrame DEF IInv, FrameInv
  <1>4. /\ UNCHANGED <<irr, isr, imr, noise, shadow, ring3, boot, irq_routines,
                       delivered, faked>>
        /\ intf' = FALSE
    BY <1>3 DEF StubCli, CheckSpurious, CallHandler, CountIrq, picVars, bootVars,
                history, IInv, TypeOK
  <1>5. irq_counts' \in Counter /\ irq_spurious' \in Counter
        /\ _timer_ticks' \in 0 .. CountMod - 1
    BY CounterType, IncType DEF StubCli, CheckSpurious, CallHandler, CountIrq,
                counters, IInv, TypeOK
  <1>6. TypeOK'
    BY <1>2, <1>4, <1>5 DEF IInv, TypeOK
  <1>7. FrameInv'
    BY <1>2, <1>3, <1>4 DEF IInv, FrameInv
  <1>8. BootInv'
    BY <1>3, <1>4 DEF IInv, BootInv
  <1>9. InServiceExact'
    <2>1. isr = Unacknowledged /\ isr' = isr
      BY <1>4 DEF IInv, InServiceExact
    <2>2. CASE p = "count"
      BY <1>1, <1>2, <1>3, <2>1, <2>2 DEF InServiceExact, Unacknowledged, Before
    <2>3. CASE p # "count"
      BY <1>1, <1>2, <1>3, <2>1, <2>3 DEF InServiceExact, Unacknowledged, Before
    <2> QED BY <2>2, <2>3
  <1> QED BY <1>6, <1>7, <1>8, <1>9 DEF IInv

\* irq_ack: the two end-of-interrupt commands.
LEMMA AckIInv ==
    ASSUME IInv, AckSlave \/ AckMaster
    PROVE  IInv'
  <1>1. PICK p \in {"ack", "ack1"}, q \in {"ack1", "count"} :
            /\ Running(p) /\ Continue(q)
            /\ \/ p = "ack" /\ q = "ack1" /\ isr' = IF irq >= 8 THEN SlaveEoi(isr) ELSE isr
               \/ p = "ack1" /\ q = "count" /\ isr' = MasterEoi(isr)
    BY DEF AckSlave, AckMaster
  <1>2. /\ stack' = <<Frame'>> /\ stack' # <<>> /\ stack' \in Seq(Frames)
        /\ Frame' \in Frames /\ Frame'.at = q
        /\ Frame'.irq = Frame.irq /\ Frame'.real = Frame.real
        /\ irq' = irq
    BY <1>1, ContinueFrame DEF FramePlaces
  <1>3. /\ stack # <<>> /\ Frame.at = p /\ ~ring3 /\ Frame \in Frames
        /\ ~intf /\ ~shadow /\ boot = "up"
        /\ ~Frame.real => irq \in {7, 15}
        /\ Frame.real => irq \in Lines
    BY <1>1, RunningFrame DEF IInv, FrameInv
  <1>4. UNCHANGED <<irr, imr, noise, intf, shadow, ring3, boot, irq_routines,
                    irq_counts, irq_spurious, _timer_ticks, delivered, faked>>
    BY DEF AckSlave, AckMaster, bootVars, counters, history
  <1>5. irq \in Irqs /\ (Frame.real => irq # 2)
    <2>1. irq \in Vectors
      BY <1>3 DEF Frames, irq
    <2> QED BY <1>3, <2>1, LinesAssumption DEF Irqs, Vectors
  <1>6. isr = Unacknowledged
    BY DEF IInv, InServiceExact
  <1>7. InServiceExact'
    <2>1. CASE p = "ack"
      <3>1. isr = IF Frame.real THEN Bits(irq) ELSE IF irq = 15 THEN {2} ELSE {}
        BY <1>3, <1>6, <2>1 DEF Unacknowledged, Before
      <3>2. isr' = IF irq >= 8 THEN SlaveEoi(isr) ELSE isr
        BY <1>1, <2>1
      <3>3. Unacknowledged' =
              IF irq >= 8 THEN {2} ELSE IF Frame.real THEN {irq} ELSE {}
        BY <1>1, <1>2, <2>1 DEF Unacknowledged, Before
      <3>4. CASE irq >= 8
        <4>1. isr = {irq, 2} \/ isr = {2}
          BY <1>3, <1>5, <3>1, <3>4 DEF Bits
        <4> QED BY <1>5, <3>2, <3>3, <3>4, <4>1, Eoi DEF InServiceExact
      <3>5. CASE ~(irq >= 8)
        <4>1. isr = IF Frame.real THEN {irq} ELSE {}
          BY <1>3, <1>5, <3>1, <3>5 DEF Bits
        <4> QED BY <3>2, <3>3, <3>5, <4>1 DEF InServiceExact
      <3> QED BY <3>4, <3>5
    <2>2. CASE p = "ack1"
      <3>1. isr = IF irq >= 8 THEN {2} ELSE IF Frame.real THEN {irq} ELSE {}
        BY <1>3, <1>6, <2>2 DEF Unacknowledged, Before
      <3>2. isr' = MasterEoi(isr)
        BY <1>1, <2>2
      <3>3. Unacknowledged' = {}
        BY <1>1, <1>2, <2>2 DEF Unacknowledged, Before
      <3>4. MasterEoi({2}) = {} /\ MasterEoi({}) = {} /\ (irq < 8 => MasterEoi({irq}) = {})
        BY <1>5, Eoi DEF Irqs
      <3>5. irq >= 8 \/ irq < 8
        BY <1>5 DEF Irqs
      <3> QED BY <3>1, <3>2, <3>3, <3>4, <3>5 DEF InServiceExact
    <2> QED BY <1>1, <2>1, <2>2
  <1>8. isr' \subseteq Irqs
    <2>1. isr' = Unacknowledged'
      BY <1>7 DEF InServiceExact
    <2>2. Unacknowledged' \in {{2}, {irq}, {}}
      BY <1>1, <1>2 DEF Unacknowledged, Before
    <2>3. {2} \subseteq Irqs /\ {irq} \subseteq Irqs
      BY <1>5 DEF Irqs
    <2> QED BY <2>1, <2>2, <2>3
  <1>9. TypeOK'
    BY <1>2, <1>4, <1>8 DEF IInv, TypeOK
  <1>10. FrameInv'
    BY <1>1, <1>2, <1>3, <1>4 DEF IInv, FrameInv
  <1>11. BootInv'
    BY <1>4 DEF IInv, BootInv
  <1> QED BY <1>7, <1>9, <1>10, <1>11 DEF IInv

\* The keyboard handler leaves for user mode: nothing runs behind it.
LEMMA PressF2IInv ==
    ASSUME IInv, PressF2
    PROVE  IInv'
  <1>1. /\ ring3' = TRUE
        /\ UNCHANGED <<irr, isr, imr, noise, intf, shadow, stack, boot,
                       irq_routines, irq_counts, irq_spurious, _timer_ticks,
                       delivered, faked>>
    BY DEF PressF2, picVars, bootVars, counters, history
  <1>2. TypeOK'
    BY <1>1 DEF IInv, TypeOK
  <1>3. FrameInv' /\ BootInv' /\ InServiceExact'
    BY <1>1 DEF IInv, FrameInv, BootInv, InServiceExact, Unacknowledged, Before,
                Frame, irq
  <1> QED BY <1>2, <1>3 DEF IInv

\* The stub's sti, in whose shadow the iret runs.
LEMMA StubStiIInv ==
    ASSUME IInv, StubSti
    PROVE  IInv'
  <1>1. Running("sti") /\ Continue("iret")
    BY DEF StubSti
  <1>2. /\ stack' = <<Frame'>> /\ stack' # <<>> /\ stack' \in Seq(Frames)
        /\ Frame' \in Frames /\ Frame'.at = "iret"
        /\ Frame'.irq = Frame.irq /\ Frame'.real = Frame.real
        /\ irq' = irq
    BY <1>1, ContinueFrame DEF FramePlaces
  <1>3. /\ stack # <<>> /\ Frame.at = "sti"
        /\ ~intf /\ ~shadow /\ boot = "up"
    BY <1>1, RunningFrame DEF IInv, FrameInv
  <1>4. /\ intf' = TRUE /\ shadow' = TRUE
        /\ UNCHANGED <<irr, isr, imr, noise, ring3, boot, irq_routines,
                       irq_counts, irq_spurious, _timer_ticks, delivered, faked>>
    BY <1>3 DEF StubSti, picVars, bootVars, counters, history
  <1>5. TypeOK'
    BY <1>2, <1>4 DEF IInv, TypeOK
  <1>6. FrameInv' /\ BootInv'
    BY <1>2, <1>3, <1>4 DEF IInv, FrameInv, BootInv
  <1>7. InServiceExact'
    BY <1>2, <1>3, <1>4 DEF IInv, InServiceExact, Unacknowledged, Before
  <1> QED BY <1>5, <1>6, <1>7 DEF IInv

\* iret: the main line goes on with nothing in service.
LEMMA StubIretIInv ==
    ASSUME IInv, StubIret
    PROVE  IInv'
  <1>1. Running("iret")
    BY DEF StubIret
  <1>2. /\ stack # <<>> /\ Frame.at = "iret" /\ Len(stack) = 1
        /\ stack = <<Frame>> /\ Frame \in Frames /\ boot = "up"
    BY <1>1, RunningFrame DEF IInv, FrameInv
  <1>3. stack' = <<>>
    BY <1>2 DEF StubIret
  <1>3a. stack' \in Seq(Frames)
    BY <1>3
  <1>4. /\ intf' = TRUE /\ shadow' = FALSE
        /\ UNCHANGED <<irr, isr, imr, noise, ring3, boot, irq_routines,
                       irq_counts, irq_spurious, _timer_ticks, delivered, faked>>
    BY DEF StubIret, picVars, bootVars, counters, history
  <1>5. TypeOK'
    BY <1>3a, <1>4 DEF IInv, TypeOK
  <1>6. FrameInv' /\ BootInv'
    BY <1>2, <1>3, <1>4 DEF IInv, FrameInv, BootInv
  <1>7. InServiceExact'
    BY <1>2, <1>3, <1>4 DEF IInv, InServiceExact, Unacknowledged, Before
  <1> QED BY <1>5, <1>6, <1>7 DEF IInv

\* The main line runs between interrupts only, and boots in order.
LEMMA MainIInv ==
    ASSUME IInv, Main \/ MainCli
    PROVE  IInv'
  <1>1. MainRuns
    BY DEF Main, MainCli, IdtInstall, TimerInstall, Ps2Install, EnableInterrupts,
           Work, MainSti, Booting
  <1>2. stack = <<>> /\ isr = {}
    BY <1>1 DEF MainRuns, IInv, InServiceExact, Unacknowledged, Before
  <1>3. /\ stack' = <<>> /\ isr' = {} /\ irr' \in SUBSET Lines /\ imr' = imr
        /\ noise' \in {"none", noise} /\ ring3' = ring3
        /\ UNCHANGED <<irq_counts, irq_spurious, _timer_ticks, delivered, faked>>
    BY <1>2 DEF Main, MainCli, IdtInstall, TimerInstall, Ps2Install,
                EnableInterrupts, Work, MainSti, Booting, picVars, cpuVars,
                bootVars, counters, history, IInv, TypeOK
  <1>4. /\ intf' \in BOOLEAN /\ shadow' \in BOOLEAN
        /\ boot' \in {"gdt", "timer", "ps2", "sti", "up"}
        /\ irq_routines' \in [Irqs -> {"none", "timer", "keyboard", "mouse"}]
    BY DEF Main, MainCli, IdtInstall, TimerInstall, Ps2Install,
           EnableInterrupts, Work, MainSti, Booting, picVars, cpuVars,
           bootVars, counters, history, IInv, TypeOK, Irqs
  <1>5. TypeOK'
    BY <1>3, <1>4 DEF IInv, TypeOK, Irqs
  <1>6. FrameInv' /\ InServiceExact'
    BY <1>3 DEF FrameInv, InServiceExact, Unacknowledged, Before
  <1>7. BootInv'
    <2>1. irq_routines \in [Irqs -> {"none", "timer", "keyboard", "mouse"}]
      BY DEF IInv, TypeOK
    <2>2. CASE IdtInstall \/ TimerInstall \/ Ps2Install
      BY <2>1, <2>2 DEF IdtInstall, TimerInstall, Ps2Install, Booting, cpuVars,
                        IInv, BootInv, Irqs
    <2>3. CASE EnableInterrupts \/ Work \/ MainSti \/ MainCli
      BY <2>3 DEF EnableInterrupts, Work, MainSti, MainCli, Booting, bootVars,
                  IInv, BootInv
    <2> QED BY <2>2, <2>3 DEF Main
  <1> QED BY <1>5, <1>6, <1>7 DEF IInv

LEMMA InitIInv == Init => IInv
  <1> SUFFICES ASSUME Init PROVE IInv
    OBVIOUS
  <1>1. TypeOK
    <2>1. [i \in Vectors |-> 0] \in Counter
      BY CountModAssumption DEF Counter
    <2>2. 0 \in 0 .. CountMod - 1
      BY CountModAssumption
    <2>3. <<>> \in Seq(Frames)
      OBVIOUS
    <2>4. irq_routines \in [Irqs -> {"none", "timer", "keyboard", "mouse"}]
      BY DEF Init
    <2> QED BY <2>1, <2>2, <2>3, <2>4 DEF Init, TypeOK
  <1>2. FrameInv /\ BootInv /\ InServiceExact
    BY DEF Init, FrameInv, BootInv, InServiceExact, Unacknowledged, Before
  <1> QED BY <1>1, <1>2 DEF IInv

LEMMA StepIInv == IInv /\ [Next]_vars => IInv'
  <1> SUFFICES ASSUME IInv, [Next]_vars PROVE IInv'
    OBVIOUS
  <1>1. CASE Stub
    BY <1>1, QuietStubIInv, PressF2IInv, AckIInv, StubStiIInv, StubIretIInv DEF Stub
  <1>2. CASE Main \/ MainCli
    BY <1>2, MainIInv
  <1>3. CASE Interrupt
    BY <1>3, InterruptIInv
  <1>4. CASE Device
    BY <1>4, DeviceIInv, NoisyAssumption DEF Device
  <1>5. CASE UNCHANGED vars
    <2>1. UNCHANGED <<irr, isr, imr, noise, intf, shadow, stack, ring3, boot,
                      irq_routines, irq_counts, irq_spurious, _timer_ticks,
                      delivered, faked>>
      BY <1>5 DEF vars, picVars, cpuVars, bootVars, counters, history
    <2> QED BY <2>1 DEF IInv, TypeOK, FrameInv, BootInv, InServiceExact,
                        Unacknowledged, Before, Frame, irq
  <1> QED BY <1>1, <1>2, <1>3, <1>4, <1>5 DEF Next

THEOREM Invariant == Spec => []IInv
  <1> QED BY InitIInv, StepIInv, PTL DEF Spec

\* The registers, counters and frames keep their types.
THEOREM TypeCorrect == Spec => []TypeOK
  <1>1. IInv => TypeOK
    BY DEF IInv
  <1> QED BY <1>1, Invariant, PTL

\* No interrupt is taken while another one is being handled.
THEOREM NoNesting == Spec => []OneFrame
  <1>1. IInv => OneFrame
    <2> SUFFICES ASSUME IInv PROVE OneFrame
      OBVIOUS
    <2>1. CASE stack = <<>>
      BY <2>1 DEF OneFrame
    <2>2. ASSUME NEW f \in Frames, stack = <<f>> PROVE OneFrame
      BY <2>2 DEF OneFrame
    <2> QED BY <2>1, <2>2 DEF IInv, FrameInv
  <1> QED BY <1>1, Invariant, PTL

\* The EOIs retire the interrupt being handled and no other, spurious ones
\* included: in service is what is not acknowledged, and nothing else.
THEOREM EoiExact == Spec => []InServiceExact
  <1>1. IInv => InServiceExact
    BY DEF IInv
  <1> QED BY <1>1, Invariant, PTL

\* An interrupt finds the tables set up and the handlers installed.
THEOREM HandlersFirst == Spec => []HandlersBeforeDelivery
  <1>1. IInv => HandlersBeforeDelivery
    BY DEF IInv, FrameInv, BootInv, HandlersBeforeDelivery
  <1> QED BY <1>1, Invariant, PTL

-----------------------------------------------------------------------------
(* The counters.  While an interrupt is handled they are one behind, until *)
(* the place of the stub where they are counted.                           *)

Owed(v)         == Before(FramePlaces \ {"sti", "iret"}) /\ irq = v
OwedSpurious(v) == Before({"cli", "check"}) /\ irq = v /\ ~Frame.real
OwedTick        == Before({"ack", "ack1", "count"}) /\ irq = 0

CountInv ==
    /\ \A v \in Vectors :
           /\ (delivered[v] + faked[v]) % CountMod =
                  IF Owed(v) THEN Inc(irq_counts[v]) ELSE irq_counts[v]
           /\ faked[v] = IF OwedSpurious(v) THEN Inc(irq_spurious[v]) ELSE irq_spurious[v]
    /\ _timer_ticks = IF OwedTick THEN Inc(irq_counts[0]) ELSE irq_counts[0]
    /\ \A i \in Irqs \ {0} : irq_routines[i] # "timer"

LEMMA Modulo ==
    \A x \in 0 .. 2 * CountMod - 1 :
        x % CountMod = IF x < CountMod THEN x ELSE x - CountMod
  <1>1. \A m \in Nat \ {0} : \A x \in 0 .. 2 * m - 1 : x % m = IF x < m THEN x ELSE x - m
    OBVIOUS
  <1> QED BY <1>1, CountModAssumption

LEMMA IncSum ==
    \A a, b \in 0 .. CountMod - 1 :
        /\ (Inc(a) + b) % CountMod = Inc((a + b) % CountMod)
        /\ (a + Inc(b)) % CountMod = Inc((a + b) % CountMod)
  <1> SUFFICES ASSUME NEW a \in 0 .. CountMod - 1, NEW b \in 0 .. CountMod - 1
               PROVE  /\ (Inc(a) + b) % CountMod = Inc((a + b) % CountMod)
                      /\ (a + Inc(b)) % CountMod = Inc((a + b) % CountMod)
    OBVIOUS
  <1>1. CountMod \in Nat \ {0}
    BY CountModAssumption
  <1>2. /\ Inc(a) = IF a + 1 < CountMod THEN a + 1 ELSE 0
        /\ Inc(b) = IF b + 1 < CountMod THEN b + 1 ELSE 0
    BY <1>1, Modulo DEF Inc
  <1>3. (a + b) % CountMod = IF a + b < CountMod THEN a + b ELSE a + b - CountMod
    BY <1>1, Modulo
  <1> DEFINE s == (a + b) % CountMod
  <1>4. s \in 0 .. CountMod - 1
    BY <1>1, <1>3
  <1>5. Inc(s) = IF s + 1 < CountMod THEN s + 1 ELSE 0
    BY <1>1, <1>4, Modulo DEF Inc
  <1>6. (Inc(a) + b) % CountMod = IF Inc(a) + b < CountMod THEN Inc(a) + b
                                  ELSE Inc(a) + b - CountMod
    BY <1>1, <1>2, Modulo
  <1>7. (a + Inc(b)) % CountMod = IF a + Inc(b) < CountMod THEN a + Inc(b)
                                  ELSE a + Inc(b) - CountMod
    BY <1>1, <1>2, Modulo
  <1> HIDE DEF s
  <1>8. s = IF a + b < CountMod THEN a + b ELSE a + b - CountMod
    BY <1>3 DEF s
  <1>9. /\ (Inc(a) + b) % CountMod = Inc(s)
        /\ (a + Inc(b)) % CountMod = Inc(s)
    BY <1>1, <1>2, <1>5, <1>6, <1>7, <1>8
  <1> QED BY <1>9 DEF s

\* Steps that count nothing and leave no more and no less to count.
LEMMA QuietCountInv ==
    ASSUME CountInv,
           UNCHANGED <<irq_counts, irq_spurious, _timer_ticks, delivered, faked>>,
           \A v \in Vectors : (Owed(v)' <=> Owed(v)) /\ (OwedSpurious(v)' <=> OwedSpurious(v)),
           OwedTick' <=> OwedTick,
           \A i \in Irqs \ {0} : irq_routines'[i] # "timer"
    PROVE  CountInv'
  BY DEF CountInv, Inc

\* An interrupt comes in: it is delivered or faked, and owed.
LEMMA EnterCountInv ==
    ASSUME IInv, CountInv, Interrupt
    PROVE  CountInv'
  <1>1. PICK v \in Vectors, real \in BOOLEAN :
            /\ CanDeliver /\ Enter(v, real)
            /\ delivered' = IF real THEN [delivered EXCEPT ![v] = Inc(@)] ELSE delivered
            /\ faked' = IF real THEN faked ELSE [faked EXCEPT ![v] = Inc(@)]
    <2>1. ASSUME NEW l \in Lines, Deliver(l)
          PROVE  /\ l \in Vectors /\ CanDeliver /\ Enter(l, TRUE)
                 /\ delivered' = [delivered EXCEPT ![l] = Inc(@)] /\ faked' = faked
      BY <2>1 DEF Deliver, Vectors
    <2>2. ASSUME DeliverSpurious
          PROVE  \E v \in {7, 15} :
                     /\ CanDeliver /\ Enter(v, FALSE)
                     /\ faked' = [faked EXCEPT ![v] = Inc(@)] /\ delivered' = delivered
      BY <2>2 DEF DeliverSpurious
    <2> QED BY <2>1, <2>2 DEF Interrupt, Vectors
  <1> DEFINE f == [irq |-> v, real |-> real, at |-> "cli"]
  <1>2. stack = <<>>
    BY <1>1 DEF CanDeliver, IInv, FrameInv, BootInv, TypeOK
  <1>3. stack' = <<f>> /\ stack' # <<>> /\ Frame' = f /\ irq' = v
    BY <1>1, <1>2 DEF Enter, Frame, irq
  <1>4. UNCHANGED <<irq_counts, irq_spurious, _timer_ticks, irq_routines>>
    BY <1>1 DEF Enter, bootVars, counters
  <1>5. /\ \A w \in Vectors : ~Owed(w) /\ ~OwedSpurious(w)
        /\ ~OwedTick /\ ~OwedTick'
    BY <1>2, <1>3 DEF Owed, OwedSpurious, OwedTick, Before
  <1>6. \A w \in Vectors : (Owed(w)' <=> w = v) /\ (OwedSpurious(w)' <=> w = v /\ ~real)
    BY <1>3 DEF Owed, OwedSpurious, Before, FramePlaces
  <1>7. \A w \in Vectors : delivered[w] \in 0 .. CountMod - 1 /\ faked[w] \in 0 .. CountMod - 1
    BY DEF IInv, TypeOK, Counter
  <1>8. /\ DOMAIN delivered = Vectors /\ DOMAIN faked = Vectors
    BY DEF IInv, TypeOK, Counter
  <1>9. ASSUME NEW w \in Vectors
        PROVE  /\ (delivered'[w] + faked'[w]) % CountMod =
                      IF Owed(w)' THEN Inc(irq_counts'[w]) ELSE irq_counts'[w]
               /\ faked'[w] = IF OwedSpurious(w)' THEN Inc(irq_spurious'[w])
                              ELSE irq_spurious'[w]
    <2>1. /\ (delivered[w] + faked[w]) % CountMod = irq_counts[w]
          /\ faked[w] = irq_spurious[w]
      BY <1>5 DEF CountInv
    <2>2. CASE w # v
      <3>1. delivered'[w] = delivered[w] /\ faked'[w] = faked[w]
        BY <1>1, <1>8, <2>2
      <3> QED BY <1>4, <1>6, <2>1, <2>2, <3>1
    <2>3. CASE w = v /\ real
      <3>1. delivered'[w] = Inc(delivered[w]) /\ faked'[w] = faked[w]
        BY <1>1, <1>8, <2>3
      <3>2. (Inc(delivered[w]) + faked[w]) % CountMod = Inc((delivered[w] + faked[w]) % CountMod)
        BY <1>7, IncSum
      <3> QED BY <1>4, <1>6, <2>1, <2>3, <3>1, <3>2
    <2>4. CASE w = v /\ ~real
      <3>1. delivered'[w] = delivered[w] /\ faked'[w] = Inc(faked[w])
        BY <1>1, <1>8, <2>4
      <3>2. (delivered[w] + Inc(faked[w])) % CountMod = Inc((delivered[w] + faked[w]) % CountMod)
        BY <1>7, IncSum
      <3> QED BY <1>4, <1>6, <2>1, <2>4, <3>1, <3>2
    <2> QED BY <2>2, <2>3, <2>4
  <1>10. /\ _timer_ticks' = IF OwedTick' THEN Inc(irq_counts'[0]) ELSE irq_counts'[0]
         /\ \A i \in Irqs \ {0} : irq_routines'[i] # "timer"
    BY <1>4, <1>5 DEF CountInv
  <1> QED BY <1>9, <1>10 DEF CountInv

\* What is owed at each place of the stub.
LEMMA OwedAt ==
    ASSUME IInv, NEW p \in FramePlaces, Running(p), NEW q \in FramePlaces, Continue(q)
    PROVE  /\ irq \in Vectors
           /\ \A v \in Vectors :
                  /\ Owed(v) <=> p \notin {"sti", "iret"} /\ v = irq
                  /\ Owed(v)' <=> q \notin {"sti", "iret"} /\ v = irq
                  /\ OwedSpurious(v) <=> p \in {"cli", "check"} /\ v = irq /\ ~Frame.real
                  /\ OwedSpurious(v)' <=> q \in {"cli", "check"} /\ v = irq /\ ~Frame.real
           /\ OwedTick <=> p \in {"ack", "ack1", "count"} /\ irq = 0
           /\ OwedTick' <=> q \in {"ack", "ack1", "count"} /\ irq = 0
  <1>1. stack # <<>> /\ Frame \in Frames /\ Frame.at = p /\ irq = Frame.irq
    BY RunningFrame
  <1>2. stack' # <<>> /\ Frame'.at = q /\ Frame'.real = Frame.real /\ irq' = irq
    BY ContinueFrame
  <1>3. irq \in Vectors
    BY <1>1 DEF Frames
  <1> QED BY <1>1, <1>2, <1>3 DEF Owed, OwedSpurious, OwedTick, Before

\* The three places that count.
LEMMA CountingSteps ==
    ASSUME IInv, CountInv, CheckSpurious \/ CallHandler \/ CountIrq
    PROVE  CountInv'
  <1>1. /\ irq_counts \in Counter /\ irq_spurious \in Counter /\ delivered \in Counter
        /\ faked \in Counter
    BY DEF IInv, TypeOK
  <1>2. CASE CheckSpurious
    <2>1. Running("check") /\ Continue("handler")
      BY <1>2 DEF CheckSpurious
    <2>2. /\ irq_spurious' = IF irq \in isr THEN irq_spurious
                             ELSE [irq_spurious EXCEPT ![irq] = Inc(@)]
          /\ UNCHANGED <<irq_counts, _timer_ticks, delivered, faked, irq_routines>>
      BY <1>2 DEF CheckSpurious, bootVars, history
    <2>3. irq \in isr <=> Frame.real
      <3>1. /\ stack # <<>> /\ Frame.at = "check" /\ Frame \in Frames
            /\ ~Frame.real => irq \in {7, 15}
        BY <2>1, RunningFrame DEF IInv, FrameInv
      <3>2. isr = IF Frame.real THEN Bits(irq) ELSE IF irq = 15 THEN {2} ELSE {}
        BY <3>1 DEF IInv, InServiceExact, Unacknowledged, Before
      <3>3. irq \in Bits(irq)
        BY DEF Bits
      <3> QED BY <3>1, <3>2, <3>3
    <2>4. /\ irq \in Vectors
          /\ \A v \in Vectors :
                 /\ Owed(v)' <=> Owed(v)
                 /\ OwedSpurious(v) <=> v = irq /\ ~Frame.real
                 /\ ~OwedSpurious(v)'
          /\ ~OwedTick /\ ~OwedTick'
      BY <2>1, OwedAt DEF FramePlaces
    <2>5. ASSUME NEW v \in Vectors
          PROVE  faked[v] = irq_spurious'[v]
      BY <1>1, <2>2, <2>3, <2>4 DEF CountInv, Counter
    <2> QED BY <2>2, <2>4, <2>5 DEF CountInv, Inc
  <1>3. CASE CallHandler
    <2>1. Running("handler") /\ Continue("ack")
      BY <1>3 DEF CallHandler
    <2>2. /\ _timer_ticks' = IF irq_routines[irq] = "timer" THEN Inc(_timer_ticks)
                             ELSE _timer_ticks
          /\ UNCHANGED <<irq_counts, irq_spurious, delivered, faked, irq_routines>>
      BY <1>3 DEF CallHandler, bootVars, history
    <2>3. /\ irq \in Vectors
          /\ \A v \in Vectors : (Owed(v)' <=> Owed(v)) /\ (OwedSpurious(v)' <=> OwedSpurious(v))
          /\ ~OwedTick /\ (OwedTick' <=> irq = 0)
      BY <2>1, OwedAt DEF FramePlaces
    <2>4. irq_routines[irq] = "timer" <=> irq = 0
      <3>1. stack # <<>> /\ boot = "up"
        BY <2>1, RunningFrame DEF IInv, FrameInv
      <3>2. irq \in Irqs
        BY <2>3, LinesAssumption DEF Vectors, Irqs
      <3> QED BY <3>1, <3>2 DEF IInv, BootInv, CountInv
    <2>5. _timer_ticks' = IF OwedTick' THEN Inc(irq_counts'[0]) ELSE irq_counts'[0]
      BY <2>2, <2>3, <2>4 DEF CountInv
    <2> QED BY <2>2, <2>3, <2>5 DEF CountInv, Inc
  <1>4. CASE CountIrq
    <2>1. Running("count") /\ Continue("sti")
      BY <1>4 DEF CountIrq
    <2>2. /\ irq_counts' = [irq_counts EXCEPT ![irq] = Inc(@)]
          /\ UNCHANGED <<irq_spurious, _timer_ticks, delivered, faked, irq_routines>>
      BY <1>4 DEF CountIrq, bootVars, history
    <2>3. /\ irq \in Vectors
          /\ \A v \in Vectors :
                 /\ Owed(v) <=> v = irq
                 /\ ~Owed(v)'
                 /\ OwedSpurious(v)' <=> OwedSpurious(v)
          /\ (OwedTick <=> irq = 0) /\ ~OwedTick'
      BY <2>1, OwedAt DEF FramePlaces
    <2>4. ASSUME NEW v \in Vectors
          PROVE  irq_counts'[v] = IF v = irq THEN Inc(irq_counts[v]) ELSE irq_counts[v]
      BY <1>1, <2>2 DEF Counter
    <2>5. 0 \in Vectors
      BY LinesAssumption DEF Vectors
    <2>6. _timer_ticks' = irq_counts'[0]
      BY <2>2, <2>3, <2>4, <2>5 DEF CountInv
    <2>7. ASSUME NEW v \in Vectors
          PROVE  (delivered'[v] + faked'[v]) % CountMod = irq_counts'[v]
      BY <2>2, <2>3, <2>4 DEF CountInv
    <2> QED BY <2>2, <2>3, <2>6, <2>7 DEF CountInv, Inc
  <1> QED BY <1>2, <1>3, <1>4

\* The other places of the stub.
LEMMA OtherStubSteps ==
    ASSUME IInv, CountInv, StubCli \/ PressF2 \/ AckSlave \/ AckMaster \/ StubSti \/ StubIret
    PROVE  CountInv'
  <1>1. UNCHANGED <<irq_counts, irq_spurious, _timer_ticks, delivered, faked, irq_routines>>
    BY DEF StubCli, PressF2, AckSlave, AckMaster, StubSti, StubIret, counters, history, bootVars
  <1>2. \A i \in Irqs \ {0} : irq_routines'[i] # "timer"
    BY <1>1 DEF CountInv
  <1>3. CASE StubCli \/ AckSlave \/ AckMaster \/ StubSti
    <2>1. PICK p \in FramePlaces, q \in FramePlaces :
              /\ Running(p) /\ Continue(q)
              /\ <<p, q>> \in {<<"cli", "check">>, <<"ack", "ack1">>, <<"ack1", "count">>,
                               <<"sti", "iret">>}
      BY <1>3 DEF StubCli, AckSlave, AckMaster, StubSti, FramePlaces
    <2>2. /\ \A v \in Vectors : (Owed(v)' <=> Owed(v)) /\ (OwedSpurious(v)' <=> OwedSpurious(v))
          /\ OwedTick' <=> OwedTick
      BY <2>1, OwedAt
    <2> QED BY <1>1, <1>2, <2>2, QuietCountInv
  <1>4. CASE PressF2
    <2>1. stack' = stack
      BY <1>4 DEF PressF2
    <2> QED BY <1>1, <1>2, <2>1, QuietCountInv
            DEF Owed, OwedSpurious, OwedTick, Before, Frame, irq
  <1>5. CASE StubIret
    <2>1. Running("iret") /\ stack' = SubSeq(stack, 1, Len(stack) - 1)
      BY <1>5 DEF StubIret
    <2>2. /\ stack = <<Frame>> /\ Len(stack) = 1 /\ Frame.at = "iret"
      BY <2>1, RunningFrame
    <2>3. stack' = <<>>
      BY <2>1, <2>2
    <2>4. /\ \A v \in Vectors : ~Owed(v) /\ ~Owed(v)' /\ ~OwedSpurious(v) /\ ~OwedSpurious(v)'
          /\ ~OwedTick /\ ~OwedTick'
      BY <2>2, <2>3 DEF Owed, OwedSpurious, OwedTick, Before
    <2> QED BY <1>1, <1>2, <2>4, QuietCountInv
  <1> QED BY <1>3, <1>4, <1>5

\* The main line and the devices count nothing.
LEMMA OtherSteps ==
    ASSUME IInv, CountInv, Main \/ MainCli \/ Device \/ UNCHANGED vars
    PROVE  CountInv'
  <1>1. UNCHANGED <<stack, irq_counts, irq_spurious, _timer_ticks, delivered, faked>>
    <2>1. CASE Main \/ MainCli
      BY <2>1 DEF Main, MainCli, IdtInstall, TimerInstall, Ps2Install, EnableInterrupts, Work,
                  MainSti, cpuVars, counters, history
    <2>2. CASE Device
      BY <2>2 DEF Device, Raise, Disappear, cpuVars, counters, history
    <2>3. CASE UNCHANGED vars
      BY <2>3 DEF vars, cpuVars, counters, history
    <2> QED BY <2>1, <2>2, <2>3
  <1>2. \A i \in Irqs \ {0} : irq_routines'[i] # "timer"
    <2>1. irq_routines \in [Irqs -> {"none", "timer", "keyboard", "mouse"}]
      BY DEF IInv, TypeOK
    <2>2. CASE TimerInstall \/ Ps2Install
      BY <2>1, <2>2 DEF TimerInstall, Ps2Install, CountInv, Irqs
    <2>3. CASE ~(TimerInstall \/ Ps2Install)
      <3>1. irq_routines' = irq_routines
        BY <2>3 DEF Main, MainCli, IdtInstall, EnableInterrupts, Work, MainSti, Device, Raise,
                    Disappear, vars, bootVars
      <3> QED BY <3>1 DEF CountInv
    <2> QED BY <2>2, <2>3
  <1> QED BY <1>1, <1>2, QuietCountInv DEF Owed, OwedSpurious, OwedTick, Before, Frame, irq

THEOREM Counts == Spec => []CountInv
  <1>1. Init => CountInv
    <2> SUFFICES ASSUME Init PROVE CountInv
      OBVIOUS
    <2>1. \A v \in Vectors : ~Owed(v) /\ ~OwedSpurious(v)
      BY DEF Init, Owed, OwedSpurious, Before
    <2>2. ~OwedTick
      BY DEF Init, OwedTick, Before
    <2>3. 0 \in Vectors
      BY LinesAssumption DEF Vectors
    <2>4. 0 % CountMod = 0
      BY CountModAssumption
    <2>5. \A v \in Vectors : /\ delivered[v] = 0 /\ faked[v] = 0
                             /\ irq_counts[v] = 0 /\ irq_spurious[v] = 0
      BY DEF Init
    <2>6. _timer_ticks = 0 /\ \A i \in Irqs : irq_routines[i] = "none"
      BY DEF Init
    <2>7. 0 + 0 = 0
      OBVIOUS
    <2> QED BY <2>1, <2>2, <2>3, <2>4, <2>5, <2>6, <2>7 DEF CountInv
  <1>2. IInv /\ CountInv /\ [Next]_vars => CountInv'
    BY EnterCountInv, CountingSteps, OtherStubSteps, OtherSteps DEF Next, Stub
  <1> QED BY <1>1, <1>2, Invariant, PTL DEF Spec

\* A counter that is one behind, in the words of the properties.
LEMMA Behind ==
    \A c \in 0 .. CountMod - 1, b \in BOOLEAN :
        (c + One(b)) % CountMod = IF b THEN Inc(c) ELSE c
  BY Modulo, CountModAssumption DEF One, Inc

\* Every interrupt delivered, spurious ones included, is counted exactly once.
THEOREM EveryInterruptCounted == Spec => []CountsExact
  <1>1. IInv /\ CountInv => CountsExact
    <2> SUFFICES ASSUME IInv, CountInv, NEW v \in Vectors
                 PROVE  (irq_counts[v] + One(Owed(v))) % CountMod
                            = (delivered[v] + faked[v]) % CountMod
      BY DEF CountsExact, Owed
    <2>1. irq_counts[v] \in 0 .. CountMod - 1
      BY DEF IInv, TypeOK, Counter
    <2>2. Owed(v) \in BOOLEAN
      BY DEF Owed
    <2> QED BY <2>1, <2>2, Behind DEF CountInv
  <1> QED BY <1>1, Counts, Invariant, PTL

\* Reading the in-service register tells the spurious interrupts from the others.
THEOREM SpuriousCounted == Spec => []SpuriousExact
  <1>1. IInv /\ CountInv => SpuriousExact
    <2> SUFFICES ASSUME IInv, CountInv, NEW v \in Vectors
                 PROVE  (irq_spurious[v] + One(OwedSpurious(v))) % CountMod = faked[v]
      BY DEF SpuriousExact, OwedSpurious
    <2>1. irq_spurious[v] \in 0 .. CountMod - 1
      BY DEF IInv, TypeOK, Counter
    <2>2. OwedSpurious(v) \in BOOLEAN
      BY DEF OwedSpurious
    <2> QED BY <2>1, <2>2, Behind DEF CountInv
  <1> QED BY <1>1, Counts, Invariant, PTL

\* The timer's count is the number of its interrupts that were handled.
THEOREM TicksCounted == Spec => []TicksExact
  <1>1. IInv /\ CountInv => TicksExact
    <2> SUFFICES ASSUME IInv, CountInv
                 PROVE  _timer_ticks = (irq_counts[0] + One(OwedTick)) % CountMod
      BY DEF TicksExact, OwedTick
    <2>1. irq_counts[0] \in 0 .. CountMod - 1
      BY LinesAssumption DEF IInv, TypeOK, Counter, Vectors
    <2>2. OwedTick \in BOOLEAN
      BY DEF OwedTick
    <2> QED BY <2>1, <2>2, Behind DEF CountInv
  <1> QED BY <1>1, Counts, Invariant, PTL
=============================================================================
