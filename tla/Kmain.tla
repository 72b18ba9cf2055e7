-------------------------------- MODULE Kmain -------------------------------
(***************************************************************************)
(* The course of kmain once interrupts are on: the disk test, read_rtc,    *)
(* the SPACE loop with its delays, and then the tasks for ever.  Each part *)
(* waits for something outside it: the drives, the clock chip, the timer's *)
(* interrupts.  The waits for a key between the parts are Keyboard's.      *)
(***************************************************************************)
EXTENDS Clock, Disk, Rtc, Tasks

CONSTANT Missed     \* bound: ticks between two tests of a delay's loop

ASSUME MissedAssumption == Missed \in Nat

VARIABLE phase

vars == <<phase, clockVars, diskVars, rtcVars, taskVars>>

Init == phase = "disk" /\ ClockInit /\ DiskInit /\ RtcInit /\ TasksInit

At(here, there) == phase = here /\ phase' = there

\* kmain's steps.  At the SPACE loop any number of ticks has passed; its rounds
\* are alike, so the model makes one.
Test ==
    /\ \/ At("disk", "disk") /\ DiskStep
       \/ At("disk", "rtc") /\ EndTest
    /\ UNCHANGED <<clockVars, rtcVars, taskVars>>

ReadTime ==
    /\ \/ At("rtc", "rtc") /\ RtcStep /\ UNCHANGED clockVars
       \/ /\ At("rtc", "delay") /\ ReturnTime
          /\ ticks' \in 0 .. Wrap - 1
          /\ UNCHANGED <<delay, eticks, asked, elapsed, crossing>>
    /\ UNCHANGED <<diskVars, taskVars>>

Delay ==
    /\ \/ /\ At("delay", "delay")
          /\ DelayEnds \/ \E n \in Delays : delay_ms(n) \/ delay_ticks(n) \/ delay_s(n)
       \/ At("delay", "tasks") /\ ReturnDelay
    /\ UNCHANGED <<diskVars, rtcVars, taskVars>>

RunTasks ==
    /\ At("tasks", "tasks") /\ TaskStep
    /\ UNCHANGED <<clockVars, diskVars, rtcVars>>

kmain == Test \/ ReadTime \/ Delay \/ RunTasks

\* The devices' steps.
TimerTick == Tick(Missed) /\ UNCHANGED <<phase, diskVars, rtcVars, taskVars>>
Drive(d)  == DriveReady(d) /\ UNCHANGED <<phase, clockVars, rtcVars, taskVars>>
ChipStarts == BeginUpdate /\ UNCHANGED <<phase, clockVars, diskVars, taskVars>>
ChipEnds   == EndUpdate /\ UNCHANGED <<phase, clockVars, diskVars, taskVars>>
Next ==
    \/ kmain
    \/ TimerTick \/ (\E d \in present : Drive(d)) \/ ChipStarts \/ ChipEnds

\* The processor executes kmain's code between interrupts, the timer's square
\* wave never stops, a drive finishes what it does, and an update ends.
Fairness ==
    /\ WF_vars(kmain) /\ WF_vars(TimerTick) /\ WF_vars(ChipEnds)
    /\ \A d \in {0, 1} : WF_vars(Drive(d))

Spec == Init /\ [][Next]_vars /\ Fairness

-----------------------------------------------------------------------------
(* Properties.                                                             *)

\* A delay lasts the time asked for, to the tick, unless its end lies beyond
\* the wrap of the 32-bit count or its argument overflows: delay_ms and its
\* siblings compare the wrapped count.
DelayLasts ==
    delay = "done" /\ ~crossing => elapsed * Second > asked - Second

\* read_rtc returns a time the clock had during the call, although the chip
\* may update between any two of its reads, with one exception: in the chip's
\* 12-hour format the hour of midnight is noon's and the hour of noon 0.
RtcConsistent ==
    rpc = 8 => \E t \in times : \A i \in Fields :
        Converted(reading)[i] =
            IF i = 3 /\ ~hours24 /\ t[3] \in {0, 12} THEN 12 - t[3] ELSE t[i]

\* The waits of hd.c go on while their bit is set, the wrong way round.  The
\* sector still goes to drive 1 and back whenever that drive is ready for data
\* at the first poll: a wait that times out is late, not wrong.  Of slower drives
\* nothing is said.
ReadBack ==
    dpc = Finished /\ prompt /\ 1 \in present =>
        ident = Sector /\ data2 = Sector /\ sector = Sector

\* kmain gets to the tasks, whatever the drives, the chip and the timer do,
\* unless drive 1 is missing (the test's poll has no counter) or the delay ends
\* so near the wrap that its loop may miss the end.
BootProceeds ==
    <>(phase = "tasks" \/ (dpc # 0 /\ 1 \notin present) \/ eticks + Missed >= Wrap)

\* A task goes on with the registers it called k_preempt with and its own
\* stack as it left it, whatever handlers interrupt switchTask, and a new task
\* starts at its function with a stack of its own.
Resumes ==
    InTask /\ made = Count =>
        /\ cpu = expected[running]
        /\ cpu.eip = Returned => mem[cpu.esp + 2] = -2 - running

\* Round robin: the tasks of task.c take turns for ever, once initTasking has
\* run and the byte at 56 reads as ready.  The turn is the stack in use.
Owner == IF made = Count THEN (cpu.esp - 11 * Count - 1) \div StackWords ELSE 0
Switched == INSTANCE RoundRobin WITH
    Tasks <- Count, turn <- Owner, on <- made = Count /\ readyByte
ImplementsRoundRobin == Switched!RoundRobin

=============================================================================
