-------------------------------- MODULE Ps2 ---------------------------------
(***************************************************************************)
(* ps2_install of kb.c against the PS/2 controller and its two devices.    *)
(* The kernel polls: it sends a byte, waits until the output buffer is     *)
(* full or its patience is over, and reads the data port in either case;   *)
(* the port then repeats its last byte.  The devices answer in their own   *)
(* time, each in the order of its commands.                                *)
(*                                                                         *)
(* The kernel is a script of port operations, one step each; the           *)
(* controller, the keyboard (port 1) and the mouse (port 2) are external.  *)
(* Interrupts are off throughout.                                          *)
(***************************************************************************)
EXTENDS Integers, Sequences

CONSTANTS
    Mice,       \* the identities the mouse can be switched to: 0, 3, 4
    Slow,       \* the devices that may answer after the kernel has given up
    Drops,      \* may a command make a device forget what it has not sent?
    Keys,       \* the codes of the keys that may be pressed
    MaxKeys     \* bound: keys pressed during the set-up

Bytes == 0 .. 255

ASSUME MiceAssumption == Mice \subseteq {0, 3, 4}
ASSUME SlowAssumption == Slow \subseteq {1, 2} /\ Drops \subseteq BOOLEAN
ASSUME KeysAssumption == Keys \subseteq Bytes /\ MaxKeys \in Nat

VARIABLES
    part, line, \* the next instruction: a part of the script, a line of it
    status, result, mouse_mode, is_dual_device,     \* the kernel's
    port, full, \* the data port and whether its byte is unread
    config,     \* the controller's configuration byte
    target,     \* where the controller passes the next data byte
    pending,    \* what the controller (0) and the devices have yet to send
    ports,      \* ports of the controller
    mouse,      \* its type, identity, sample rates, and what it expects
    streaming,  \* the devices that report of their own accord
    drops,      \* whether the devices forget unsent bytes
    latch,      \* the IRQs that are waiting for kmain's sti
    keys,       \* keys pressed so far
    late        \* history: the kernel has given up on an answer

kernelVars     == <<status, result, mouse_mode, is_dual_device>>
controllerVars == <<port, full, config, target, latch>>
deviceVars     == <<ports, mouse, streaming, drops>>
pcVars         == <<part, line>>
vars == <<pcVars, kernelVars, controllerVars, pending, deviceVars, keys, late>>

-----------------------------------------------------------------------------
(* The script.                                                             *)

PS2_CONFIG_READ  == 32
PS2_CONFIG_WRITE == 96
PS2_SELF_TEST    == 170
PS2_ACK_BYTE     == 250
MOUSE_WRITE      == 212
PS2_DISABLE(dev) == IF dev = 1 THEN 173 ELSE 167
PS2_ENABLE(dev)  == IF dev = 1 THEN 174 ELSE 168
PS2_TEST(dev)    == IF dev = 1 THEN 171 ELSE 169
IDENTIFY == 242
ENABLE_STREAMING  == 244
DISABLE_STREAMING == 245
RESET    == 255
SET_SAMPLE_RATE == 243

\* One instruction; the dual ones are skipped without a second port.
Do(op, byte)   == [op |-> op, byte |-> byte, dual |-> FALSE]
Dual(op, byte) == [op |-> op, byte |-> byte, dual |-> TRUE]

\* "get" is ps2_wait_read and then inb, "ack" the same until PS2_ACK_BYTE.
Detect == <<
    Do("cmd", PS2_DISABLE(1)), Do("cmd", PS2_DISABLE(2)), Do("inb", 0),
    Do("cmd", PS2_CONFIG_READ), Do("get", 0),
    Do("cmd", PS2_CONFIG_WRITE), Do("quiet", 0),
    Do("cmd", PS2_CONFIG_READ), Do("get", 0), Do("has_clock_2", 0),
    Do("cmd", PS2_SELF_TEST), Do("get", 0) >>

Confirm == <<
    Dual("cmd", PS2_ENABLE(2)), Dual("cmd", PS2_CONFIG_READ), Dual("get", 0),
    Dual("no_clock_2", 0), Dual("cmd", PS2_DISABLE(2)) >>

Configure == <<
    Do("cmd", PS2_CONFIG_READ), Do("get", 0),
    Do("cmd", PS2_CONFIG_WRITE), Do("loud", 0),
    Do("cmd", PS2_ENABLE(1)), Dual("cmd", PS2_ENABLE(2)) >>

\* The loops over the ports: for(int i=0; i < n; ++i)
StopStreaming == <<
    Do("data", DISABLE_STREAMING), Do("ack", 0),
    Dual("cmd", MOUSE_WRITE), Dual("data", DISABLE_STREAMING), Dual("ack", 0) >>

TestPorts == <<
    Do("cmd", PS2_TEST(1)), Do("get", 0),
    Dual("cmd", PS2_TEST(2)), Dual("get", 0) >>

ResetDevices == <<
    Do("data", RESET), Do("get", 0), Do("get_more", 0),
    Dual("cmd", MOUSE_WRITE),
    Dual("data", RESET), Dual("get", 0), Dual("get_more", 0) >>

\* Mutant: read the identity first.
IdentifyLate == <<
    Do("data", IDENTIFY), Do("get", 0), Do("ack", 0), Do("get", 0),
    Dual("cmd", MOUSE_WRITE),
    Dual("data", IDENTIFY), Dual("get", 0), Dual("ack", 0), Dual("get", 0) >>

\* ps2_identify's bytes, which nothing uses, are read into status here.
Identify == <<
    Do("data", IDENTIFY), Do("ack", 0), Do("get", 0), Do("get", 0),
    Dual("cmd", MOUSE_WRITE),
    Dual("data", IDENTIFY), Dual("ack", 0), Dual("get", 0), Dual("get", 0) >>

\* mouse_write, then mouse_read.
Ask(byte) == <<
    Dual("cmd", MOUSE_WRITE), Dual("data", byte), Dual("mouse_read", 0) >>

\* Mutant: without waiting for the acknowledgement.
WhoNoAck(id) == <<
    Dual("cmd", MOUSE_WRITE), Dual("data", IDENTIFY),
    Dual("mouse_read", 0), Dual("is_it", id) >>

\* Ask who is there, and compare the answer.
Who(id) == <<
    Dual("cmd", MOUSE_WRITE), Dual("data", IDENTIFY),
    Dual("ack", 0), Dual("mouse_read", 0), Dual("is_it", id) >>

StartStreaming == <<
    Do("data", ENABLE_STREAMING), Do("ack", 0),
    Dual("cmd", MOUSE_WRITE), Dual("data", ENABLE_STREAMING), Dual("ack", 0) >>

Script == <<
    Detect, Confirm, Configure, StopStreaming, TestPorts, ResetDevices, Identify,
    Ask(IDENTIFY),
    Ask(SET_SAMPLE_RATE), Ask(200), Ask(SET_SAMPLE_RATE), Ask(100),
    Ask(SET_SAMPLE_RATE), Ask(80), Who(3),
    Ask(SET_SAMPLE_RATE), Ask(200), Ask(SET_SAMPLE_RATE), Ask(200),
    Ask(SET_SAMPLE_RATE), Ask(80), Who(4),
    StartStreaming >>

Done == part > Len(Script)
Here == Script[part][line]

\* On to the next instruction.
Advance ==
    IF line < Len(Script[part]) THEN part' = part /\ line' = line + 1
                                ELSE part' = part + 1 /\ line' = 1

-----------------------------------------------------------------------------
(* The controller.  Bits of its configuration byte by their weight: 1 and  *)
(* 2 let the ports raise IRQ 1 and IRQ 12, 16 and 32 stop the ports'       *)
(* clocks, 64 translates scancodes.                                        *)

Bit(b, w) == (b \div w) % 2 = 1
SetBit(b, w) == IF Bit(b, w) THEN b ELSE b + w
ClearBit(b, w) == IF Bit(b, w) THEN b - w ELSE b

Init ==
    /\ part = 1 /\ line = 1
    /\ status = 0 /\ result = 0 /\ mouse_mode = 0 /\ is_dual_device = FALSE
    /\ port = 0 /\ full = FALSE
    /\ config \in {1 + 64, 1 + 2 + 64}
    /\ target = "keyboard"
    /\ pending = [s \in 0 .. 2 |-> <<>>]
    /\ ports \in {1, 2}
    /\ mouse \in [kind : Mice, id : {0}, rates : {<<>>}, expects_rate : {FALSE}]
    /\ streaming = {1}
    /\ drops \in Drops
    /\ latch = {} /\ keys = 0 /\ late = FALSE

CanSend(s) ==
    /\ pending[s] # <<>>
    /\ s = 1 => ~Bit(config, 16)
    /\ s = 2 => ~Bit(config, 32)

\* A byte reaches the output buffer and requests its interrupt.
Deliver(s) ==
    /\ ~full /\ CanSend(s)
    /\ port' = Head(pending[s]) /\ full' = TRUE
    /\ pending' = [pending EXCEPT ![s] = Tail(@)]
    /\ latch' = latch \cup (IF s < 2 /\ Bit(config, 1) THEN {1} ELSE {})
                      \cup (IF s = 2 /\ Bit(config, 2) THEN {12} ELSE {})
    /\ UNCHANGED <<pcVars, kernelVars, config, target, deviceVars, keys, late>>

ControllerAnswer(b) ==
    CASE b = PS2_CONFIG_READ -> <<config>>
      [] b = PS2_SELF_TEST   -> <<85>>
      [] b \in {PS2_TEST(1), PS2_TEST(2)} -> <<0>>
      [] OTHER -> <<>>

ControllerTakes(b) ==
    /\ config' = CASE b = PS2_DISABLE(1) -> SetBit(config, 16)
                   [] b = PS2_ENABLE(1)  -> ClearBit(config, 16)
                   [] b = PS2_DISABLE(2) /\ ports = 2 -> SetBit(config, 32)
                   [] b = PS2_ENABLE(2)  /\ ports = 2 -> ClearBit(config, 32)
                   [] OTHER -> config
    /\ pending' = [pending EXCEPT ![0] = @ \o ControllerAnswer(b)]
    /\ target' = CASE b = PS2_CONFIG_WRITE -> "config"
                   [] b = MOUSE_WRITE      -> "mouse"
                   [] OTHER -> target

-----------------------------------------------------------------------------
(* The devices.                                                            *)

\* The device answers, behind what it has not sent or instead of it.
Answer(dev, bytes) ==
    pending' = [pending EXCEPT ![dev] = (IF drops THEN <<>> ELSE @) \o bytes]

Streaming(dev, b) ==
    streaming' = IF b = ENABLE_STREAMING \/ (b = RESET /\ dev = 1)
                 THEN streaming \cup {dev}
                 ELSE IF b \in {DISABLE_STREAMING, RESET}
                 THEN streaming \ {dev}
                 ELSE streaming

KeyboardAnswer(b) ==
    CASE b = RESET    -> <<PS2_ACK_BYTE, 170>>
      [] b = IDENTIFY -> <<PS2_ACK_BYTE, 171, 65>>
      [] OTHER        -> <<PS2_ACK_BYTE>>

KeyboardTakes(b) ==
    /\ Answer(1, KeyboardAnswer(b))
    /\ Streaming(1, b)
    /\ UNCHANGED mouse

\* The last three sample rates.
Recent(rates, r) == Append(IF Len(rates) = 3 THEN Tail(rates) ELSE rates, r)

\* The sample rates that switch the mouse to its wheel and button modes.
Identity(m, rates) ==
    IF rates = <<200, 100, 80>> /\ m.kind >= 3 THEN 3
    ELSE IF rates = <<200, 200, 80>> /\ m.kind = 4 THEN 4
    ELSE m.id

MouseAnswer(b) ==
    CASE b = RESET    -> <<PS2_ACK_BYTE, 170, 0>>
      [] b = IDENTIFY -> <<PS2_ACK_BYTE, mouse.id>>
      [] OTHER        -> <<PS2_ACK_BYTE>>

MouseTakes(b) ==
    IF mouse.expects_rate
    THEN /\ mouse' = [mouse EXCEPT !.rates = Recent(@, b), !.expects_rate = FALSE,
                                   !.id = Identity(mouse, Recent(mouse.rates, b))]
         /\ Answer(2, <<PS2_ACK_BYTE>>)
         /\ UNCHANGED streaming
    ELSE /\ mouse' = [mouse EXCEPT
                        !.rates = IF b = RESET THEN <<>> ELSE @,
                        !.id    = IF b = RESET THEN 0 ELSE @,
                        !.expects_rate = (b = SET_SAMPLE_RATE)]
         /\ Answer(2, MouseAnswer(b))
         /\ Streaming(2, b)

\* A key is pressed while the keyboard scans.
PressKey(k) ==
    /\ 1 \in streaming /\ keys < MaxKeys
    /\ keys' = keys + 1
    /\ pending' = [pending EXCEPT ![1] = Append(@, k)]
    /\ UNCHANGED <<pcVars, kernelVars, controllerVars, deviceVars, late>>

-----------------------------------------------------------------------------
(* The kernel.                                                             *)

At(op) ==
    /\ ~Done /\ Here.op = op
    /\ Here.dual => is_dual_device

\* if(is_dual_device), and the second turn of the loops.
SkipDual ==
    /\ ~Done /\ Here.dual /\ ~is_dual_device
    /\ Advance
    /\ UNCHANGED <<kernelVars, controllerVars, pending, deviceVars, keys, late>>

\* outb(PS2_CMD, byte)
OutCmd ==
    /\ At("cmd") /\ Advance
    /\ ControllerTakes(Here.byte)
    /\ UNCHANGED <<kernelVars, port, full, latch, deviceVars, keys, late>>

\* outb(PS2_DATA, byte)
OutData ==
    /\ At("data") /\ Advance
    /\ IF target = "mouse" THEN MouseTakes(Here.byte)
                           ELSE KeyboardTakes(Here.byte)
    /\ target' = "keyboard"
    /\ UNCHANGED <<kernelVars, port, full, config, latch, ports, drops, keys, late>>

\* Mutant: IRQ 12 stays off.
LoudNoIrq(b) == SetBit(SetBit(b, 1), 64)

\* The configuration without, and then with, interrupts and translation.
Quiet(b) == ClearBit(ClearBit(ClearBit(b, 1), 2), 64)
Loud(b) == LET one == SetBit(SetBit(b, 1), 64)
           IN  IF is_dual_device THEN SetBit(one, 2) ELSE one
WriteConfig ==
    /\ At("quiet") \/ At("loud")
    /\ Advance
    /\ config' = IF At("quiet") THEN Quiet(status) ELSE Loud(status)
    /\ status' = IF At("quiet") THEN status ELSE Loud(status)
    /\ target' = "keyboard"
    /\ UNCHANGED <<result, mouse_mode, is_dual_device, port, full, latch,
                   pending, deviceVars, keys, late>>

\* Three dummy reads; both ports are stopped.
DummyReads ==
    /\ At("inb") /\ Advance
    /\ full' = FALSE
    /\ UNCHANGED <<kernelVars, port, config, target, latch, pending,
                   deviceVars, keys, late>>

\* ps2_wait_read ends with a byte in the buffer, or when nothing has come in
\* time.
Waited ==
    /\ full \/ \A s \in 0 .. 2 : CanSend(s) => s \in Slow
    /\ late' = (late \/ (~full /\ \E s \in 0 .. 2 : CanSend(s)))

\* The result of the waiting is ignored, the port read in any case.
ReadStatus ==
    /\ Waited
    /\ status' = port /\ full' = FALSE
    /\ UNCHANGED <<result, mouse_mode, is_dual_device, port, config, target,
                   latch, pending, deviceVars, keys>>

GetStatus ==
    /\ At("get") \/ (At("get_more") /\ status = PS2_ACK_BYTE)
    /\ ReadStatus /\ Advance

NoMore ==
    /\ At("get_more") /\ status # PS2_ACK_BYTE
    /\ Advance
    /\ UNCHANGED <<kernelVars, controllerVars, pending, deviceVars, keys, late>>

\* do ... while(status != PS2_ACK_BYTE)
AwaitAck ==
    /\ At("ack")
    /\ ReadStatus
    /\ IF port = PS2_ACK_BYTE THEN Advance ELSE UNCHANGED pcVars

mouse_read ==
    /\ At("mouse_read") /\ Advance
    /\ Waited
    /\ result' = IF full THEN port ELSE 0
    /\ full' = FALSE
    /\ UNCHANGED <<status, mouse_mode, is_dual_device, port, config, target,
                   latch, pending, deviceVars, keys>>

\* Bit 5 of the configuration: the second port's clock is stopped.
CheckDual ==
    /\ At("has_clock_2") \/ At("no_clock_2")
    /\ Advance
    /\ is_dual_device' = IF At("has_clock_2")
                         THEN is_dual_device \/ Bit(status, 32)
                         ELSE is_dual_device /\ ~Bit(status, 32)
    /\ UNCHANGED <<status, result, mouse_mode, controllerVars, pending,
                   deviceVars, keys, late>>

\* Mutant: any identity will do.
CheckIdentityAny ==
    /\ At("is_it") /\ Advance
    /\ mouse_mode' = IF result # 0 THEN 1 ELSE mouse_mode
    /\ UNCHANGED <<status, result, is_dual_device, controllerVars, pending,
                   deviceVars, keys, late>>

\* if (result == 3), if (result == 4)
CheckIdentity ==
    /\ At("is_it") /\ Advance
    /\ mouse_mode' = IF result = Here.byte THEN 1 ELSE mouse_mode
    /\ UNCHANGED <<status, result, is_dual_device, controllerVars, pending,
                   deviceVars, keys, late>>

Kernel ==
    \/ SkipDual \/ OutCmd \/ OutData \/ WriteConfig \/ DummyReads \/ GetStatus
    \/ NoMore \/ AwaitAck \/ mouse_read \/ CheckDual \/ CheckIdentity

Next ==
    \/ Kernel
    \/ \E s \in 0 .. 2 : Deliver(s)
    \/ \E k \in Keys : PressKey(k)

\* The processor runs, and every answer comes in the end.
Fairness ==
    /\ WF_vars(Kernel)
    /\ \A s \in 0 .. 2 : WF_vars(Deliver(s))

Spec == Init /\ [][Next]_vars /\ Fairness

-----------------------------------------------------------------------------
(* Properties.                                                             *)

wire == IF mouse.id >= 3 THEN 4 ELSE 3      \* bytes per packet

\* Whatever was typed and however late the answers came, ps2_install ends with
\* both devices reporting, both ports running and their interrupts enabled;
\* of a controller without a second port it uses the first one only.
InputOn ==
    Done => /\ is_dual_device = (ports = 2)
            /\ streaming = 1 .. ports
            /\ Bit(config, 1) /\ ~Bit(config, 16) /\ Bit(config, 64)
            /\ ports = 2 => Bit(config, 2) /\ ~Bit(config, 32)

\* The kernel never waits for a fourth byte the mouse does not send, unless a
\* key's code was taken for an identity.
ModeSafe == keys = 0 /\ mouse_mode = 1 => wire = 4

\* With prompt devices and no key pressed no answer is left for the interrupt
\* handlers, which would take it for a key or a movement.
NothingLeft ==
    Done /\ keys = 0 /\ ~late => ~full /\ \A s \in 0 .. 2 : pending[s] = <<>>

\* The set-up ends: every loop for an acknowledgement finds one, as long as
\* every device answers.
SetupEnds == <>Done

\* "Try to enable scroll wheel" (kb.c): a mouse that has been switched to its
\* wheel mode is recognised.
WheelRecognised == Done /\ keys = 0 /\ ~late /\ wire = 4 => mouse_mode = 1
=============================================================================
