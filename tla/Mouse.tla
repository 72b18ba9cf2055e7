------------------------------- MODULE Mouse --------------------------------
(***************************************************************************)
(* The PS/2 mouse and mouse_handler of kb.c.  The mouse reports a movement *)
(* as a packet of three bytes, or four once it is in its wheel mode; each  *)
(* byte raises IRQ 12 and is one call of the handler, which must find the  *)
(* packets again in the stream of bytes: only bit 3 of a first byte helps. *)
(*                                                                         *)
(* ps2_install polls for the mouse's answers while interrupts are off, so  *)
(* that IRQ 1 and IRQ 12 may be latched when kmain enables interrupts; the *)
(* handlers then run without a byte of their own.                          *)
(***************************************************************************)
EXTENDS Integers, Sequences

CONSTANTS
    Moves,      \* the movements the mouse reports, as records
    Modes,      \* pairs: bytes per packet on the wire, and mouse_mode
    MaxX, MaxY, \* the pad the position is kept on: 600 and 400 in kb.c
    Slots       \* entries of mouse_packets: 256

Buttons == {"left", "right", "middle"}

ASSUME MovesAssumption ==
    Moves \subseteq [dx : -256 .. 255, dy : -256 .. 255, wheel : -8 .. 7,
                     buttons : SUBSET Buttons, overflow : BOOLEAN]
ASSUME ModesAssumption == Modes \subseteq {3, 4} \X {0, 1}
ASSUME PadAssumption   == MaxX \in Nat /\ MaxY \in Nat
ASSUME SlotsAssumption == Slots \in Nat \ {0}

VARIABLES
    wire,           \* bytes per packet the mouse sends
    mouse_mode,     \* MOUSE_DEFAULT or MOUSE_SCROLLWHEEL, what kb.c believes
    latch,          \* IRQs latched by the answers ps2_install has polled
    move,           \* the movement the mouse reports
    rest,           \* bytes of its packet still to come
    mouse_byte,     \* the bytes collected; mouse_cycle is their number
    mouse_x, mouse_y, mouse_buttons,
    mouse_packets, mouse_packets_last,
    framed,         \* history: the packet began with the handler in frame
    intact          \* history: the handler sees each byte of the packet

deviceVars  == <<wire, mouse_mode, latch, move, rest>>
pointerVars == <<mouse_x, mouse_y, mouse_buttons>>
packetVars  == <<mouse_packets, mouse_packets_last>>
handlerVars == <<mouse_byte, pointerVars, packetVars>>
history     == <<framed, intact>>
vars        == <<deviceVars, handlerVars, history>>

Bit(b, w) == (b \div w) % 2 = 1     \* the bit of weight w
Flag(c, w) == IF c THEN w ELSE 0

NoMove   == [dx |-> 0, dy |-> 0, wheel |-> 0, buttons |-> {}, overflow |-> FALSE]
NoPacket == [x_difference |-> 0, y_difference |-> 0, buttons |-> {}]

Init ==
    /\ \E m \in Modes : wire = m[1] /\ mouse_mode = m[2]
    /\ latch \in SUBSET {1, 12}
    /\ move = NoMove /\ rest = 0
    /\ mouse_byte = <<>>
    /\ mouse_x = 0 /\ mouse_y = 0 /\ mouse_buttons = {}
    /\ mouse_packets = [i \in 0 .. Slots - 1 |-> NoPacket]
    /\ mouse_packets_last = 0
    /\ framed = TRUE /\ intact = FALSE

-----------------------------------------------------------------------------
(* The mouse.  It counts y upwards; deltas are nine bits, the sign in the  *)
(* first byte.                                                             *)

Encode(m) ==
    << Flag("left" \in m.buttons, 1) + Flag("right" \in m.buttons, 2)
         + Flag("middle" \in m.buttons, 4) + 8
         + Flag(m.dx < 0, 16) + Flag(m.dy < 0, 32) + Flag(m.overflow, 64),
       m.dx % 256, m.dy % 256, m.wheel % 256 >>

Byte(i) == Encode(move)[i]

\* The mouse starts a packet; the previous one is through.
Report(m) ==
    /\ rest = 0
    /\ move' = m /\ rest' = wire
    /\ framed' = (mouse_byte = <<>>) /\ intact' = TRUE
    /\ UNCHANGED <<wire, mouse_mode, latch, handlerVars>>

-----------------------------------------------------------------------------
(* mouse_handler on the byte mouse_in.                                     *)

PacketSize == IF mouse_mode = 0 THEN 3 ELSE 4
\* Mutant: no lower limit.
ClampHigh(v, low, high) == IF v < high THEN v ELSE high

\* CLAMP.
Clamp(v, low, high) ==
    IF v < low THEN low ELSE IF v < high THEN v ELSE high

\* case 0: without bit 3 this is no first byte.
Skip(mouse_in) ==
    /\ mouse_byte = <<>>
    /\ ~Bit(mouse_in, 8)
    /\ UNCHANGED handlerVars

\* Mutant: any byte will do as a first one.
CollectAny(mouse_in) ==
    /\ Len(mouse_byte) + 1 < PacketSize
    /\ mouse_byte' = Append(mouse_byte, mouse_in)
    /\ UNCHANGED <<pointerVars, packetVars>>

\* cases 0 to 2: one byte of several.
Collect(mouse_in) ==
    /\ mouse_byte = <<>> => Bit(mouse_in, 8)
    /\ Len(mouse_byte) + 1 < PacketSize
    /\ mouse_byte' = Append(mouse_byte, mouse_in)
    /\ UNCHANGED <<pointerVars, packetVars>>

Pressed(state) ==
    {b \in Buttons : \/ b = "left" /\ Bit(state, 1)
                     \/ b = "right" /\ Bit(state, 2)
                     \/ b = "middle" /\ Bit(state, 4)}

\* A u8 is never less than 0: the wheel only turns one way.
Scrolled(bytes) ==
    IF mouse_mode = 1 /\ bytes[4] > 0 THEN {"scroll down"} ELSE {}

\* Mutant: y counts the same way on the wire and on the screen.
DecodeUp(bytes) ==
    LET state == bytes[1] IN
    [ x_difference |-> bytes[2] - Flag(Bit(state, 16), 256),
      y_difference |-> bytes[3] - Flag(Bit(state, 32), 256),
      buttons |-> Pressed(state) \cup Scrolled(bytes) ]

\* What a finished packet says: state is its first byte.
Decode(bytes) ==
    LET state == bytes[1] IN
    [ x_difference |-> bytes[2] - Flag(Bit(state, 16), 256),
      y_difference |-> -(bytes[3] - Flag(Bit(state, 32), 256)),
      buttons |-> Pressed(state) \cup Scrolled(bytes) ]

add_packet(packet) ==
    /\ mouse_packets' = [mouse_packets EXCEPT ![mouse_packets_last] = packet]
    /\ mouse_packets_last' = (mouse_packets_last + 1) % Slots

\* Mutant: mouse_cycle is reset behind the check for overflow.
FinishNoReset(mouse_in) ==
    /\ Len(mouse_byte) + 1 = PacketSize
    /\ LET bytes  == Append(mouse_byte, mouse_in)
           packet == Decode(bytes)
       IN  IF Bit(bytes[1], 128) \/ Bit(bytes[1], 64)
           THEN UNCHANGED <<mouse_byte, pointerVars, packetVars>>
           ELSE /\ mouse_byte' = <<>>
                /\ mouse_x' = Clamp(mouse_x + packet.x_difference, 0, MaxX)
                /\ mouse_y' = Clamp(mouse_y + packet.y_difference, 0, MaxY)
                /\ mouse_buttons' = packet.buttons
                /\ add_packet(packet)

\* finish_packet: a packet whose deltas have overflowed is thrown away.
Finish(mouse_in) ==
    /\ Len(mouse_byte) + 1 = PacketSize
    /\ mouse_byte' = <<>>
    /\ LET bytes  == Append(mouse_byte, mouse_in)
           packet == Decode(bytes)
       IN  IF Bit(bytes[1], 128) \/ Bit(bytes[1], 64)
           THEN UNCHANGED <<pointerVars, packetVars>>
           ELSE /\ mouse_x' = Clamp(mouse_x + packet.x_difference, 0, MaxX)
                /\ mouse_y' = Clamp(mouse_y + packet.y_difference, 0, MaxY)
                /\ mouse_buttons' = packet.buttons
                /\ add_packet(packet)

mouse_handler(mouse_in) == Skip(mouse_in) \/ Collect(mouse_in) \/ Finish(mouse_in)

-----------------------------------------------------------------------------
(* Interrupts.                                                             *)

\* The next byte of the packet arrives; it also serves a latched IRQ 12.
ByteArrives ==
    /\ rest > 0 /\ 1 \notin latch
    /\ rest' = rest - 1 /\ latch' = {}
    /\ mouse_handler(Byte(wire - rest + 1))
    /\ UNCHANGED <<wire, mouse_mode, move, history>>

\* IRQ 12 was latched for an answer that was polled: the port still gives
\* the last byte read, the mouse's acknowledgement.
PS2_ACK_BYTE == 250
StaleByte ==
    /\ latch = {12}
    /\ latch' = {}
    /\ mouse_handler(PS2_ACK_BYTE)
    /\ framed' = FALSE
    /\ UNCHANGED <<wire, mouse_mode, move, rest, intact>>

\* IRQ 1 was latched: keyboard_handler runs first and reads the port.
StaleIrq1 ==
    /\ 1 \in latch
    /\ latch' = latch \ {1}
    /\ UNCHANGED <<wire, mouse_mode, move, rest, handlerVars, history>>

\* The byte it reads may be the mouse's, whose request is gone with it.
StolenByte ==
    /\ 1 \in latch /\ rest > 0
    /\ latch' = {}
    /\ rest' = rest - 1
    /\ framed' = FALSE /\ intact' = FALSE
    /\ UNCHANGED <<wire, mouse_mode, move, handlerVars>>

Next ==
    \/ \E m \in Moves : Report(m)
    \/ ByteArrives \/ StaleByte \/ StaleIrq1 \/ StolenByte

Spec == Init /\ [][Next]_vars

-----------------------------------------------------------------------------
(* Properties.                                                             *)

Bytes == 0 .. 255
Packets == [x_difference : -256 .. 255, y_difference : -255 .. 256,
            buttons : SUBSET (Buttons \cup {"scroll down"})]

TypeOK ==
    /\ <<wire, mouse_mode>> \in Modes
    /\ latch \subseteq {1, 12}
    /\ move \in Moves \cup {NoMove}
    /\ rest \in 0 .. wire
    /\ mouse_byte \in Seq(Bytes) /\ Len(mouse_byte) < PacketSize
    /\ mouse_x \in 0 .. MaxX /\ mouse_y \in 0 .. MaxY
    /\ mouse_buttons \subseteq Buttons \cup {"scroll down"}
    /\ mouse_packets \in [0 .. Slots - 1 -> Packets]
    /\ mouse_packets_last \in 0 .. Slots - 1
    /\ framed \in BOOLEAN /\ intact \in BOOLEAN

\* The wire and the kernel agree on the size of a packet, or the byte the
\* kernel does not know of does not look like a first byte.
Agreed == wire = PacketSize \/ (wire = 4 /\ ~Bit(Byte(4), 8))

\* A handler that is in frame when a packet begins is in frame when the next
\* one does.
StaysFramed == rest = 0 /\ framed /\ Agreed => mouse_byte = <<>>

\* A packet whose later bytes do not look like first bytes, as small movements
\* to the right and up make them, puts the handler back in frame, whatever
\* it had collected before: a stale byte, a lost byte, half a packet.
Calm == \A i \in 2 .. wire : ~Bit(Byte(i), 8)
Resynchronises ==
    rest = 0 /\ intact /\ Calm /\ wire >= PacketSize => mouse_byte = <<>>

\* In frame, the position, the buttons and the queue change once per packet,
\* when its last byte arrives, and by what the mouse has reported; a report
\* that overflowed changes nothing.
Reported ==
    /\ mouse_x' = Clamp(mouse_x + move.dx, 0, MaxX)
    /\ mouse_y' = Clamp(mouse_y - move.dy, 0, MaxY)
    /\ mouse_buttons' = move.buttons
           \cup (IF mouse_mode = 1 /\ move.wheel # 0 THEN {"scroll down"} ELSE {})
    /\ mouse_packets'[mouse_packets_last] =
           [x_difference |-> move.dx, y_difference |-> -move.dy,
            buttons |-> mouse_buttons']
    /\ mouse_packets_last' = (mouse_packets_last + 1) % Slots
WholePackets ==
    [][ framed /\ rest' < rest /\ framed' =>
          IF wire - rest' = PacketSize /\ ~move.overflow
          THEN Reported
          ELSE UNCHANGED <<pointerVars, packetVars>> ]_vars
=============================================================================
