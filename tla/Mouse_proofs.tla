---------------------------- MODULE Mouse_proofs ----------------------------
(***************************************************************************)
(* mouse_handler stays in frame, falls back into frame and applies whole   *)
(* packets, for every set of movements, every pad and every queue size.    *)
(***************************************************************************)
EXTENDS Mouse, SequenceTheorems, TLAPS

arrived == wire - rest

\* In frame the handler has collected what has arrived of the packet, until
\* the packet is complete for it; a fourth byte it does not expect stays if it
\* looks like a first one.
Prefix(n) == IF n = 0 THEN <<>>
             ELSE IF n = 1 THEN <<Byte(1)>>
             ELSE IF n = 2 THEN <<Byte(1), Byte(2)>>
             ELSE IF n = 3 THEN <<Byte(1), Byte(2), Byte(3)>>
             ELSE <<Byte(1), Byte(2), Byte(3), Byte(4)>>

FrameInv ==
    framed /\ (wire >= PacketSize \/ rest # 0) =>
        mouse_byte = IF arrived < PacketSize THEN Prefix(arrived)
                     ELSE IF arrived = 4 /\ PacketSize = 3 /\ Bit(Byte(4), 8)
                     THEN <<Byte(4)>>
                     ELSE <<>>

\* Once the first byte of a calm packet is in, either the handler has nothing
\* or the bytes still to come complete what it has.
ResyncInv ==
    intact /\ Calm /\ wire >= PacketSize /\ arrived >= 1 =>
        mouse_byte = <<>> \/ Len(mouse_byte) + rest >= PacketSize

\* As long as an IRQ is latched no byte of a packet has come through.
LatchInv == latch # {} => rest = wire \/ (rest = 0 /\ ~intact)

IInv == TypeOK /\ FrameInv /\ ResyncInv /\ LatchInv

-----------------------------------------------------------------------------
(* Bytes.                                                                  *)

\* The low eight bits of a number of nine bits.
LEMMA LowByte ==
    ASSUME NEW d \in -256 .. 255
    PROVE  /\ d % 256 \in 0 .. 255
           /\ (d % 256) - Flag(d < 0, 256) = d
  <1>1. CASE d >= 0
    <2>1. d % 256 = d
      BY <1>1
    <2> QED BY <1>1, <2>1 DEF Flag
  <1>2. CASE d < 0
    <2>1. d % 256 = d + 256
      BY <1>2
    <2> QED BY <1>2, <2>1 DEF Flag
  <1> QED BY <1>1, <1>2

LEMMA MoveType ==
    TypeOK => /\ move \in [dx : -256 .. 255, dy : -256 .. 255, wheel : -8 .. 7,
                           buttons : SUBSET Buttons, overflow : BOOLEAN]
              /\ move.dx \in -256 .. 255
              /\ move.dy \in -256 .. 255
              /\ move.wheel \in -256 .. 255
  <1> SUFFICES ASSUME TypeOK
               PROVE  move \in [dx : -256 .. 255, dy : -256 .. 255, wheel : -8 .. 7,
                                buttons : SUBSET Buttons, overflow : BOOLEAN]
    OBVIOUS
  <1>1. NoMove \in [dx : -256 .. 255, dy : -256 .. 255, wheel : -8 .. 7,
                    buttons : SUBSET Buttons, overflow : BOOLEAN]
    BY DEF NoMove
  <1>2. move \in Moves \/ move = NoMove
    BY DEF TypeOK
  <1> QED BY <1>1, <1>2, MovesAssumption

\* The first byte of a packet says what it should.
LEMMA FirstByte ==
    ASSUME TypeOK
    PROVE  /\ Byte(1) \in Bytes
           /\ Bit(Byte(1), 1) <=> "left" \in move.buttons
           /\ Bit(Byte(1), 2) <=> "right" \in move.buttons
           /\ Bit(Byte(1), 4) <=> "middle" \in move.buttons
           /\ Bit(Byte(1), 8)
           /\ Bit(Byte(1), 16) <=> move.dx < 0
           /\ Bit(Byte(1), 32) <=> move.dy < 0
           /\ Bit(Byte(1), 64) <=> move.overflow
           /\ ~Bit(Byte(1), 128)
  <1> DEFINE a == Flag("left" \in move.buttons, 1)
             b == Flag("right" \in move.buttons, 2)
             c == Flag("middle" \in move.buttons, 4)
             e == Flag(move.dx < 0, 16)
             f == Flag(move.dy < 0, 32)
             g == Flag(move.overflow, 64)
  <1>1. Byte(1) = a + b + c + 8 + e + f + g
    BY DEF Byte, Encode
  <1>2. /\ a \in {0, 1} /\ (a = 1 <=> "left" \in move.buttons)
        /\ b \in {0, 2} /\ (b = 2 <=> "right" \in move.buttons)
        /\ c \in {0, 4} /\ (c = 4 <=> "middle" \in move.buttons)
        /\ e \in {0, 16} /\ (e = 16 <=> move.dx < 0)
        /\ f \in {0, 32} /\ (f = 32 <=> move.dy < 0)
        /\ g \in {0, 64} /\ (g = 64 <=> move.overflow)
    BY DEF Flag
  <1> HIDE DEF a, b, c, e, f, g
  <1>3. Byte(1) \in Bytes
    BY <1>1, <1>2 DEF Bytes
  <1>4. Bit(Byte(1), 1) <=> a = 1
    BY <1>1, <1>2 DEF Bit
  <1>5. Bit(Byte(1), 2) <=> b = 2
    BY <1>1, <1>2 DEF Bit
  <1>6. Bit(Byte(1), 4) <=> c = 4
    BY <1>1, <1>2 DEF Bit
  <1>7. Bit(Byte(1), 8)
    BY <1>1, <1>2 DEF Bit
  <1>8. Bit(Byte(1), 16) <=> e = 16
    BY <1>1, <1>2 DEF Bit
  <1>9. Bit(Byte(1), 32) <=> f = 32
    BY <1>1, <1>2 DEF Bit
  <1>10. Bit(Byte(1), 64) <=> g = 64
    BY <1>1, <1>2 DEF Bit
  <1>11. ~Bit(Byte(1), 128)
    BY <1>1, <1>2 DEF Bit
  <1> QED
    BY <1>2, <1>3, <1>4, <1>5, <1>6, <1>7, <1>8, <1>9, <1>10, <1>11

LEMMA EncodeType ==
    ASSUME TypeOK
    PROVE  /\ Encode(move) \in Seq(Bytes)
           /\ Len(Encode(move)) = 4
           /\ \A i \in 1 .. 4 : Byte(i) \in Bytes
           /\ Encode(move) = <<Byte(1), Byte(2), Byte(3), Byte(4)>>
  <1>1. /\ Byte(2) = move.dx % 256 /\ Byte(3) = move.dy % 256
        /\ Byte(4) = move.wheel % 256
        /\ Encode(move) = <<Byte(1), Byte(2), Byte(3), Byte(4)>>
    BY DEF Byte, Encode
  <1>2. Byte(2) \in Bytes /\ Byte(3) \in Bytes /\ Byte(4) \in Bytes
    BY <1>1, MoveType, LowByte DEF Bytes
  <1> QED BY <1>1, <1>2, FirstByte

LEMMA Sizes ==
    ASSUME TypeOK
    PROVE  /\ wire \in {3, 4} /\ mouse_mode \in {0, 1}
           /\ PacketSize \in {3, 4} /\ (PacketSize = 4 <=> mouse_mode = 1)
           /\ rest \in 0 .. wire /\ arrived \in 0 .. wire
           /\ Len(mouse_byte) \in 0 .. 3 /\ Len(mouse_byte) < PacketSize
  <1>1. wire \in {3, 4} /\ mouse_mode \in {0, 1}
    BY ModesAssumption DEF TypeOK
  <1>2. PacketSize \in {3, 4} /\ (PacketSize = 4 <=> mouse_mode = 1)
    BY <1>1 DEF PacketSize
  <1>3. rest \in 0 .. wire /\ Len(mouse_byte) < PacketSize /\ Len(mouse_byte) \in Nat
    BY LenProperties DEF TypeOK
  <1>4. arrived \in 0 .. wire
    BY <1>1, <1>3 DEF arrived
  <1>5. Len(mouse_byte) \in 0 .. 3
    <2>1. \A n \in Nat, p \in {3, 4} : n < p => n \in 0 .. 3
      OBVIOUS
    <2> QED BY <1>2, <1>3, <2>1
  <1> QED BY <1>1, <1>2, <1>3, <1>4, <1>5

-----------------------------------------------------------------------------
(* The handler.                                                            *)

\* The part of TypeOK that is the handler's.
HandlerOK ==
    /\ mouse_byte \in Seq(Bytes) /\ Len(mouse_byte) < PacketSize
    /\ mouse_x \in 0 .. MaxX /\ mouse_y \in 0 .. MaxY
    /\ mouse_buttons \subseteq Buttons \cup {"scroll down"}
    /\ mouse_packets \in [0 .. Slots - 1 -> Packets]
    /\ mouse_packets_last \in 0 .. Slots - 1

LEMMA DecodeType ==
    ASSUME NEW bytes \in Seq(Bytes), Len(bytes) >= 3
    PROVE  Decode(bytes) \in Packets
  <1>1. bytes[2] \in 0 .. 255 /\ bytes[3] \in 0 .. 255
    <2>1. Len(bytes) \in Nat /\ 2 \in 1 .. Len(bytes) /\ 3 \in 1 .. Len(bytes)
      BY LenProperties
    <2> QED BY <2>1, ElementOfSeq DEF Bytes
  <1>2. /\ Flag(Bit(bytes[1], 16), 256) \in {0, 256}
        /\ Flag(Bit(bytes[1], 32), 256) \in {0, 256}
    BY DEF Flag
  <1>3. Decode(bytes).x_difference \in -256 .. 255
    <2>1. Decode(bytes).x_difference = bytes[2] - Flag(Bit(bytes[1], 16), 256)
      BY DEF Decode
    <2>2. \A u \in 0 .. 255, w \in {0, 256} : u - w \in -256 .. 255
      OBVIOUS
    <2> QED BY <1>1, <1>2, <2>1, <2>2
  <1>4. Decode(bytes).y_difference \in -255 .. 256
    <2>1. Decode(bytes).y_difference = -(bytes[3] - Flag(Bit(bytes[1], 32), 256))
      BY DEF Decode
    <2>2. \A u \in 0 .. 255, w \in {0, 256} : -(u - w) \in -255 .. 256
      OBVIOUS
    <2> QED BY <1>1, <1>2, <2>1, <2>2
  <1>5. Decode(bytes).buttons \in SUBSET (Buttons \cup {"scroll down"})
    BY DEF Decode, Pressed, Scrolled
  <1>6. Decode(bytes) = [x_difference |-> Decode(bytes).x_difference,
                         y_difference |-> Decode(bytes).y_difference,
                         buttons |-> Decode(bytes).buttons]
    BY DEF Decode
  <1> QED BY <1>3, <1>4, <1>5, <1>6 DEF Packets

LEMMA PacketFields ==
    ASSUME NEW p \in Packets
    PROVE  /\ p.x_difference \in -256 .. 256
           /\ p.y_difference \in -256 .. 256
           /\ p.buttons \subseteq Buttons \cup {"scroll down"}
  <1>1. p.x_difference \in -256 .. 256
    <2>1. p.x_difference \in -256 .. 255
      BY DEF Packets
    <2> QED BY <2>1
  <1>2. p.y_difference \in -256 .. 256
    <2>1. p.y_difference \in -255 .. 256
      BY DEF Packets
    <2> QED BY <2>1
  <1>3. p.buttons \subseteq Buttons \cup {"scroll down"}
    BY DEF Packets
  <1> QED BY <1>1, <1>2, <1>3

\* A sum with a delta is a number.
LEMMA SumType ==
    \A m \in Nat : \A v \in 0 .. m, d \in -256 .. 256 : v + d \in Int
  OBVIOUS

LEMMA ClampType ==
    \A m \in Nat, v \in Int : Clamp(v, 0, m) \in 0 .. m
  BY DEF Clamp

LEMMA SlotType ==
    \A n \in Int : n % Slots \in 0 .. Slots - 1
  BY SlotsAssumption

LEMMA SameHandlerOK ==
    ASSUME TypeOK, UNCHANGED <<mouse_mode, handlerVars>>
    PROVE  HandlerOK' /\ PacketSize' = PacketSize
  <1>1. /\ mouse_mode' = mouse_mode /\ mouse_byte' = mouse_byte
        /\ mouse_x' = mouse_x /\ mouse_y' = mouse_y
        /\ mouse_buttons' = mouse_buttons
        /\ mouse_packets' = mouse_packets
        /\ mouse_packets_last' = mouse_packets_last
    BY DEF handlerVars, pointerVars, packetVars
  <1>2. PacketSize' = PacketSize
    BY <1>1 DEF PacketSize
  <1> QED BY <1>1, <1>2 DEF TypeOK, HandlerOK

\* Whatever byte it is given, the handler keeps its state in range.
LEMMA HandlerType ==
    ASSUME TypeOK, NEW b \in Bytes, mouse_handler(b), UNCHANGED mouse_mode
    PROVE  HandlerOK'
  <1>1. HandlerOK /\ PacketSize' = PacketSize
    BY DEF TypeOK, HandlerOK, PacketSize
  <1>2. CASE Skip(b)
    BY <1>1, <1>2 DEF Skip, handlerVars, pointerVars, packetVars, HandlerOK
  <1>3. CASE Collect(b)
    <2>1. mouse_byte' \in Seq(Bytes) /\ Len(mouse_byte') < PacketSize
      BY <1>1, <1>3, AppendProperties DEF Collect, HandlerOK
    <2> QED BY <1>1, <1>3, <2>1 DEF Collect, pointerVars, packetVars, HandlerOK
  <1>4. CASE Finish(b)
    <2> DEFINE bytes == Append(mouse_byte, b)
    <2>1. bytes \in Seq(Bytes) /\ Len(bytes) = PacketSize
      BY <1>1, <1>4, AppendProperties DEF Finish, HandlerOK
    <2>2. Decode(bytes) \in Packets
      <3>1. \A n, p \in {3, 4} : n = p => n >= 3
        OBVIOUS
      <3>2. Len(bytes) >= 3
        BY <2>1, <3>1, Sizes
      <3> QED BY <2>1, <3>2, DecodeType
    <2>3. mouse_byte' = <<>> /\ <<>> \in Seq(Bytes) /\ Len(<<>>) < PacketSize
      BY <1>4, Sizes DEF Finish
    <2>4. CASE UNCHANGED <<pointerVars, packetVars>>
      BY <1>1, <2>3, <2>4 DEF pointerVars, packetVars, HandlerOK
    <2>5. CASE /\ mouse_x' = Clamp(mouse_x + Decode(bytes).x_difference, 0, MaxX)
               /\ mouse_y' = Clamp(mouse_y + Decode(bytes).y_difference, 0, MaxY)
               /\ mouse_buttons' = Decode(bytes).buttons
               /\ add_packet(Decode(bytes))
      <3>1. /\ Decode(bytes).x_difference \in -256 .. 256
            /\ Decode(bytes).y_difference \in -256 .. 256
            /\ Decode(bytes).buttons \subseteq Buttons \cup {"scroll down"}
        BY <2>2, PacketFields
      <3>2. mouse_x' \in 0 .. MaxX /\ mouse_y' \in 0 .. MaxY
        <4>1. mouse_x \in 0 .. MaxX /\ mouse_y \in 0 .. MaxY
          BY <1>1 DEF HandlerOK
        <4>2. /\ mouse_x + Decode(bytes).x_difference \in Int
              /\ mouse_y + Decode(bytes).y_difference \in Int
          BY <3>1, <4>1, SumType, PadAssumption
        <4> QED BY <2>5, <4>2, ClampType, PadAssumption
      <3>3. /\ mouse_packets' \in [0 .. Slots - 1 -> Packets]
            /\ mouse_packets_last' \in 0 .. Slots - 1
        <4>1. /\ mouse_packets' = [mouse_packets EXCEPT
                                     ![mouse_packets_last] = Decode(bytes)]
              /\ mouse_packets_last' = (mouse_packets_last + 1) % Slots
          BY <2>5 DEF add_packet
        <4>2. mouse_packets_last + 1 \in Int
          <5>1. mouse_packets_last \in 0 .. Slots - 1
            BY <1>1 DEF HandlerOK
          <5> QED BY <5>1, SlotsAssumption
        <4> HIDE DEF bytes
        <4>3. mouse_packets' \in [0 .. Slots - 1 -> Packets]
          BY <1>1, <2>2, <4>1 DEF HandlerOK
        <4> QED BY <4>1, <4>2, <4>3, SlotType
      <3> QED BY <1>1, <2>3, <2>5, <3>1, <3>2, <3>3 DEF HandlerOK
    <2> QED BY <1>4, <2>4, <2>5 DEF Finish
  <1> QED BY <1>2, <1>3, <1>4 DEF mouse_handler

\* What the handler does with the bytes it collects.
LEMMA HandlerBytes ==
    ASSUME TypeOK, NEW b \in Bytes, mouse_handler(b)
    PROVE  mouse_byte' =
             IF mouse_byte = <<>> /\ ~Bit(b, 8) THEN <<>>
             ELSE IF Len(mouse_byte) + 1 < PacketSize THEN Append(mouse_byte, b)
             ELSE <<>>
  <1>1. mouse_byte = <<>> => Len(mouse_byte) = 0
    OBVIOUS
  <1>2. Len(mouse_byte) \in Nat /\ Len(mouse_byte) < PacketSize /\ PacketSize \in {3, 4}
    BY Sizes
  <1>3. CASE Skip(b)
    BY <1>3 DEF Skip, handlerVars
  <1>4. CASE Collect(b)
    BY <1>4 DEF Collect
  <1>5. CASE Finish(b)
    BY <1>1, <1>2, <1>5 DEF Finish
  <1> QED BY <1>3, <1>4, <1>5 DEF mouse_handler

-----------------------------------------------------------------------------
(* The invariant.                                                          *)

\* Short sequences, grown by one element.
LEMMA ShortSequences ==
    ASSUME NEW w, NEW x, NEW y, NEW z
    PROVE  /\ Append(<<>>, w) = <<w>>
           /\ Append(<<w>>, x) = <<w, x>>
           /\ Append(<<w, x>>, y) = <<w, x, y>>
           /\ Append(<<w, x, y>>, z) = <<w, x, y, z>>
           /\ Len(<<w>>) = 1 /\ Len(<<w, x>>) = 2 /\ Len(<<w, x, y>>) = 3
           /\ <<w>> # <<>> /\ <<w, x>> # <<>> /\ <<w, x, y>> # <<>>
  <1> DEFINE S == {w, x, y, z}
  <1>1. Append(<<>>, w) = <<w>>
    OBVIOUS
  <1>2. Append(<<w>>, x) = <<w, x>>
    <2> DEFINE s == <<w>>
               t == <<w, x>>
               u == Append(s, x)
    <2>1. s \in Seq(S) /\ t \in Seq(S) /\ Len(s) = 1 /\ Len(t) = 2
      OBVIOUS
    <2>2. u \in Seq(S) /\ Len(u) = 2
      BY <2>1, AppendProperties
    <2>3. \A i \in 1 .. 2 : u[i] = t[i]
      OBVIOUS
    <2> QED BY <2>1, <2>2, <2>3, SeqEqual
  <1>3. Append(<<w, x>>, y) = <<w, x, y>>
    <2> DEFINE s == <<w, x>>
               t == <<w, x, y>>
               u == Append(s, y)
    <2>1. s \in Seq(S) /\ t \in Seq(S) /\ Len(s) = 2 /\ Len(t) = 3
      OBVIOUS
    <2>2. u \in Seq(S) /\ Len(u) = 3
      BY <2>1, AppendProperties
    <2>3. \A i \in 1 .. 3 : u[i] = t[i]
      OBVIOUS
    <2> QED BY <2>1, <2>2, <2>3, SeqEqual
  <1>4. Append(<<w, x, y>>, z) = <<w, x, y, z>>
    <2> DEFINE s == <<w, x, y>>
               t == <<w, x, y, z>>
               u == Append(s, z)
    <2>1. s \in Seq(S) /\ t \in Seq(S) /\ Len(s) = 3 /\ Len(t) = 4
      OBVIOUS
    <2>2. u \in Seq(S) /\ Len(u) = 4
      BY <2>1, AppendProperties
    <2>3. \A i \in 1 .. 4 : u[i] = t[i]
      OBVIOUS
    <2> QED BY <2>1, <2>2, <2>3, SeqEqual
  <1>5. Len(<<w>>) = 1 /\ Len(<<w, x>>) = 2 /\ Len(<<w, x, y>>) = 3
    OBVIOUS
  <1>6. <<w>> # <<>> /\ <<w, x>> # <<>> /\ <<w, x, y>> # <<>>
    OBVIOUS
  <1> QED BY <1>1, <1>2, <1>3, <1>4, <1>5, <1>6

LEMMA PrefixStep ==
    ASSUME NEW n \in 0 .. 3
    PROVE  /\ Append(Prefix(n), Byte(n + 1)) = Prefix(n + 1)
           /\ Len(Prefix(n)) = n
           /\ Prefix(n) = <<>> <=> n = 0
  <1>1. n = 0 \/ n = 1 \/ n = 2 \/ n = 3
    OBVIOUS
  <1>2. /\ Prefix(0) = <<>>
        /\ Prefix(1) = <<Byte(1)>>
        /\ Prefix(2) = <<Byte(1), Byte(2)>>
        /\ Prefix(3) = <<Byte(1), Byte(2), Byte(3)>>
        /\ Prefix(4) = <<Byte(1), Byte(2), Byte(3), Byte(4)>>
    BY DEF Prefix
  <1>3. /\ Append(Prefix(0), Byte(1)) = Prefix(1)
        /\ Append(Prefix(1), Byte(2)) = Prefix(2)
        /\ Append(Prefix(2), Byte(3)) = Prefix(3)
        /\ Append(Prefix(3), Byte(4)) = Prefix(4)
    BY <1>2, ShortSequences, Zenon
  <1>4. /\ Len(Prefix(0)) = 0 /\ Len(Prefix(1)) = 1
        /\ Len(Prefix(2)) = 2 /\ Len(Prefix(3)) = 3
    <2>1. Len(<<>>) = 0
      OBVIOUS
    <2> QED BY <1>2, <2>1, ShortSequences, Zenon
  <1>5. /\ Prefix(1) # <<>> /\ Prefix(2) # <<>> /\ Prefix(3) # <<>>
    BY <1>2, ShortSequences, Zenon
  <1> HIDE DEF Prefix
  <1>6. 0 + 1 = 1 /\ 1 + 1 = 2 /\ 2 + 1 = 3 /\ 3 + 1 = 4
    OBVIOUS
  <1>7. Append(Prefix(n), Byte(n + 1)) = Prefix(n + 1)
    BY <1>1, <1>3, <1>6, Zenon
  <1>8. Len(Prefix(n)) = n
    BY <1>1, <1>4, Zenon
  <1>9. Prefix(n) = <<>> <=> n = 0
    BY <1>1, <1>2, <1>5
  <1> QED BY <1>7, <1>8, <1>9

LEMMA InitIInv == Init => IInv
  <1> SUFFICES ASSUME Init PROVE IInv
    OBVIOUS
  <1>1. PICK m \in Modes : wire = m[1] /\ mouse_mode = m[2]
    BY DEF Init
  <1>2. /\ m \in {3, 4} \X {0, 1} /\ m = <<wire, mouse_mode>>
        /\ wire \in {3, 4} /\ mouse_mode \in {0, 1}
    BY <1>1, ModesAssumption
  <1>3. NoPacket \in Packets
    BY DEF NoPacket, Packets
  <1>4. TypeOK
    <2>1. mouse_byte \in Seq(Bytes) /\ Len(mouse_byte) < PacketSize
      BY <1>2, EmptySeq DEF Init, PacketSize
    <2>2. /\ 0 \in 0 .. wire /\ 0 \in 0 .. MaxX /\ 0 \in 0 .. MaxY
          /\ 0 \in 0 .. Slots - 1
      BY <1>2, PadAssumption, SlotsAssumption
    <2>3. mouse_packets \in [0 .. Slots - 1 -> Packets]
      BY <1>3 DEF Init
    <2> QED BY <1>2, <2>1, <2>2, <2>3 DEF Init, TypeOK
  <1>5. Byte(4) = 0 /\ ~Bit(0, 8)
    BY DEF Init, Byte, Encode, NoMove, Bit
  <1>6. FrameInv
    BY <1>2, <1>5 DEF Init, FrameInv, arrived, PacketSize
  <1>7. ResyncInv /\ LatchInv
    BY DEF Init, ResyncInv, LatchInv
  <1> QED BY <1>4, <1>6, <1>7 DEF IInv

\* A new packet has not arrived at all.
LEMMA ReportIInv ==
    ASSUME IInv, NEW m \in Moves, Report(m)
    PROVE  IInv'
  <1>1. /\ rest' = wire /\ wire' = wire /\ mouse_mode' = mouse_mode
        /\ latch' = latch /\ move' = m /\ mouse_byte' = mouse_byte
        /\ PacketSize' = PacketSize
        /\ framed' = (mouse_byte = <<>>) /\ intact' = TRUE
        /\ HandlerOK'
    BY SameHandlerOK DEF Report, handlerVars, IInv
  <1>2. wire \in {3, 4} /\ PacketSize \in {3, 4}
    BY Sizes DEF IInv
  <1>3. arrived' = 0
    BY <1>1, <1>2 DEF arrived
  <1>4. TypeOK'
    <2>1. rest' \in 0 .. wire
      <3>1. \A w \in {3, 4} : w \in 0 .. w
        OBVIOUS
      <3> QED BY <1>1, <1>2, <3>1
    <2>2. move' \in Moves \cup {NoMove}
      BY <1>1
    <2>3. framed' \in BOOLEAN /\ intact' \in BOOLEAN
      BY <1>1
    <2> QED BY <1>1, <2>1, <2>2, <2>3 DEF IInv, TypeOK, HandlerOK
  <1>5. FrameInv'
    <2>1. Prefix(0)' = <<>>
      BY DEF Prefix
    <2>2. arrived' < PacketSize' /\ (framed' => mouse_byte' = <<>>)
      <3>1. \A p \in {3, 4} : 0 < p
        OBVIOUS
      <3>2. arrived' < PacketSize'
        BY <1>1, <1>2, <1>3, <3>1
      <3> QED BY <1>1, <3>2
    <2> QED BY <1>3, <2>1, <2>2 DEF FrameInv
  <1>6. ResyncInv' /\ LatchInv'
    BY <1>1, <1>3 DEF ResyncInv, LatchInv
  <1> QED BY <1>4, <1>5, <1>6 DEF IInv

\* The handler takes the next byte.
LEMMA ByteArrivesIInv ==
    ASSUME IInv, ByteArrives
    PROVE  IInv'
  <1> DEFINE n == arrived
             b == Byte(wire - rest + 1)
             L == Len(mouse_byte)
  <1>1. /\ rest > 0 /\ rest' = rest - 1 /\ latch' = {}
        /\ wire' = wire /\ mouse_mode' = mouse_mode /\ move' = move
        /\ framed' = framed /\ intact' = intact /\ PacketSize' = PacketSize
        /\ mouse_handler(b)
    BY DEF ByteArrives, history, PacketSize
  <1>2. /\ TypeOK /\ wire \in {3, 4} /\ PacketSize \in {3, 4}
        /\ rest \in 1 .. wire /\ n \in 0 .. wire - 1 /\ n + 1 = wire - rest + 1
        /\ n = wire - rest /\ L \in 0 .. PacketSize - 1
    BY <1>1, Sizes DEF IInv, arrived
  <1>3. n \in 0 .. 3 /\ b = Byte(n + 1) /\ n + 1 \in 1 .. 4
    BY <1>2
  <1>4. b \in Bytes /\ Bit(Byte(1), 8)
    BY <1>2, <1>3, EncodeType, FirstByte
  <1>5. mouse_byte' = IF mouse_byte = <<>> /\ ~Bit(b, 8) THEN <<>>
                      ELSE IF L + 1 < PacketSize THEN Append(mouse_byte, b)
                      ELSE <<>>
    BY <1>1, <1>2, <1>4, HandlerBytes
  <1>6. arrived' = n + 1 /\ \A i : Byte(i)' = Byte(i) /\ Prefix(i)' = Prefix(i)
    BY <1>1, <1>2 DEF arrived, Byte, Encode, Prefix
  <1>7. TypeOK'
    <2>1. HandlerOK'
      BY <1>1, <1>2, <1>4, HandlerType
    <2>2. rest' \in 0 .. wire
      BY <1>1, <1>2
    <2> QED BY <1>1, <1>2, <2>1, <2>2 DEF TypeOK, HandlerOK
  <1> HIDE DEF n, b, L
  <1>8. FrameInv'
    <2> SUFFICES ASSUME framed, wire >= PacketSize \/ rest' # 0
                 PROVE  mouse_byte' =
                          IF n + 1 < PacketSize THEN Prefix(n + 1)
                          ELSE IF n + 1 = 4 /\ PacketSize = 3 /\ Bit(Byte(4), 8)
                          THEN <<Byte(4)>>
                          ELSE <<>>
      BY <1>1, <1>6 DEF FrameInv
    <2>1. CASE n < PacketSize
      <3>1. mouse_byte = Prefix(n)
        BY <1>1, <1>2, <2>1 DEF IInv, FrameInv, n
      <3>2. L = n /\ (mouse_byte = <<>> <=> n = 0)
        BY <1>3, <3>1, PrefixStep DEF L
      <3>3. mouse_byte = <<>> => Bit(b, 8)
        BY <1>3, <1>4, <3>2
      <3>4. Append(mouse_byte, b) = Prefix(n + 1)
        BY <1>3, <3>1, PrefixStep
      <3>5. ~(n + 1 = 4 /\ PacketSize = 3)
        BY <1>2, <2>1
      <3> QED BY <1>5, <3>2, <3>3, <3>4, <3>5
    <2>2. CASE ~(n < PacketSize)
      <3>1. n = 3 /\ PacketSize = 3 /\ n + 1 = 4
        BY <1>2, <1>3, <2>2
      <3>2. mouse_byte = <<>>
        BY <1>1, <1>2, <2>2, <3>1 DEF IInv, FrameInv, n
      <3>3. L = 0 /\ Append(mouse_byte, b) = <<Byte(4)>>
        BY <1>3, <3>1, <3>2 DEF L
      <3> QED BY <1>5, <3>1, <3>2, <3>3
    <2> QED BY <2>1, <2>2
  <1>9. ResyncInv'
    <2> SUFFICES ASSUME intact, Calm, wire >= PacketSize
                 PROVE  mouse_byte' = <<>> \/ Len(mouse_byte') + rest' >= PacketSize
      BY <1>1, <1>6 DEF ResyncInv, Calm
    <2>1. CASE mouse_byte' = Append(mouse_byte, b) /\ L + 1 < PacketSize
      <3>1. Len(mouse_byte') = L + 1
        BY <1>2, <1>4, <2>1, AppendProperties DEF TypeOK, L
      <3>2. CASE n = 0
        BY <1>1, <1>2, <3>1, <3>2
      <3>3. CASE n # 0
        <4>1. mouse_byte = <<>> \/ L + rest >= PacketSize
          BY <1>2, <3>3 DEF IInv, ResyncInv, n, L
        <4>2. ~Bit(b, 8)
          BY <1>2, <1>3, <3>3 DEF Calm
        <4>3. mouse_byte = <<>> => mouse_byte' = <<>>
          BY <1>5, <4>2
        <4> QED BY <1>1, <1>2, <3>1, <4>1, <4>3
      <3> QED BY <3>2, <3>3
    <2> QED BY <1>5, <2>1
  <1>10. LatchInv'
    BY <1>1 DEF LatchInv
  <1> QED BY <1>7, <1>8, <1>9, <1>10 DEF IInv

\* The bytes of nobody come before the first byte of a packet.
LEMMA StaleIInv ==
    ASSUME IInv, StaleByte \/ StaleIrq1 \/ StolenByte
    PROVE  IInv'
  <1>1. /\ wire' = wire /\ mouse_mode' = mouse_mode /\ move' = move
        /\ PacketSize' = PacketSize /\ latch # {}
    BY DEF StaleByte, StaleIrq1, StolenByte, PacketSize
  <1>2. /\ TypeOK /\ wire \in {3, 4} /\ rest \in 0 .. wire
    BY Sizes DEF IInv
  <1>3. rest = wire \/ (rest = 0 /\ ~intact)
    BY <1>1 DEF IInv, LatchInv
  <1>4. CASE StaleByte
    <2>1. mouse_handler(PS2_ACK_BYTE) /\ PS2_ACK_BYTE \in Bytes
      BY <1>4 DEF StaleByte, PS2_ACK_BYTE, Bytes
    <2>2. HandlerOK'
      BY <1>1, <1>2, <2>1, HandlerType
    <2>3. TypeOK'
      BY <1>1, <1>2, <1>4, <2>2 DEF StaleByte, TypeOK, HandlerOK
    <2>4. FrameInv' /\ LatchInv'
      BY <1>4 DEF StaleByte, FrameInv, LatchInv
    <2>5. ResyncInv'
      BY <1>1, <1>2, <1>3, <1>4 DEF StaleByte, ResyncInv, arrived
    <2> QED BY <2>3, <2>4, <2>5 DEF IInv
  <1>5. CASE StaleIrq1
    <2>1. /\ rest' = rest /\ latch' \subseteq latch
          /\ mouse_byte' = mouse_byte /\ framed' = framed /\ intact' = intact
          /\ HandlerOK'
      BY <1>1, <1>2, <1>5, SameHandlerOK DEF StaleIrq1, handlerVars, history
    <2>2. TypeOK'
      BY <1>1, <1>2, <2>1 DEF TypeOK, HandlerOK
    <2>3. arrived' = arrived /\ \A i : Byte(i)' = Byte(i) /\ Prefix(i)' = Prefix(i)
      BY <1>1, <2>1 DEF arrived, Byte, Encode, Prefix
    <2>4. FrameInv' /\ LatchInv'
      BY <1>1, <1>3, <2>1, <2>3 DEF IInv, FrameInv, LatchInv
    <2>5. ResyncInv'
      BY <1>1, <2>1, <2>3 DEF IInv, ResyncInv, Calm
    <2> QED BY <2>2, <2>4, <2>5 DEF IInv
  <1>6. CASE StolenByte
    <2>1. /\ rest > 0 /\ rest' = rest - 1 /\ latch' = {}
          /\ framed' = FALSE /\ intact' = FALSE
          /\ HandlerOK'
      BY <1>1, <1>2, <1>6, SameHandlerOK DEF StolenByte
    <2>2. TypeOK'
      <3>1. rest' \in 0 .. wire
        BY <1>2, <2>1
      <3> QED BY <1>1, <1>2, <2>1, <3>1 DEF TypeOK, HandlerOK
    <2>3. FrameInv' /\ ResyncInv' /\ LatchInv'
      BY <2>1 DEF FrameInv, ResyncInv, LatchInv
    <2> QED BY <2>2, <2>3 DEF IInv
  <1> QED BY <1>4, <1>5, <1>6

LEMMA StutterIInv ==
    ASSUME IInv, UNCHANGED vars
    PROVE  IInv'
  <1>1. /\ wire' = wire /\ mouse_mode' = mouse_mode /\ move' = move
        /\ rest' = rest /\ latch' = latch /\ mouse_byte' = mouse_byte
        /\ framed' = framed /\ intact' = intact
        /\ HandlerOK' /\ PacketSize' = PacketSize
    BY SameHandlerOK DEF IInv, vars, deviceVars, handlerVars, history
  <1>2. TypeOK'
    BY <1>1 DEF IInv, TypeOK, HandlerOK
  <1>3. arrived' = arrived /\ \A i : Byte(i)' = Byte(i) /\ Prefix(i)' = Prefix(i)
    BY <1>1 DEF arrived, Byte, Encode, Prefix
  <1>4. FrameInv' /\ LatchInv'
    BY <1>1, <1>3 DEF IInv, FrameInv, LatchInv
  <1>5. ResyncInv'
    BY <1>1, <1>3 DEF IInv, ResyncInv, Calm
  <1> QED BY <1>2, <1>4, <1>5 DEF IInv

\* The invariant holds in every reachable state.
THEOREM Invariant == Spec => []IInv
  <1>1. IInv /\ [Next]_vars => IInv'
    BY ReportIInv, ByteArrivesIInv, StaleIInv, StutterIInv DEF Next
  <1> QED BY InitIInv, <1>1, PTL DEF Spec

\* The state stays in range, the collected bytes short of a packet.
THEOREM TypeCorrect == Spec => []TypeOK
  <1>1. IInv => TypeOK
    BY DEF IInv
  <1> QED BY Invariant, <1>1, PTL

\* In frame at the start of a packet, mouse_handler is in frame at its end.
THEOREM StaysInFrame == Spec => []StaysFramed
  <1>1. IInv => StaysFramed
    <2> SUFFICES ASSUME IInv, rest = 0, framed, Agreed
                 PROVE  mouse_byte = <<>>
      BY DEF StaysFramed
    <2>1. wire \in {3, 4} /\ PacketSize \in {3, 4}
      BY Sizes DEF IInv
    <2>2. arrived = wire /\ wire >= PacketSize
      BY <2>1 DEF Agreed, arrived
    <2>3. ~(arrived < PacketSize)
      BY <2>1, <2>2
    <2>4. ~(arrived = 4 /\ PacketSize = 3 /\ Bit(Byte(4), 8))
      BY <2>2 DEF Agreed
    <2> QED BY <2>2, <2>3, <2>4 DEF IInv, FrameInv
  <1> QED BY Invariant, <1>1, PTL

\* A calm packet puts mouse_handler back in frame, whatever it held before.
THEOREM Resynchronised == Spec => []Resynchronises
  <1>1. IInv => Resynchronises
    <2> SUFFICES ASSUME IInv, rest = 0, intact, Calm, wire >= PacketSize
                 PROVE  mouse_byte = <<>>
      BY DEF Resynchronises
    <2>1. /\ wire \in {3, 4} /\ PacketSize \in {3, 4}
          /\ Len(mouse_byte) \in 0 .. 3 /\ Len(mouse_byte) < PacketSize
      BY Sizes DEF IInv
    <2>2. arrived >= 1 /\ ~(Len(mouse_byte) + rest >= PacketSize)
      BY <2>1 DEF arrived
    <2> QED BY <2>2 DEF IInv, ResyncInv
  <1> QED BY Invariant, <1>1, PTL

-----------------------------------------------------------------------------
(* Whole packets.                                                          *)

\* The handler decodes what the mouse has encoded.
LEMMA DecodeEncode ==
    ASSUME TypeOK
    PROVE  LET packet == Decode(Prefix(PacketSize)) IN
           /\ packet.x_difference = move.dx
           /\ packet.y_difference = -move.dy
           /\ packet.buttons = move.buttons \cup
                (IF mouse_mode = 1 /\ move.wheel # 0 THEN {"scroll down"} ELSE {})
           /\ packet = [x_difference |-> packet.x_difference,
                        y_difference |-> packet.y_difference,
                        buttons |-> packet.buttons]
  <1> DEFINE bytes  == Prefix(PacketSize)
             packet == Decode(bytes)
  <1>1. PacketSize \in {3, 4} /\ (PacketSize = 4 <=> mouse_mode = 1)
    BY Sizes
  <1>2. /\ bytes[1] = Byte(1) /\ bytes[2] = Byte(2) /\ bytes[3] = Byte(3)
        /\ PacketSize = 4 => bytes[4] = Byte(4)
    BY <1>1 DEF Prefix
  <1>3. /\ Byte(2) = move.dx % 256 /\ Byte(3) = move.dy % 256
        /\ Byte(4) = move.wheel % 256
    BY DEF Byte, Encode
  <1> HIDE DEF bytes
  <1>4. packet.x_difference = move.dx
    <2>1. packet.x_difference = Byte(2) - Flag(Bit(Byte(1), 16), 256)
      BY <1>2 DEF Decode
    <2>2. Flag(Bit(Byte(1), 16), 256) = Flag(move.dx < 0, 256)
      BY FirstByte DEF Flag
    <2> QED BY <1>3, <2>1, <2>2, MoveType, LowByte
  <1>5. packet.y_difference = -move.dy
    <2>1. packet.y_difference = -(Byte(3) - Flag(Bit(Byte(1), 32), 256))
      BY <1>2 DEF Decode
    <2>2. Flag(Bit(Byte(1), 32), 256) = Flag(move.dy < 0, 256)
      BY FirstByte DEF Flag
    <2> QED BY <1>3, <2>1, <2>2, MoveType, LowByte
  <1>6. packet.buttons = move.buttons \cup
          (IF mouse_mode = 1 /\ move.wheel # 0 THEN {"scroll down"} ELSE {})
    <2>1. packet.buttons = Pressed(Byte(1)) \cup Scrolled(bytes)
      BY <1>2 DEF Decode
    <2>2. move.buttons \subseteq Buttons
      BY MoveType
    <2>3. Pressed(Byte(1)) = move.buttons
      BY <2>2, FirstByte DEF Pressed, Buttons
    <2>4. move.wheel % 256 > 0 <=> move.wheel # 0
      <3>1. move.wheel \in -8 .. 7
        BY MoveType
      <3> QED BY <3>1
    <2>5. Scrolled(bytes) = IF mouse_mode = 1 /\ move.wheel # 0
                            THEN {"scroll down"} ELSE {}
      BY <1>1, <1>2, <1>3, <2>4 DEF Scrolled
    <2> QED BY <2>1, <2>3, <2>5
  <1>7. packet = [x_difference |-> packet.x_difference,
                  y_difference |-> packet.y_difference,
                  buttons |-> packet.buttons]
    BY DEF Decode
  <1> QED BY <1>4, <1>5, <1>6, <1>7 DEF bytes

\* The packet that the last byte completes.
LEMMA FinishReported ==
    ASSUME TypeOK, NEW b \in Bytes, Finish(b),
           Append(mouse_byte, b) = Prefix(PacketSize)
    PROVE  IF move.overflow THEN UNCHANGED <<pointerVars, packetVars>> ELSE Reported
  <1> DEFINE bytes  == Prefix(PacketSize)
             packet == Decode(bytes)
  <1>1. bytes[1] = Byte(1)
    BY Sizes DEF Prefix
  <1>2. (Bit(bytes[1], 128) \/ Bit(bytes[1], 64)) <=> move.overflow
    BY <1>1, FirstByte
  <1>3. CASE move.overflow
    BY <1>2, <1>3 DEF Finish
  <1>4. CASE ~move.overflow
    <2>1. /\ mouse_x' = Clamp(mouse_x + packet.x_difference, 0, MaxX)
          /\ mouse_y' = Clamp(mouse_y + packet.y_difference, 0, MaxY)
          /\ mouse_buttons' = packet.buttons
          /\ add_packet(packet)
      BY <1>2, <1>4 DEF Finish
    <2>2. /\ packet.x_difference = move.dx
          /\ packet.y_difference = -move.dy
          /\ packet.buttons = move.buttons \cup
               (IF mouse_mode = 1 /\ move.wheel # 0 THEN {"scroll down"} ELSE {})
          /\ packet = [x_difference |-> packet.x_difference,
                       y_difference |-> packet.y_difference,
                       buttons |-> packet.buttons]
      BY DecodeEncode
    <2> HIDE DEF packet
    <2>3. mouse_packets'[mouse_packets_last] = packet
      BY <2>1 DEF add_packet, TypeOK
    <2>4. mouse_y + packet.y_difference = mouse_y - move.dy
      <3>1. mouse_y \in 0 .. MaxY /\ move.dy \in -256 .. 255
        BY MoveType DEF TypeOK
      <3>2. \A y \in 0 .. MaxY, d \in -256 .. 255 : y + (-d) = y - d
        BY PadAssumption
      <3> QED BY <2>2, <3>1, <3>2
    <2>5. mouse_packets'[mouse_packets_last] =
            [x_difference |-> move.dx, y_difference |-> -move.dy,
             buttons |-> mouse_buttons']
      BY <2>1, <2>2, <2>3
    <2> QED BY <1>4, <2>1, <2>2, <2>4, <2>5 DEF Reported, add_packet
  <1> QED BY <1>3, <1>4

\* In frame, a byte changes the pointer only as the last one of its packet,
\* and then by what the mouse has reported.
LEMMA ByteArrivesWhole ==
    ASSUME IInv, framed, ByteArrives
    PROVE  IF wire - rest' = PacketSize /\ ~move.overflow
           THEN Reported
           ELSE UNCHANGED <<pointerVars, packetVars>>
  <1> DEFINE n == arrived
             b == Byte(wire - rest + 1)
  <1>1. rest > 0 /\ rest' = rest - 1 /\ mouse_handler(b)
    BY DEF ByteArrives
  <1>2. /\ TypeOK /\ wire \in {3, 4} /\ PacketSize \in {3, 4}
        /\ rest \in 1 .. wire /\ n \in 0 .. 3 /\ n + 1 = wire - rest + 1
        /\ wire - rest' = n + 1 /\ n + 1 \in 1 .. 4
    BY <1>1, Sizes DEF IInv, arrived
  <1>3. b = Byte(n + 1) /\ b \in Bytes
    BY <1>2, EncodeType
  <1>4. n < PacketSize => mouse_byte = Prefix(n)
    BY <1>1, <1>2 DEF IInv, FrameInv
  <1>5. ~(n < PacketSize) => mouse_byte = <<>>
    BY <1>1, <1>2 DEF IInv, FrameInv
  <1> HIDE DEF n, b
  <1>6. CASE n + 1 = PacketSize
    <2>1. n < PacketSize /\ n # 0
      BY <1>2, <1>6
    <2>2. Len(mouse_byte) = n /\ mouse_byte # <<>>
      BY <1>2, <1>4, <2>1, PrefixStep
    <2>3. Finish(b)
      BY <1>1, <1>2, <1>6, <2>2 DEF mouse_handler, Skip, Collect
    <2>4. Append(mouse_byte, b) = Prefix(PacketSize)
      BY <1>2, <1>3, <1>4, <1>6, <2>1, PrefixStep
    <2> QED BY <1>2, <1>3, <1>6, <2>3, <2>4, FinishReported
  <1>7. CASE n + 1 # PacketSize
    <2>1. Len(mouse_byte) + 1 # PacketSize
      <3>1. CASE n < PacketSize
        BY <1>2, <1>4, <1>7, <3>1, PrefixStep
      <3>2. CASE ~(n < PacketSize)
        BY <1>2, <1>5, <3>2
      <3> QED BY <3>1, <3>2
    <2>2. Skip(b) \/ Collect(b)
      BY <1>1, <2>1 DEF mouse_handler, Finish
    <2> QED BY <1>2, <1>7, <2>2 DEF Skip, Collect, handlerVars
  <1> QED BY <1>6, <1>7

\* The pointer and the queue change once per packet and as the mouse reports.
THEOREM WholePacketsApplied == Spec => WholePackets
  <1> DEFINE Applied ==
        framed /\ rest' < rest /\ framed' =>
          IF wire - rest' = PacketSize /\ ~move.overflow
          THEN Reported
          ELSE UNCHANGED <<pointerVars, packetVars>>
  <1>1. IInv /\ [Next]_vars => [Applied]_vars
    <2> SUFFICES ASSUME IInv, Next, framed, rest' < rest, framed'
                 PROVE  IF wire - rest' = PacketSize /\ ~move.overflow
                        THEN Reported
                        ELSE UNCHANGED <<pointerVars, packetVars>>
      OBVIOUS
    <2>1. wire \in {3, 4} /\ rest \in 0 .. wire
      BY Sizes DEF IInv
    <2>2. CASE \E m \in Moves : Report(m)
      BY <2>1, <2>2 DEF Report
    <2>3. CASE ByteArrives
      BY <2>3, ByteArrivesWhole
    <2>4. CASE StaleByte
      BY <2>4 DEF StaleByte
    <2>5. CASE StaleIrq1
      BY <2>1, <2>5 DEF StaleIrq1
    <2>6. CASE StolenByte
      BY <2>6 DEF StolenByte
    <2> QED BY <2>2, <2>3, <2>4, <2>5, <2>6 DEF Next
  <1> QED BY Invariant, <1>1, PTL DEF Spec, WholePackets
=============================================================================
