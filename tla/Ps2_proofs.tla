----------------------------- MODULE Ps2_proofs -----------------------------
(***************************************************************************)
(* Proofs about the set-up of the PS/2 controller, for every set of mice,  *)
(* devices that answer at any time, bytes they forget, and keys.  The      *)
(* invariant follows the script: what the controller's configuration is at *)
(* each instruction, which answer is on its way, and who takes the next    *)
(* data byte.                                                              *)
(***************************************************************************)
EXTENDS Ps2, TLAPS, SequenceTheorems

-----------------------------------------------------------------------------
(* The script, part by part.                                               *)

LEMMA Parts ==
    /\ Len(Script) = 23
    /\ Script[1] = Detect /\ Script[2] = Confirm
    /\ Script[3] = Configure /\ Script[4] = StopStreaming
    /\ Script[5] = TestPorts /\ Script[6] = ResetDevices
    /\ Script[7] = Identify /\ Script[8] = Ask(IDENTIFY)
    /\ Script[9] = Ask(SET_SAMPLE_RATE) /\ Script[10] = Ask(200)
    /\ Script[11] = Ask(SET_SAMPLE_RATE) /\ Script[12] = Ask(100)
    /\ Script[13] = Ask(SET_SAMPLE_RATE) /\ Script[14] = Ask(80)
    /\ Script[15] = Who(3) /\ Script[16] = Ask(SET_SAMPLE_RATE)
    /\ Script[17] = Ask(200) /\ Script[18] = Ask(SET_SAMPLE_RATE)
    /\ Script[19] = Ask(200) /\ Script[20] = Ask(SET_SAMPLE_RATE)
    /\ Script[21] = Ask(80) /\ Script[22] = Who(4)
    /\ Script[23] = StartStreaming
  BY DEF Script

LEMMA Lengths ==
    /\ Len(Script[1]) = 12 /\ Len(Script[2]) = 5 /\ Len(Script[3]) = 6 /\ Len(Script[4]) = 5
    /\ Len(Script[5]) = 4 /\ Len(Script[6]) = 7 /\ Len(Script[7]) = 9
    /\ \A k \in 8 .. 21 \ {15} : Len(Script[k]) = 3
    /\ \A k \in {15, 22, 23} : Len(Script[k]) = 5
<1>1. ASSUME NEW b PROVE Len(Ask(b)) = 3 /\ Len(Who(b)) = 5
  BY DEF Ask, Who
<1>2. Len(Detect) = 12 /\ Len(Confirm) = 5 /\ Len(Configure) = 6 /\ Len(StopStreaming) = 5
  BY DEF Detect, Confirm, Configure, StopStreaming
<1>3. Len(TestPorts) = 4 /\ Len(ResetDevices) = 7 /\ Len(Identify) = 9 /\ Len(StartStreaming) = 5
  BY DEF TestPorts, ResetDevices, Identify, StartStreaming
<1>4. \A k \in 8 .. 21 \ {15} : Len(Script[k]) = 3
  <2> SUFFICES ASSUME NEW k \in 8 .. 21 \ {15} PROVE Len(Script[k]) = 3
    OBVIOUS
  <2>1. k \in {8, 9, 10, 11, 12, 13, 14, 16, 17, 18, 19, 20, 21}
    OBVIOUS
  <2> QED  BY <2>1, <1>1, Parts
<1> QED  BY <1>1, <1>2, <1>3, <1>4, Parts

LEMMA Codes ==
    /\ PS2_DISABLE(1) = 173 /\ PS2_DISABLE(2) = 167 /\ PS2_ENABLE(1) = 174 /\ PS2_ENABLE(2) = 168
    /\ PS2_TEST(1) = 171 /\ PS2_TEST(2) = 169 /\ PS2_CONFIG_READ = 32 /\ PS2_CONFIG_WRITE = 96
    /\ PS2_SELF_TEST = 170 /\ MOUSE_WRITE = 212 /\ IDENTIFY = 242 /\ ENABLE_STREAMING = 244
    /\ DISABLE_STREAMING = 245 /\ RESET = 255 /\ SET_SAMPLE_RATE = 243 /\ PS2_ACK_BYTE = 250
  BY DEF PS2_DISABLE, PS2_ENABLE, PS2_TEST, PS2_CONFIG_READ, PS2_CONFIG_WRITE,
         PS2_SELF_TEST, MOUSE_WRITE, IDENTIFY, ENABLE_STREAMING, DISABLE_STREAMING,
         RESET, SET_SAMPLE_RATE, PS2_ACK_BYTE

LEMMA DetectLines ==
    ASSUME line \in 1 .. 12, Here = Detect[line]
    PROVE
      /\ Here.op \in {"cmd", "inb", "get", "quiet", "has_clock_2"}
      /\ (Here.op = "cmd" <=> line \in {1, 2, 4, 6, 8, 11}) /\ (Here.op = "inb" <=> line = 3)
      /\ (Here.op = "get" <=> line \in {5, 9, 12}) /\ (Here.op = "quiet" <=> line = 7)
      /\ (Here.op = "has_clock_2" <=> line = 10)
      /\ (line = 1 => Here.byte = 173) /\ (line = 2 => Here.byte = 167)
      /\ (line \in {4, 8} => Here.byte = 32) /\ (line = 6 => Here.byte = 96)
      /\ (line = 11 => Here.byte = 170)
      /\ ~Here.dual
<1>1. line \in {1, 2, 3, 4, 5, 6, 7, 8, 9, 10, 11, 12}
  OBVIOUS
<1> QED  BY <1>1, Codes DEF Detect, Do, Dual

LEMMA ConfirmLines ==
    ASSUME line \in 1 .. 5, Here = Confirm[line]
    PROVE
      /\ Here.op \in {"cmd", "get", "no_clock_2"} /\ (Here.op = "cmd" <=> line \in {1, 2, 5})
      /\ (Here.op = "get" <=> line = 3) /\ (Here.op = "no_clock_2" <=> line = 4)
      /\ (line = 1 => Here.byte = 168) /\ (line = 2 => Here.byte = 32)
      /\ (line = 5 => Here.byte = 167)
      /\ Here.dual
<1>1. line \in {1, 2, 3, 4, 5}
  OBVIOUS
<1> QED  BY <1>1, Codes DEF Confirm, Do, Dual

LEMMA ConfigureLines ==
    ASSUME line \in 1 .. 6, Here = Configure[line]
    PROVE
      /\ Here.op \in {"cmd", "get", "loud"} /\ (Here.op = "cmd" <=> line \in {1, 3, 5, 6})
      /\ (Here.op = "get" <=> line = 2) /\ (Here.op = "loud" <=> line = 4)
      /\ (line = 1 => Here.byte = 32) /\ (line = 3 => Here.byte = 96)
      /\ (line = 5 => Here.byte = 174) /\ (line = 6 => Here.byte = 168)
      /\ (Here.dual <=> line = 6)
<1>1. line \in {1, 2, 3, 4, 5, 6}
  OBVIOUS
<1> QED  BY <1>1, Codes DEF Configure, Do, Dual

LEMMA StopStreamingLines ==
    ASSUME line \in 1 .. 5, Here = StopStreaming[line]
    PROVE
      /\ Here.op \in {"data", "ack", "cmd"} /\ (Here.op = "data" <=> line \in {1, 4})
      /\ (Here.op = "ack" <=> line \in {2, 5}) /\ (Here.op = "cmd" <=> line = 3)
      /\ (line \in {1, 4} => Here.byte = 245) /\ (line = 3 => Here.byte = 212)
      /\ (Here.dual <=> line \in {3, 4, 5})
<1>1. line \in {1, 2, 3, 4, 5}
  OBVIOUS
<1> QED  BY <1>1, Codes DEF StopStreaming, Do, Dual

LEMMA TestPortsLines ==
    ASSUME line \in 1 .. 4, Here = TestPorts[line]
    PROVE
      /\ Here.op \in {"cmd", "get"} /\ (Here.op = "cmd" <=> line \in {1, 3})
      /\ (Here.op = "get" <=> line \in {2, 4})
      /\ (line = 1 => Here.byte = 171) /\ (line = 3 => Here.byte = 169)
      /\ (Here.dual <=> line \in {3, 4})
<1>1. line \in {1, 2, 3, 4}
  OBVIOUS
<1> QED  BY <1>1, Codes DEF TestPorts, Do, Dual

LEMMA ResetDevicesLines ==
    ASSUME line \in 1 .. 7, Here = ResetDevices[line]
    PROVE
      /\ Here.op \in {"data", "get", "get_more", "cmd"}
      /\ (Here.op = "data" <=> line \in {1, 5}) /\ (Here.op = "get" <=> line \in {2, 6})
      /\ (Here.op = "get_more" <=> line \in {3, 7}) /\ (Here.op = "cmd" <=> line = 4)
      /\ (line \in {1, 5} => Here.byte = 255) /\ (line = 4 => Here.byte = 212)
      /\ (Here.dual <=> line \in {4, 5, 6, 7})
<1>1. line \in {1, 2, 3, 4, 5, 6, 7}
  OBVIOUS
<1> QED  BY <1>1, Codes DEF ResetDevices, Do, Dual

LEMMA IdentifyLines ==
    ASSUME line \in 1 .. 9, Here = Identify[line]
    PROVE
      /\ Here.op \in {"data", "ack", "get", "cmd"} /\ (Here.op = "data" <=> line \in {1, 6})
      /\ (Here.op = "ack" <=> line \in {2, 7}) /\ (Here.op = "get" <=> line \in {3, 4, 8, 9})
      /\ (Here.op = "cmd" <=> line = 5)
      /\ (line \in {1, 6} => Here.byte = 242) /\ (line = 5 => Here.byte = 212)
      /\ (Here.dual <=> line >= 5)
<1>1. line \in {1, 2, 3, 4, 5, 6, 7, 8, 9}
  OBVIOUS
<1> QED  BY <1>1, Codes DEF Identify, Do, Dual

LEMMA AskLines ==
    ASSUME NEW b, line \in 1 .. 3, Here = Ask(b)[line]
    PROVE
      /\ Here.op \in {"cmd", "data", "mouse_read"} /\ (Here.op = "cmd" <=> line = 1)
      /\ (Here.op = "data" <=> line = 2) /\ (Here.op = "mouse_read" <=> line = 3)
      /\ (line = 1 => Here.byte = 212) /\ (line = 2 => Here.byte = b)
      /\ Here.dual
<1>1. line \in {1, 2, 3}
  OBVIOUS
<1> QED  BY <1>1, Codes DEF Ask, Do, Dual

LEMMA WhoLines ==
    ASSUME NEW b, line \in 1 .. 5, Here = Who(b)[line]
    PROVE
      /\ Here.op \in {"cmd", "data", "ack", "mouse_read", "is_it"}
      /\ (Here.op = "cmd" <=> line = 1) /\ (Here.op = "data" <=> line = 2)
      /\ (Here.op = "ack" <=> line = 3) /\ (Here.op = "mouse_read" <=> line = 4)
      /\ (Here.op = "is_it" <=> line = 5)
      /\ (line = 1 => Here.byte = 212) /\ (line = 2 => Here.byte = 242)
      /\ (line = 5 => Here.byte = b)
      /\ Here.dual
<1>1. line \in {1, 2, 3, 4, 5}
  OBVIOUS
<1> QED  BY <1>1, Codes DEF Who, Do, Dual

LEMMA StartStreamingLines ==
    ASSUME line \in 1 .. 5, Here = StartStreaming[line]
    PROVE
      /\ Here.op \in {"data", "ack", "cmd"} /\ (Here.op = "data" <=> line \in {1, 4})
      /\ (Here.op = "ack" <=> line \in {2, 5}) /\ (Here.op = "cmd" <=> line = 3)
      /\ (line \in {1, 4} => Here.byte = 244) /\ (line = 3 => Here.byte = 212)
      /\ (Here.dual <=> line \in {3, 4, 5})
<1>1. line \in {1, 2, 3, 4, 5}
  OBVIOUS
<1> QED  BY <1>1, Codes DEF StartStreaming, Do, Dual

\* Where the script stands, and the instruction there.
Place == part \in 1 .. 23 /\ line \in 1 .. Len(Script[part])
Knocks == {9, 11, 13, 16, 18, 20}       \* "set the sample rate"
Rates  == {10, 12, 14, 17, 19, 21}      \* and the rate

LEMMA PartLines ==
    ASSUME Place
    PROVE  /\ part = 1 => line \in 1 .. 12 /\ Here = Detect[line]
           /\ part = 2 => line \in 1 .. 5 /\ Here = Confirm[line]
           /\ part = 3 => line \in 1 .. 6 /\ Here = Configure[line]
           /\ part = 4 => line \in 1 .. 5 /\ Here = StopStreaming[line]
           /\ part = 5 => line \in 1 .. 4 /\ Here = TestPorts[line]
           /\ part = 6 => line \in 1 .. 7 /\ Here = ResetDevices[line]
           /\ part = 7 => line \in 1 .. 9 /\ Here = Identify[line]
           /\ part = 8 => line \in 1 .. 3 /\ Here = Ask(242)[line]
           /\ part \in Knocks => line \in 1 .. 3 /\ Here = Ask(243)[line]
           /\ part \in Rates => line \in 1 .. 3 /\ \E r \in {200, 100, 80} : Here = Ask(r)[line]
           /\ part = 15 => line \in 1 .. 5 /\ Here = Who(3)[line]
           /\ part = 22 => line \in 1 .. 5 /\ Here = Who(4)[line]
           /\ part = 23 => line \in 1 .. 5 /\ Here = StartStreaming[line]
<1>1. part \in Rates => \E r \in {200, 100, 80} : Script[part] = Ask(r)
  BY Parts DEF Rates
<1>2. /\ part = 8 => Script[part] = Ask(242)
      /\ part \in Knocks => Script[part] = Ask(243)
  BY Parts DEF Knocks, IDENTIFY, SET_SAMPLE_RATE
<1>3. part \in {8} \cup Knocks \cup Rates => line \in 1 .. 3
  <2>1. part \in {8} \cup Knocks \cup Rates => part \in 8 .. 21 \ {15}
    BY DEF Knocks, Rates
  <2> QED  BY <2>1, Lengths DEF Place
<1>4. /\ part = 1 => line \in 1 .. 12 /\ Here = Detect[line]
      /\ part = 2 => line \in 1 .. 5 /\ Here = Confirm[line]
      /\ part = 3 => line \in 1 .. 6 /\ Here = Configure[line]
      /\ part = 4 => line \in 1 .. 5 /\ Here = StopStreaming[line]
      /\ part = 5 => line \in 1 .. 4 /\ Here = TestPorts[line]
      /\ part = 6 => line \in 1 .. 7 /\ Here = ResetDevices[line]
      /\ part = 7 => line \in 1 .. 9 /\ Here = Identify[line]
  BY Parts, Lengths DEF Here, Place
<1>5. /\ part \in {15, 22, 23} => line \in 1 .. 5
      /\ part = 15 => Here = Who(3)[line]
      /\ part = 22 => Here = Who(4)[line]
      /\ part = 23 => Here = StartStreaming[line]
  BY Parts, Lengths DEF Here, Place
<1>6. \A b : Script[part] = Ask(b) => Here = Ask(b)[line]
  BY DEF Here
<1> QED  BY <1>1, <1>2, <1>3, <1>4, <1>5, <1>6

\* What the instruction is, by its place.
LEMMA SinglePlaces ==
    ASSUME Place
    PROVE
      /\ Here.op = "inb" <=> part = 1 /\ line = 3
      /\ Here.op = "quiet" <=> part = 1 /\ line = 7
      /\ Here.op = "loud" <=> part = 3 /\ line = 4
      /\ Here.op = "has_clock_2" <=> part = 1 /\ line = 10
      /\ Here.op = "no_clock_2" <=> part = 2 /\ line = 4
      /\ Here.op = "get_more" <=> part = 6 /\ line \in {3, 7}
      /\ Here.op = "is_it" <=> part \in {15, 22} /\ line = 5
<1>1. CASE part = 1
  BY <1>1, PartLines, DetectLines DEF Knocks, Rates
<1>2. CASE part = 2
  BY <1>2, PartLines, ConfirmLines DEF Knocks, Rates
<1>3. CASE part = 3
  BY <1>3, PartLines, ConfigureLines DEF Knocks, Rates
<1>4. CASE part = 4
  BY <1>4, PartLines, StopStreamingLines DEF Knocks, Rates
<1>5. CASE part = 5
  BY <1>5, PartLines, TestPortsLines DEF Knocks, Rates
<1>6. CASE part = 6
  BY <1>6, PartLines, ResetDevicesLines DEF Knocks, Rates
<1>7. CASE part = 7
  BY <1>7, PartLines, IdentifyLines DEF Knocks, Rates
<1>8. CASE part \in {8} \cup Knocks \cup Rates
  BY <1>8, PartLines, AskLines DEF Knocks, Rates
<1>9. CASE part \in {15, 22}
  BY <1>9, PartLines, WhoLines DEF Knocks, Rates
<1>10. CASE part = 23
  BY <1>10, PartLines, StartStreamingLines DEF Knocks, Rates
<1> QED  BY <1>1, <1>2, <1>3, <1>4, <1>5, <1>6, <1>7, <1>8, <1>9, <1>10
         DEF Place, Knocks, Rates

LEMMA ReadPlaces ==
    ASSUME Place
    PROVE
      /\ Here.op = "mouse_read" <=> \/ part \in {8} \cup Knocks \cup Rates /\ line = 3
                                    \/ part \in {15, 22} /\ line = 4
      /\ Here.op = "ack" <=> \/ part \in {4, 23} /\ line \in {2, 5}
                             \/ part = 7 /\ line \in {2, 7}
                             \/ part \in {15, 22} /\ line = 3
      /\ Here.op = "get" <=> \/ part = 1 /\ line \in {5, 9, 12}
                             \/ part = 2 /\ line = 3
                             \/ part = 3 /\ line = 2
                             \/ part = 5 /\ line \in {2, 4}
                             \/ part = 6 /\ line \in {2, 6}
                             \/ part = 7 /\ line \in {3, 4, 8, 9}
<1>1. CASE part = 1
  BY <1>1, PartLines, DetectLines DEF Knocks, Rates
<1>2. CASE part = 2
  BY <1>2, PartLines, ConfirmLines DEF Knocks, Rates
<1>3. CASE part = 3
  BY <1>3, PartLines, ConfigureLines DEF Knocks, Rates
<1>4. CASE part = 4
  BY <1>4, PartLines, StopStreamingLines DEF Knocks, Rates
<1>5. CASE part = 5
  BY <1>5, PartLines, TestPortsLines DEF Knocks, Rates
<1>6. CASE part = 6
  BY <1>6, PartLines, ResetDevicesLines DEF Knocks, Rates
<1>7. CASE part = 7
  BY <1>7, PartLines, IdentifyLines DEF Knocks, Rates
<1>8. CASE part \in {8} \cup Knocks \cup Rates
  BY <1>8, PartLines, AskLines DEF Knocks, Rates
<1>9. CASE part \in {15, 22}
  BY <1>9, PartLines, WhoLines DEF Knocks, Rates
<1>10. CASE part = 23
  BY <1>10, PartLines, StartStreamingLines DEF Knocks, Rates
<1> QED  BY <1>1, <1>2, <1>3, <1>4, <1>5, <1>6, <1>7, <1>8, <1>9, <1>10
         DEF Place, Knocks, Rates

LEMMA WritePlaces ==
    ASSUME Place
    PROVE
      /\ Here.op = "data" <=> \/ part \in {4, 23} /\ line \in {1, 4}
                              \/ part = 6 /\ line \in {1, 5}
                              \/ part = 7 /\ line \in {1, 6}
                              \/ part \in 8 .. 22 /\ line = 2
      /\ Here.op = "cmd" <=> \/ part = 1 /\ line \in {1, 2, 4, 6, 8, 11}
                             \/ part = 2 /\ line \in {1, 2, 5}
                             \/ part = 3 /\ line \in {1, 3, 5, 6}
                             \/ part \in {4, 23} /\ line = 3
                             \/ part = 5 /\ line \in {1, 3}
                             \/ part = 6 /\ line = 4
                             \/ part = 7 /\ line = 5
                             \/ part \in 8 .. 22 /\ line = 1
      /\ Here.dual <=> \/ part = 2 \/ part \in 8 .. 22
                       \/ part = 3 /\ line = 6
                       \/ part \in {4, 5, 23} /\ line >= 3
                       \/ part = 6 /\ line >= 4
                       \/ part = 7 /\ line >= 5
<1>1. CASE part = 1
  BY <1>1, PartLines, DetectLines DEF Knocks, Rates
<1>2. CASE part = 2
  BY <1>2, PartLines, ConfirmLines DEF Knocks, Rates
<1>3. CASE part = 3
  BY <1>3, PartLines, ConfigureLines DEF Knocks, Rates
<1>4. CASE part = 4
  BY <1>4, PartLines, StopStreamingLines DEF Knocks, Rates
<1>5. CASE part = 5
  BY <1>5, PartLines, TestPortsLines DEF Knocks, Rates
<1>6. CASE part = 6
  BY <1>6, PartLines, ResetDevicesLines DEF Knocks, Rates
<1>7. CASE part = 7
  BY <1>7, PartLines, IdentifyLines DEF Knocks, Rates
<1>8. CASE part \in {8} \cup Knocks \cup Rates
  BY <1>8, PartLines, AskLines DEF Knocks, Rates
<1>9. CASE part \in {15, 22}
  BY <1>9, PartLines, WhoLines DEF Knocks, Rates
<1>10. CASE part = 23
  BY <1>10, PartLines, StartStreamingLines DEF Knocks, Rates
<1> QED  BY <1>1, <1>2, <1>3, <1>4, <1>5, <1>6, <1>7, <1>8, <1>9, <1>10
         DEF Place, Knocks, Rates

LEMMA PlaceBytes ==
    ASSUME Place
    PROVE
      /\ part = 1 => (line = 1 => Here.byte = 173) /\ (line = 2 => Here.byte = 167)
      /\ part = 1 => (line \in {4, 8} => Here.byte = 32) /\ (line = 6 => Here.byte = 96)
      /\ part = 1 => (line = 11 => Here.byte = 170)
      /\ part = 2 => (line = 1 => Here.byte = 168) /\ (line = 2 => Here.byte = 32)
      /\ part = 2 => (line = 5 => Here.byte = 167)
      /\ part = 3 => (line = 1 => Here.byte = 32) /\ (line = 3 => Here.byte = 96)
      /\ part = 3 => (line = 5 => Here.byte = 174) /\ (line = 6 => Here.byte = 168)
      /\ part = 4 => (line \in {1, 4} => Here.byte = 245) /\ (line = 3 => Here.byte = 212)
      /\ part = 5 => (line = 1 => Here.byte = 171) /\ (line = 3 => Here.byte = 169)
      /\ part = 6 => (line \in {1, 5} => Here.byte = 255) /\ (line = 4 => Here.byte = 212)
      /\ part = 7 => (line \in {1, 6} => Here.byte = 242) /\ (line = 5 => Here.byte = 212)
      /\ part \in 8 .. 22 /\ line = 1 => Here.byte = 212
      /\ part \in {8, 15, 22} /\ line = 2 => Here.byte = 242
      /\ part \in Knocks /\ line = 2 => Here.byte = 243
      /\ part \in Rates /\ line = 2 => Here.byte \in {200, 100, 80}
      /\ (part = 15 /\ line = 5 => Here.byte = 3) /\ (part = 22 /\ line = 5 => Here.byte = 4)
      /\ part = 23 => (line \in {1, 4} => Here.byte = 244) /\ (line = 3 => Here.byte = 212)
<1>1. CASE part = 1
  BY <1>1, PartLines, DetectLines DEF Knocks, Rates
<1>2. CASE part = 2
  BY <1>2, PartLines, ConfirmLines DEF Knocks, Rates
<1>3. CASE part = 3
  BY <1>3, PartLines, ConfigureLines DEF Knocks, Rates
<1>4. CASE part = 4
  BY <1>4, PartLines, StopStreamingLines DEF Knocks, Rates
<1>5. CASE part = 5
  BY <1>5, PartLines, TestPortsLines DEF Knocks, Rates
<1>6. CASE part = 6
  BY <1>6, PartLines, ResetDevicesLines DEF Knocks, Rates
<1>7. CASE part = 7
  BY <1>7, PartLines, IdentifyLines DEF Knocks, Rates
<1>8. CASE part \in {8} \cup Knocks \cup Rates
  BY <1>8, PartLines, AskLines DEF Knocks, Rates
<1>9. CASE part \in {15, 22}
  BY <1>9, PartLines, WhoLines DEF Knocks, Rates
<1>10. CASE part = 23
  BY <1>10, PartLines, StartStreamingLines DEF Knocks, Rates
<1> QED  BY <1>1, <1>2, <1>3, <1>4, <1>5, <1>6, <1>7, <1>8, <1>9, <1>10
         DEF Place, Knocks, Rates

-----------------------------------------------------------------------------
(* The invariant.                                                          *)

LinesOf(p) == IF p = 1 THEN 12 ELSE IF p \in {2, 4, 15, 22, 23} THEN 5 ELSE IF p = 3 THEN 6
              ELSE IF p = 5 THEN 4 ELSE IF p = 6 THEN 7 ELSE IF p = 7 THEN 9 ELSE 3

Mouse == [kind : {0, 3, 4}, id : {0, 3, 4}, rates : Seq(Bytes), expects_rate : BOOLEAN]

PlaceType ==
    /\ part \in 1 .. 24 /\ line \in Nat
    /\ IF part = 24 THEN line = 1 ELSE line \in 1 .. LinesOf(part)
ValueTypes ==
    /\ status \in Bytes /\ result \in Bytes /\ port \in Bytes
    /\ mouse_mode \in {0, 1} /\ is_dual_device \in BOOLEAN /\ full \in BOOLEAN
    /\ pending \in [0 .. 2 -> Seq(Bytes)]
    /\ ports \in {1, 2} /\ mouse \in Mouse
    /\ drops \in BOOLEAN /\ keys \in Nat /\ late \in BOOLEAN
TypeInv == PlaceType /\ ValueTypes

\* The instructions from a to b of the part p, and those from a on.
In(p, a, b) == part = p /\ line \in a .. b

\* The second port is known to be there, or not, after its clock was looked at.
DualInv == is_dual_device = (ports = 2 /\ ~In(1, 1, 10))

\* What the configuration is at each instruction.
OnePortConfig ==
    /\ In(1, 1, 1) => config \in {65, 67}
    /\ In(1, 2, 7) => config \in {81, 83}
    /\ In(1, 8, 12) \/ part = 2 \/ In(3, 1, 4) => config = 16
    /\ In(3, 5, 5) => config = 81
    /\ In(3, 6, 6) \/ part >= 4 => config = 65
TwoPortConfig ==
    /\ In(1, 1, 1) => config \in {65, 67}
    /\ In(1, 2, 2) => config \in {81, 83}
    /\ In(1, 3, 7) => config \in {113, 115}
    /\ In(1, 8, 12) \/ In(2, 1, 1) \/ In(3, 1, 4) => config = 48
    /\ In(2, 2, 5) => config = 16
    /\ In(3, 5, 5) => config = 115
    /\ In(3, 6, 6) => config = 99
    /\ part >= 4 => config = 67
ConfigInv == IF ports = 1 THEN OnePortConfig ELSE TwoPortConfig

\* While the ports are stopped the controller's answer is the only one.
Outstanding(b) == IF full THEN port = b /\ pending[0] = <<>> ELSE pending[0] = <<b>>
Quiescent == ~full /\ pending[0] = <<>>
AnswersInv ==
    /\ part <= 3 => pending[2] = <<>>
    /\ In(1, 1, 3) => pending[0] = <<>>
    /\ In(1, 4, 4) \/ In(1, 6, 8) \/ In(1, 10, 11) \/ In(2, 1, 2) \/ In(2, 4, 5) => Quiescent
    /\ In(3, 1, 1) \/ In(3, 3, 4) => Quiescent
    /\ In(1, 5, 5) \/ In(1, 9, 9) \/ In(3, 2, 2) => Outstanding(config)
    /\ In(2, 3, 3) => IF ports = 2 THEN Outstanding(config) ELSE Quiescent
    /\ In(1, 12, 12) => Outstanding(85)
    /\ In(1, 6, 7) \/ In(1, 10, 10) \/ In(3, 3, 4) => status = config
    /\ In(2, 4, 4) /\ ports = 2 => status = config

\* The next data byte is for the mouse, and the mouse takes it for a rate.
ForMouse == \/ part \in {4, 23} /\ line = 4
            \/ part = 6 /\ line = 5
            \/ part = 7 /\ line = 6
            \/ part \in 8 .. 22 /\ line = 2
TargetInv == target = "mouse" <=> ports = 2 /\ ForMouse
RatePlace == (part \in Knocks /\ line = 3) \/ (part \in Rates /\ line <= 2)
RateInv == mouse.expects_rate <=> ports = 2 /\ RatePlace

\* Who has been told to report.
StreamInv ==
    /\ streaming \subseteq 1 .. ports
    /\ In(23, 2, 5) \/ part = 24 => 1 \in streaming
    /\ ports = 2 /\ (In(23, 5, 5) \/ part = 24) => 2 \in streaming

\* Identities 3 and 4 come from a mouse that has been switched, which it is
\* not before it is asked, and which it then remains.
Innocent(b) == b \notin {3, 4}
ModeInv ==
    /\ part <= 8 => mouse.id = 0
    /\ keys = 0 /\ mouse.id = 0 =>
         /\ Innocent(port) /\ Innocent(result) /\ mouse_mode = 0
         /\ \A s \in 0 .. 2 : \A i \in 1 .. Len(pending[s]) : Innocent(pending[s][i])

Ps2Inv ==
    /\ TypeInv /\ DualInv /\ ConfigInv /\ AnswersInv /\ TargetInv /\ RateInv /\ StreamInv /\ ModeInv

-----------------------------------------------------------------------------
(* Moving through the script.                                              *)

LEMMA LinesAre == ASSUME part \in 1 .. 23 PROVE Len(Script[part]) = LinesOf(part)
<1>1. part \in {1, 2, 3, 4, 5, 6, 7, 15, 22, 23} \/ part \in 8 .. 21 \ {15}
  OBVIOUS
<1>2. CASE part \in 8 .. 21 \ {15}
  BY <1>2, Lengths DEF LinesOf
<1>3. CASE part \in {1, 2, 3, 4, 5, 6, 7, 15, 22, 23}
  BY <1>3, Lengths DEF LinesOf
<1> QED  BY <1>1, <1>2, <1>3

LEMMA Standing == ASSUME TypeInv, ~Done PROVE Place /\ part \in 1 .. 23 /\ line \in 1 .. LinesOf(part)
<1>1. part \in 1 .. 23
  BY Parts DEF TypeInv, PlaceType, ValueTypes, Done
<1> QED  BY <1>1, LinesAre DEF TypeInv, PlaceType, ValueTypes, Place

LEMMA Onward ==
    ASSUME TypeInv, ~Done, Advance
    PROVE  /\ \/ line < LinesOf(part) /\ part' = part /\ line' = line + 1
              \/ line = LinesOf(part) /\ part' = part + 1 /\ line' = 1
           /\ part' \in 1 .. 24 /\ line' \in Nat
           /\ IF part' = 24 THEN line' = 1 ELSE line' \in 1 .. LinesOf(part')
<1>1. part \in 1 .. 23 /\ line \in 1 .. LinesOf(part) /\ Len(Script[part]) = LinesOf(part)
  BY Standing, LinesAre
<1>2. \/ line < LinesOf(part) /\ part' = part /\ line' = line + 1
      \/ line = LinesOf(part) /\ part' = part + 1 /\ line' = 1
  BY <1>1 DEF Advance, LinesOf
<1>3. \A p : LinesOf(p) \in 3 .. 12
  BY DEF LinesOf
<1>4. CASE part' = part /\ line' = line + 1 /\ line < LinesOf(part)
  BY <1>1, <1>2, <1>3, <1>4
<1>5. CASE part' = part + 1 /\ line' = 1
  BY <1>1, <1>2, <1>3, <1>5
<1> QED  BY <1>2, <1>4, <1>5

\* The instructions at which nothing but the place changes.
LEMMA SkipPlaces ==
    ASSUME TypeInv, SkipDual
    PROVE  /\ ~Done /\ Advance /\ ~is_dual_device
           /\ part = 2 \/ part \in 8 .. 22 \/ In(3, 6, 6) \/ (part \in {4, 5, 23} /\ line >= 3)
              \/ (part = 6 /\ line >= 4) \/ (part = 7 /\ line >= 5)
  BY Standing, WritePlaces DEF SkipDual, In, TypeInv, PlaceType, ValueTypes

LEMMA ConfigValue ==
    ASSUME TypeInv, ConfigInv
    PROVE  config \in {16, 48, 65, 67, 81, 83, 99, 113, 115}
<1>1. \/ In(1, 1, 1) \/ In(1, 2, 2) \/ In(1, 3, 7) \/ In(1, 8, 12) \/ In(2, 1, 1) \/ In(2, 2, 5)
      \/ In(3, 1, 4) \/ In(3, 5, 5) \/ In(3, 6, 6) \/ part >= 4
  BY DEF TypeInv, PlaceType, ValueTypes, In, LinesOf
<1>2. part = 2 \/ ~In(2, 1, 5)
  BY DEF In
<1>3. (In(2, 1, 1) \/ In(2, 2, 5) => part = 2) /\ (In(1, 2, 2) \/ In(1, 3, 7) => In(1, 2, 7))
  BY DEF In
<1>4. CASE ports = 1
  BY <1>1, <1>3, <1>4 DEF ConfigInv, OnePortConfig
<1>5. CASE ports # 1
  BY <1>1, <1>5 DEF ConfigInv, TwoPortConfig
<1> QED  BY <1>4, <1>5

-----------------------------------------------------------------------------
(* Every action keeps the types.                                           *)

LEMMA AnswerTypes ==
    ASSUME TypeInv, ConfigInv, NEW b \in Bytes
    PROVE  /\ ControllerAnswer(b) \in Seq(Bytes) /\ KeyboardAnswer(b) \in Seq(Bytes)
           /\ MouseAnswer(b) \in Seq(Bytes) /\ <<PS2_ACK_BYTE>> \in Seq(Bytes)
<1>1. <<config>> \in Seq(Bytes) /\ <<85>> \in Seq(Bytes) /\ <<0>> \in Seq(Bytes) /\ <<>> \in Seq(Bytes)
  BY ConfigValue DEF Bytes
<1>2. <<250, 170>> \in Seq(Bytes) /\ <<250, 171, 65>> \in Seq(Bytes) /\ <<250>> \in Seq(Bytes)
  BY DEF Bytes
<1>3. <<250, 170, 0>> \in Seq(Bytes) /\ <<250, mouse.id>> \in Seq(Bytes)
  BY DEF TypeInv, PlaceType, ValueTypes, Mouse, Bytes
<1>4. PS2_ACK_BYTE = 250
  BY Codes
<1> QED  BY <1>1, <1>2, <1>3, <1>4 DEF ControllerAnswer, KeyboardAnswer, MouseAnswer

LEMMA PendingType ==
    ASSUME TypeInv, ConfigInv, NEW b \in Bytes,
           ControllerTakes(b) \/ KeyboardTakes(b) \/ MouseTakes(b)
    PROVE  pending' \in [0 .. 2 -> Seq(Bytes)]
<1>1. CASE ControllerTakes(b)
  <2>1. pending[0] \o ControllerAnswer(b) \in Seq(Bytes)
    BY AnswerTypes DEF TypeInv, PlaceType, ValueTypes
  <2>2. pending' = [pending EXCEPT ![0] = pending[0] \o ControllerAnswer(b)]
    BY <1>1 DEF ControllerTakes
  <2> QED  BY <2>1, <2>2 DEF TypeInv, PlaceType, ValueTypes
<1>2. ASSUME NEW dev \in {1, 2}, NEW bytes \in Seq(Bytes), Answer(dev, bytes)
      PROVE  pending' \in [0 .. 2 -> Seq(Bytes)]
  <2>1. (IF drops THEN <<>> ELSE pending[dev]) \in Seq(Bytes)
    BY DEF TypeInv, PlaceType, ValueTypes
  <2>2. (IF drops THEN <<>> ELSE pending[dev]) \o bytes \in Seq(Bytes)
    BY <2>1
  <2> QED  BY <1>2, <2>2 DEF Answer, TypeInv, PlaceType, ValueTypes
<1>3. CASE KeyboardTakes(b)
  BY <1>2, <1>3, AnswerTypes DEF KeyboardTakes
<1>4. CASE MouseTakes(b)
  BY <1>2, <1>4, AnswerTypes DEF MouseTakes
<1> QED  BY <1>1, <1>3, <1>4

LEMMA MouseType ==
    ASSUME TypeInv, NEW b \in Bytes, MouseTakes(b)
    PROVE  mouse' \in Mouse
<1>1. /\ mouse.kind \in {0, 3, 4} /\ mouse.id \in {0, 3, 4} /\ mouse.rates \in Seq(Bytes)
      /\ mouse = [kind |-> mouse.kind, id |-> mouse.id, rates |-> mouse.rates,
                  expects_rate |-> mouse.expects_rate]
  BY DEF TypeInv, PlaceType, ValueTypes, Mouse
<1>2. CASE mouse.expects_rate
  <2>1. Recent(mouse.rates, b) \in Seq(Bytes)
    <3>1. ASSUME Len(mouse.rates) = 3 PROVE Tail(mouse.rates) \in Seq(Bytes)
      <4>1. mouse.rates \in Seq(Bytes)
        BY <1>1
      <4>2. mouse.rates # <<>>
        BY <3>1
      <4> QED  BY <4>1, <4>2
    <3>2. (IF Len(mouse.rates) = 3 THEN Tail(mouse.rates) ELSE mouse.rates) \in Seq(Bytes)
      BY <1>1, <3>1
    <3> QED  BY <3>2 DEF Recent
  <2>2. Identity(mouse, Recent(mouse.rates, b)) \in {0, 3, 4}
    BY <1>1 DEF Identity
  <2>3. mouse' = [mouse EXCEPT !.rates = Recent(mouse.rates, b), !.expects_rate = FALSE,
                               !.id = Identity(mouse, Recent(mouse.rates, b))]
    BY <1>2 DEF MouseTakes
  <2> QED  BY <1>1, <2>1, <2>2, <2>3 DEF Mouse
<1>3. CASE ~mouse.expects_rate
  <2>1. mouse' = [mouse EXCEPT !.rates = IF b = RESET THEN <<>> ELSE @,
                               !.id = IF b = RESET THEN 0 ELSE @,
                               !.expects_rate = (b = SET_SAMPLE_RATE)]
    BY <1>3 DEF MouseTakes
  <2>2. (IF b = RESET THEN <<>> ELSE mouse.rates) \in Seq(Bytes)
        /\ (IF b = RESET THEN 0 ELSE mouse.id) \in {0, 3, 4} /\ (b = SET_SAMPLE_RATE) \in BOOLEAN
    BY <1>1
  <2> QED  BY <1>1, <2>1, <2>2 DEF Mouse
<1> QED  BY <1>2, <1>3

\* A number of small facts about the bits of the values that occur.
LEMMA Bits ==
    /\ SetBit(65, 16) = 81 /\ SetBit(67, 16) = 83 /\ SetBit(81, 32) = 113 /\ SetBit(83, 32) = 115
    /\ ClearBit(48, 32) = 16 /\ SetBit(16, 32) = 48 /\ ClearBit(81, 16) = 65 /\ ClearBit(115, 16) = 99
    /\ ClearBit(99, 32) = 67
    /\ \A b \in {81, 83} : Quiet(b) = 16
    /\ \A b \in {113, 115} : Quiet(b) = 48
    /\ ~is_dual_device => Loud(16) = 81
    /\ is_dual_device => Loud(48) = 115
    /\ \A b \in {16, 65, 67, 81, 83} : ~Bit(b, 32)
    /\ \A b \in {48, 99, 113, 115} : Bit(b, 32)
    /\ \A b \in {16, 48, 81, 83, 113, 115} : Bit(b, 16)
    /\ Bit(65, 1) /\ Bit(67, 1) /\ ~Bit(65, 16) /\ ~Bit(67, 16) /\ Bit(65, 64) /\ Bit(67, 64) /\ Bit(67, 2)
<1>1. Quiet(81) = 16 /\ Quiet(83) = 16
  BY DEF Quiet, ClearBit, Bit
<1>2. Quiet(113) = 48 /\ Quiet(115) = 48
  BY DEF Quiet, ClearBit, Bit
<1>3. (~is_dual_device => Loud(16) = 81) /\ (is_dual_device => Loud(48) = 115)
  BY DEF Loud, SetBit, Bit
<1>4. /\ SetBit(65, 16) = 81 /\ SetBit(67, 16) = 83 /\ SetBit(81, 32) = 113 /\ SetBit(83, 32) = 115
      /\ ClearBit(48, 32) = 16 /\ SetBit(16, 32) = 48 /\ ClearBit(81, 16) = 65
      /\ ClearBit(115, 16) = 99 /\ ClearBit(99, 32) = 67
  BY DEF SetBit, ClearBit, Bit
<1>5. /\ \A b \in {16, 65, 67, 81, 83} : ~Bit(b, 32)
      /\ \A b \in {48, 99, 113, 115} : Bit(b, 32)
      /\ \A b \in {16, 48, 81, 83, 113, 115} : Bit(b, 16)
      /\ Bit(65, 1) /\ Bit(67, 1) /\ ~Bit(65, 16) /\ ~Bit(67, 16) /\ Bit(65, 64) /\ Bit(67, 64) /\ Bit(67, 2)
  BY DEF Bit
<1> QED  BY <1>1, <1>2, <1>3, <1>4, <1>5

LEMMA PlaceByte == ASSUME TypeInv, At("data") \/ At("cmd") PROVE Here.byte \in Bytes
<1>1. Place
  BY Standing DEF At
<1>2. CASE At("data")
  BY <1>1, <1>2, WritePlaces, PlaceBytes DEF At, Knocks, Rates, Bytes
<1>3. CASE At("cmd")
  BY <1>1, <1>3, WritePlaces, PlaceBytes DEF At, Knocks, Rates, Bytes
<1> QED  BY <1>2, <1>3

LEMMA TypeStep ==
    ASSUME Ps2Inv, Next
    PROVE  TypeInv'
<1>0. TypeInv /\ ConfigInv /\ AnswersInv
  BY DEF Ps2Inv
<1>1. ASSUME ~Done, Advance PROVE PlaceType'
  BY <1>0, <1>1, Onward DEF PlaceType, LinesOf
<1>2. CASE SkipDual
  BY <1>0, <1>1, <1>2 DEF SkipDual, TypeInv, ValueTypes, kernelVars, controllerVars, deviceVars
<1>3. CASE OutCmd
  <2>1. ~Done /\ Advance /\ ControllerTakes(Here.byte) /\ Here.byte \in Bytes
    BY <1>0, <1>3, PlaceByte DEF OutCmd, At
  <2>2. pending' \in [0 .. 2 -> Seq(Bytes)]
    BY <2>1, <1>0, PendingType
  <2> QED  BY <1>0, <1>1, <1>3, <2>1, <2>2 DEF OutCmd, TypeInv, ValueTypes, kernelVars, deviceVars
<1>4. CASE OutData
  <2>1. ~Done /\ Advance /\ Here.byte \in Bytes
    BY <1>0, <1>4, PlaceByte DEF OutData, At
  <2>2. pending' \in [0 .. 2 -> Seq(Bytes)]
    BY <2>1, <1>0, <1>4, PendingType DEF OutData
  <2>3. mouse' \in Mouse
    BY <2>1, <1>0, <1>4, MouseType DEF OutData, KeyboardTakes, TypeInv, ValueTypes
  <2> QED  BY <1>0, <1>1, <1>4, <2>1, <2>2, <2>3 DEF OutData, TypeInv, ValueTypes, kernelVars
<1>5. CASE WriteConfig
  <2>1. ~Done /\ Advance
    BY <1>5 DEF WriteConfig, At
  <2>2. status' \in Bytes
    <3>1. CASE At("quiet")
      BY <1>0, <1>5, <3>1 DEF WriteConfig, TypeInv, ValueTypes
    <3>2. CASE ~At("quiet")
      <4>1. Place /\ part = 3 /\ line = 4
        BY <1>0, <1>5, <3>2, Standing, SinglePlaces DEF WriteConfig, At
      <4>2. status = config /\ config \in {16, 48}
        BY <1>0, <4>1 DEF AnswersInv, ConfigInv, OnePortConfig, TwoPortConfig, In
      <4>3. Loud(16) \in Bytes /\ Loud(48) \in Bytes
        BY DEF Loud, SetBit, Bit, Bytes
      <4> QED  BY <1>5, <3>2, <4>2, <4>3 DEF WriteConfig
    <3> QED  BY <3>1, <3>2
  <2> QED  BY <1>0, <1>1, <1>5, <2>1, <2>2 DEF WriteConfig, TypeInv, ValueTypes, deviceVars
<1>6. CASE DummyReads
  BY <1>0, <1>1, <1>6 DEF DummyReads, At, TypeInv, ValueTypes, kernelVars, deviceVars
<1>7. ASSUME ReadStatus PROVE ValueTypes'
  <2>1. late' \in BOOLEAN
    BY <1>7, <1>0 DEF ReadStatus, Waited, TypeInv, ValueTypes
  <2> QED  BY <1>0, <1>7, <2>1 DEF ReadStatus, TypeInv, ValueTypes, deviceVars
<1>8. CASE GetStatus
  BY <1>1, <1>7, <1>8 DEF GetStatus, At, TypeInv
<1>9. CASE NoMore
  BY <1>0, <1>1, <1>9 DEF NoMore, At, TypeInv, ValueTypes, kernelVars, controllerVars, deviceVars
<1>10. CASE AwaitAck
  <2>1. PlaceType'
    BY <1>0, <1>1, <1>10 DEF AwaitAck, At, TypeInv, PlaceType, pcVars
  <2> QED  BY <2>1, <1>7, <1>10 DEF AwaitAck, TypeInv
<1>11. CASE mouse_read
  <2>1. late' \in BOOLEAN /\ result' \in Bytes
    BY <1>11, <1>0 DEF mouse_read, Waited, TypeInv, ValueTypes, Bytes
  <2> QED  BY <1>0, <1>1, <1>11, <2>1 DEF mouse_read, At, TypeInv, ValueTypes, deviceVars
<1>12. CASE CheckDual
  <2>1. is_dual_device' \in BOOLEAN
    BY <1>12, <1>0 DEF CheckDual, TypeInv, ValueTypes
  <2> QED  BY <1>0, <1>1, <1>12, <2>1 DEF CheckDual, At, TypeInv, ValueTypes, controllerVars, deviceVars
<1>13. CASE CheckIdentity
  BY <1>0, <1>1, <1>13 DEF CheckIdentity, At, TypeInv, ValueTypes, controllerVars, deviceVars
<1>14. CASE \E s \in 0 .. 2 : Deliver(s)
  <2>1. PICK s \in 0 .. 2 : Deliver(s)
    BY <1>14
  <2>2. pending[s] \in Seq(Bytes) /\ pending[s] # <<>>
    BY <1>0, <2>1 DEF Deliver, CanSend, TypeInv, ValueTypes
  <2>3. Head(pending[s]) \in Bytes /\ Tail(pending[s]) \in Seq(Bytes)
    BY <2>2
  <2>4. PlaceType'
    BY <1>0, <2>1 DEF Deliver, pcVars, TypeInv, PlaceType
  <2> QED  BY <1>0, <2>1, <2>3, <2>4 DEF Deliver, TypeInv, ValueTypes, kernelVars, deviceVars
<1>15. CASE \E k \in Keys : PressKey(k)
  <2>1. PICK k \in Keys : PressKey(k)
    BY <1>15
  <2>2. Append(pending[1], k) \in Seq(Bytes)
    BY <1>0, KeysAssumption DEF TypeInv, ValueTypes
  <2>3. PlaceType'
    BY <1>0, <2>1 DEF PressKey, pcVars, TypeInv, PlaceType
  <2>4. pending' = [pending EXCEPT ![1] = Append(pending[1], k)]
    BY <2>1 DEF PressKey
  <2> QED  BY <1>0, <2>1, <2>2, <2>3, <2>4 DEF PressKey, TypeInv, ValueTypes, kernelVars, controllerVars, deviceVars
<1> QED  BY <1>2, <1>3, <1>4, <1>5, <1>6, <1>8, <1>9, <1>10, <1>11, <1>12, <1>13, <1>14, <1>15
         DEF Next, Kernel

-----------------------------------------------------------------------------
(* The second port, and the configuration.                                 *)

\* A step moves on or stays, and never changes the number of ports.
LEMMA Moves ==
    ASSUME Next
    PROVE  ports' = ports /\ ((~Done /\ Advance) \/ UNCHANGED pcVars)
  BY DEF Next, Kernel, SkipDual, OutCmd, OutData, WriteConfig, DummyReads, GetStatus, NoMore, AwaitAck,
         ReadStatus, mouse_read, CheckDual, CheckIdentity, Deliver, PressKey, At, deviceVars, pcVars

\* The instruction that the check of the clocks, or a command, is not.
LEMMA OtherPlaces ==
    ASSUME TypeInv
    PROVE  /\ SkipDual => Place /\ ~(part = 1) /\ ~(part = 3 /\ line <= 5)
           /\ OutData => Place /\ part >= 4
           /\ DummyReads => part = 1 /\ line = 3
           /\ NoMore => part = 6
           /\ AwaitAck => part >= 4
           /\ mouse_read => part >= 8
           /\ CheckIdentity => part >= 15
           /\ CheckDual => In(1, 10, 10) \/ In(2, 4, 4)
           /\ GetStatus => \/ part = 1 /\ line \in {5, 9, 12}
                           \/ part = 2 /\ line = 3
                           \/ part = 3 /\ line = 2
                           \/ part >= 5
<1>1. ~Done => Place
  BY Standing
<1>2. SkipDual => Place /\ ~(part = 1) /\ ~(part = 3 /\ line <= 5)
  BY <1>1, SkipPlaces DEF In
<1>3. (OutData => Place /\ part >= 4) /\ (AwaitAck => part >= 4) /\ (mouse_read => part >= 8)
  BY <1>1, WritePlaces, ReadPlaces DEF OutData, AwaitAck, mouse_read, At, Knocks, Rates
<1>4. /\ DummyReads => part = 1 /\ line = 3
      /\ NoMore => part = 6
      /\ CheckIdentity => part >= 15
      /\ CheckDual => In(1, 10, 10) \/ In(2, 4, 4)
  BY <1>1, SinglePlaces DEF DummyReads, NoMore, CheckIdentity, CheckDual, At, In
<1>5. GetStatus => \/ part = 1 /\ line \in {5, 9, 12}
                   \/ part = 2 /\ line = 3
                   \/ part = 3 /\ line = 2
                   \/ part >= 5
  BY <1>1, ReadPlaces, SinglePlaces DEF GetStatus, At
<1> QED  BY <1>2, <1>3, <1>4, <1>5

\* The commands, and the two writes of the configuration.
LEMMA CommandPlaces ==
    ASSUME TypeInv
    PROVE  /\ OutCmd => /\ Place
                        /\ \/ part = 1 /\ line \in {1, 2, 4, 6, 8, 11}
                           \/ part = 2 /\ line \in {1, 2, 5}
                           \/ part = 3 /\ line \in {1, 3, 5, 6}
                           \/ part >= 4
           /\ WriteConfig => \/ In(1, 7, 7) /\ At("quiet")
                             \/ In(3, 4, 4) /\ ~At("quiet")
<1>1. ~Done => Place
  BY Standing
<1> QED  BY <1>1, WritePlaces, SinglePlaces DEF OutCmd, WriteConfig, At, In

LEMMA CheckedConfig ==
    ASSUME TypeInv, ConfigInv, AnswersInv, CheckDual
    PROVE  /\ In(1, 10, 10) => Bit(status, 32) = (ports = 2) /\ At("has_clock_2")
           /\ In(2, 4, 4) /\ ports = 2 => ~Bit(status, 32)
           /\ In(2, 4, 4) => ~At("has_clock_2")
<1>1. Place
  BY Standing DEF CheckDual, At
<1>2. In(1, 10, 10) => status = config /\ config = (IF ports = 2 THEN 48 ELSE 16) /\ At("has_clock_2")
  BY <1>1, SinglePlaces DEF CheckDual, At, In, AnswersInv, ConfigInv, OnePortConfig, TwoPortConfig, TypeInv, ValueTypes
<1>3. In(2, 4, 4) => ~At("has_clock_2") /\ (ports = 2 => status = config /\ config = 16)
  BY <1>1, SinglePlaces DEF CheckDual, At, In, AnswersInv, ConfigInv, OnePortConfig, TwoPortConfig, TypeInv, ValueTypes
<1>4. ~Bit(16, 32)
  BY Bits
<1>5. In(1, 10, 10) => Bit(status, 32) = (ports = 2) /\ At("has_clock_2")
  BY <1>2 DEF Bit
<1> QED  BY <1>3, <1>4, <1>5

LEMMA DualStep ==
    ASSUME Ps2Inv, Next
    PROVE  DualInv'
<1>0. TypeInv /\ ConfigInv /\ AnswersInv /\ DualInv /\ ports' = ports
  BY Moves DEF Ps2Inv
<1>1. ASSUME ~Done, Advance, ~(part = 1 /\ line = 10) PROVE In(1, 1, 10)' = In(1, 1, 10)
  BY <1>0, <1>1, Onward DEF In, LinesOf, TypeInv, PlaceType
<1>2. CASE CheckDual
  <2>1. ~Done /\ Advance
    BY <1>2 DEF CheckDual, At
  <2>2. CASE In(1, 10, 10)
    <3>1. ~In(1, 1, 10)' /\ In(1, 1, 10)
      BY <1>0, <2>1, <2>2, Onward DEF In, LinesOf
    <3>2. is_dual_device' = (is_dual_device \/ Bit(status, 32)) /\ Bit(status, 32) = (ports = 2)
      BY <1>0, <1>2, <2>2, CheckedConfig DEF CheckDual
    <3> QED  BY <1>0, <3>1, <3>2 DEF DualInv
  <2>3. CASE In(2, 4, 4)
    <3>1. ~In(1, 1, 10)' /\ ~In(1, 1, 10)
      BY <1>0, <2>1, <2>3, Onward DEF In, LinesOf
    <3>2. /\ is_dual_device' = (is_dual_device /\ ~Bit(status, 32))
          /\ ports = 2 => ~Bit(status, 32)
      BY <1>0, <1>2, <2>3, CheckedConfig DEF CheckDual
    <3> QED  BY <1>0, <3>1, <3>2 DEF DualInv
  <2> QED  BY <1>0, <1>2, <2>2, <2>3, OtherPlaces
<1>3. CASE ~CheckDual
  <2>1. is_dual_device' = is_dual_device
    BY <1>3 DEF Next, Kernel, SkipDual, OutCmd, OutData, WriteConfig, DummyReads, GetStatus, NoMore, AwaitAck,
         ReadStatus, mouse_read, CheckIdentity, Deliver, PressKey, kernelVars
  <2>2. In(1, 1, 10)' = In(1, 1, 10)
    <3>1. CASE UNCHANGED pcVars
      BY <3>1 DEF pcVars, In
    <3>2. CASE ~UNCHANGED pcVars
      <4>1. ~Done /\ Advance
        BY <3>2, Moves
      <4>2. Kernel
        BY <3>2 DEF Next, Deliver, PressKey
      <4>3. ~(part = 1 /\ line = 10)
        BY <1>0, <1>3, <4>2, OtherPlaces, CommandPlaces DEF Kernel, In
      <4> QED  BY <1>1, <4>1, <4>3
    <3> QED  BY <3>1, <3>2
  <2> QED  BY <1>0, <2>1, <2>2 DEF DualInv
<1> QED  BY <1>2, <1>3

\* The commands by their places, and what they do to the configuration.
LEMMA CommandConfig ==
    ASSUME TypeInv, OutCmd
    PROVE  /\ In(1, 1, 1) => config' = SetBit(config, 16)
           /\ In(1, 2, 2) \/ In(2, 5, 5) => config' = IF ports = 2 THEN SetBit(config, 32) ELSE config
           /\ In(2, 1, 1) \/ In(3, 6, 6) => config' = IF ports = 2 THEN ClearBit(config, 32) ELSE config
           /\ In(3, 5, 5) => config' = ClearBit(config, 16)
           /\ ~In(1, 1, 2) /\ ~In(2, 1, 1) /\ ~In(2, 5, 5) /\ ~In(3, 5, 6) => config' = config
<1>1. Place /\ ControllerTakes(Here.byte) /\ At("cmd") /\ Here.op = "cmd"
  BY CommandPlaces DEF OutCmd, At
<1>2. config' = CASE Here.byte = 173 -> SetBit(config, 16)
                  [] Here.byte = 174 -> ClearBit(config, 16)
                  [] Here.byte = 167 /\ ports = 2 -> SetBit(config, 32)
                  [] Here.byte = 168 /\ ports = 2 -> ClearBit(config, 32)
                  [] OTHER -> config
  BY <1>1, Codes DEF ControllerTakes
<1>3. /\ In(1, 1, 1) => Here.byte = 173
      /\ In(1, 2, 2) \/ In(2, 5, 5) => Here.byte = 167
      /\ In(2, 1, 1) \/ In(3, 6, 6) => Here.byte = 168
      /\ In(3, 5, 5) => Here.byte = 174
  BY <1>1, PlaceBytes DEF In
<1>4. ~In(1, 1, 2) /\ ~In(2, 1, 1) /\ ~In(2, 5, 5) /\ ~In(3, 5, 6) => Here.byte \notin {173, 174, 167, 168}
  BY <1>1, WritePlaces, PlaceBytes DEF In
<1> QED  BY <1>2, <1>3, <1>4

\* Moving on without a new configuration.
LEMMA ConfigKept ==
    ASSUME TypeInv, ConfigInv, ~Done, Advance, ports' = ports, config' = config,
           ~In(1, 1, 1), ~In(1, 7, 7), ~In(3, 4, 5),
           ports = 2 => ~In(1, 2, 2) /\ ~In(2, 1, 1) /\ ~In(2, 5, 5) /\ ~In(3, 6, 6)
    PROVE  ConfigInv'
<1>1. PlaceType /\ part \in 1 .. 23 /\ line \in 1 .. LinesOf(part)
  BY Standing DEF TypeInv
<1>2. CASE ports = 1
  BY <1>1, <1>2, Onward DEF ConfigInv, OnePortConfig, In, LinesOf
<1>3. CASE ports = 2
  BY <1>1, <1>3, Onward DEF ConfigInv, TwoPortConfig, In, LinesOf
<1> QED  BY <1>2, <1>3 DEF TypeInv, ValueTypes

LEMMA ConfigStep ==
    ASSUME Ps2Inv, Next
    PROVE  ConfigInv'
<1>0. TypeInv /\ ConfigInv /\ AnswersInv /\ DualInv /\ ports' = ports /\ ports \in {1, 2}
  BY Moves DEF Ps2Inv, TypeInv, ValueTypes
<1>1. CASE OutCmd
  <2>0. ~Done /\ Advance /\ Place
    BY <1>0, <1>1, CommandPlaces DEF OutCmd, At
  <2>1. CASE In(1, 1, 1)
    <3>1. config' = SetBit(config, 16) /\ config \in {65, 67} /\ In(1, 2, 2)'
      BY <1>0, <1>1, <2>0, <2>1, CommandConfig, Onward DEF ConfigInv, OnePortConfig, TwoPortConfig, In, LinesOf
    <3>2. config' \in {81, 83}
      BY <3>1, Bits
    <3> QED  BY <1>0, <3>1, <3>2 DEF ConfigInv, OnePortConfig, TwoPortConfig, In
  <2>2. CASE In(1, 2, 2)
    <3>1. /\ config' = (IF ports = 2 THEN SetBit(config, 32) ELSE config)
          /\ config \in {81, 83} /\ In(1, 3, 3)'
      BY <1>0, <1>1, <2>0, <2>2, CommandConfig, Onward DEF ConfigInv, OnePortConfig, TwoPortConfig, In, LinesOf
    <3>2. IF ports = 2 THEN config' \in {113, 115} ELSE config' \in {81, 83}
      BY <3>1, Bits
    <3> QED  BY <1>0, <3>1, <3>2 DEF ConfigInv, OnePortConfig, TwoPortConfig, In
  <2>3. CASE In(2, 1, 1)
    <3>1. /\ config' = (IF ports = 2 THEN ClearBit(config, 32) ELSE config)
          /\ config = (IF ports = 2 THEN 48 ELSE 16) /\ In(2, 2, 2)'
      BY <1>0, <1>1, <2>0, <2>3, CommandConfig, Onward DEF ConfigInv, OnePortConfig, TwoPortConfig, In, LinesOf
    <3>2. config' = 16
      BY <3>1, Bits
    <3> QED  BY <1>0, <3>1, <3>2 DEF ConfigInv, OnePortConfig, TwoPortConfig, In
  <2>4. CASE In(2, 5, 5)
    <3>1. /\ config' = (IF ports = 2 THEN SetBit(config, 32) ELSE config)
          /\ config = 16 /\ In(3, 1, 1)'
      BY <1>0, <1>1, <2>0, <2>4, CommandConfig, Onward DEF ConfigInv, OnePortConfig, TwoPortConfig, In, LinesOf
    <3>2. config' = (IF ports = 2 THEN 48 ELSE 16)
      BY <3>1, Bits
    <3> QED  BY <1>0, <3>1, <3>2 DEF ConfigInv, OnePortConfig, TwoPortConfig, In
  <2>5. CASE In(3, 5, 5)
    <3>1. /\ config' = ClearBit(config, 16)
          /\ config = (IF ports = 2 THEN 115 ELSE 81) /\ In(3, 6, 6)'
      BY <1>0, <1>1, <2>0, <2>5, CommandConfig, Onward DEF ConfigInv, OnePortConfig, TwoPortConfig, In, LinesOf
    <3>2. config' = (IF ports = 2 THEN 99 ELSE 65)
      BY <3>1, Bits
    <3> QED  BY <1>0, <3>1, <3>2 DEF ConfigInv, OnePortConfig, TwoPortConfig, In
  <2>6. CASE In(3, 6, 6)
    <3>1. /\ config' = (IF ports = 2 THEN ClearBit(config, 32) ELSE config)
          /\ config = (IF ports = 2 THEN 99 ELSE 65) /\ part' = 4
      BY <1>0, <1>1, <2>0, <2>6, CommandConfig, Onward DEF ConfigInv, OnePortConfig, TwoPortConfig, In, LinesOf
    <3>2. config' = (IF ports = 2 THEN 67 ELSE 65)
      BY <3>1, Bits
    <3> QED  BY <1>0, <3>1, <3>2 DEF ConfigInv, OnePortConfig, TwoPortConfig, In
  <2>7. CASE ~In(1, 1, 2) /\ ~In(2, 1, 1) /\ ~In(2, 5, 5) /\ ~In(3, 5, 6)
    <3>1. config' = config
      BY <1>0, <1>1, <2>7, CommandConfig
    <3>2. ~In(1, 1, 1) /\ ~In(1, 7, 7) /\ ~In(1, 2, 2) /\ ~In(3, 4, 5) /\ ~In(3, 6, 6)
      BY <1>0, <1>1, <2>7, CommandPlaces DEF In
    <3> QED  BY <1>0, <2>0, <2>7, <3>1, <3>2, ConfigKept
  <2>8. In(1, 1, 2) => In(1, 1, 1) \/ In(1, 2, 2)
    BY DEF In
  <2>9. In(3, 5, 6) => In(3, 5, 5) \/ In(3, 6, 6)
    BY DEF In
  <2> QED  BY <2>1, <2>2, <2>3, <2>4, <2>5, <2>6, <2>7, <2>8, <2>9
<1>2. CASE WriteConfig
  <2>0. ~Done /\ Advance
    BY <1>2 DEF WriteConfig, At
  <2>1. CASE In(1, 7, 7) /\ At("quiet")
    <3>1. /\ config' = Quiet(config) /\ In(1, 8, 8)'
          /\ IF ports = 2 THEN config \in {113, 115} ELSE config \in {81, 83}
      BY <1>0, <1>2, <2>0, <2>1, Onward
         DEF WriteConfig, AnswersInv, ConfigInv, OnePortConfig, TwoPortConfig, In, LinesOf
    <3>2. config' = (IF ports = 2 THEN 48 ELSE 16)
      BY <3>1, Bits
    <3> QED  BY <1>0, <3>1, <3>2 DEF ConfigInv, OnePortConfig, TwoPortConfig, In
  <2>2. CASE In(3, 4, 4) /\ ~At("quiet")
    <3>1. /\ config' = Loud(config) /\ In(3, 5, 5)'
          /\ config = (IF ports = 2 THEN 48 ELSE 16)
      BY <1>0, <1>2, <2>0, <2>2, Onward
         DEF WriteConfig, AnswersInv, ConfigInv, OnePortConfig, TwoPortConfig, In, LinesOf
    <3>2. CASE ports = 2
      <4>0. ~In(1, 1, 10) /\ config' = Loud(48)
        BY <2>2, <3>1, <3>2 DEF In
      <4>1. is_dual_device /\ config' = Loud(48)
        BY <1>0, <3>2, <4>0 DEF DualInv
      <4>2. is_dual_device => Loud(48) = 115
        BY Bits
      <4> QED  BY <1>0, <3>1, <3>2, <4>1, <4>2 DEF ConfigInv, OnePortConfig, TwoPortConfig, In
    <3>3. CASE ports # 2
      <4>0. ~In(1, 1, 10) /\ config' = Loud(16)
        BY <2>2, <3>1, <3>3 DEF In
      <4>1. ~is_dual_device /\ config' = Loud(16)
        BY <1>0, <3>3, <4>0 DEF DualInv
      <4>2. ~is_dual_device => Loud(16) = 81
        BY Bits
      <4> QED  BY <1>0, <3>1, <3>3, <4>1, <4>2 DEF ConfigInv, OnePortConfig, TwoPortConfig, In
    <3> QED  BY <3>2, <3>3
  <2> QED  BY <1>0, <1>2, <2>1, <2>2, CommandPlaces
<1>3. CASE ~OutCmd /\ ~WriteConfig
  <2>1. config' = config
    BY <1>3 DEF Next, Kernel, SkipDual, OutData, DummyReads, GetStatus, NoMore, AwaitAck, ReadStatus,
         mouse_read, CheckDual, CheckIdentity, Deliver, PressKey, controllerVars
  <2>2. CASE UNCHANGED pcVars
    BY <1>0, <2>1, <2>2 DEF pcVars, ConfigInv, OnePortConfig, TwoPortConfig, In
  <2>3. CASE ~UNCHANGED pcVars
    <3>1. ~Done /\ Advance
      BY <2>3, Moves
    <3>2. Kernel
      BY <2>3 DEF Next, Deliver, PressKey
    <3>3. CASE SkipDual
      <4>1. ports # 2
        BY <1>0, <3>3, OtherPlaces DEF DualInv, In, SkipDual
      <4>2. ~In(1, 1, 1) /\ ~In(1, 7, 7) /\ ~In(3, 4, 5)
        BY <1>0, <3>3, OtherPlaces DEF In
      <4> QED  BY <1>0, <2>1, <3>1, <4>1, <4>2, ConfigKept
    <3>4. CASE ~SkipDual
      <4>1. ~In(1, 1, 1) /\ ~In(1, 7, 7) /\ ~In(3, 4, 5)
        BY <1>0, <1>3, <3>2, <3>4, OtherPlaces DEF In, Kernel
      <4>2. ~In(1, 2, 2) /\ ~In(2, 1, 1) /\ ~In(2, 5, 5) /\ ~In(3, 6, 6)
        BY <1>0, <1>3, <3>2, <3>4, OtherPlaces DEF In, Kernel
      <4> QED  BY <1>0, <2>1, <3>1, <4>1, <4>2, ConfigKept
    <3> QED  BY <3>3, <3>4
  <2> QED  BY <2>2, <2>3
<1> QED  BY <1>1, <1>2, <1>3

-----------------------------------------------------------------------------
(* The controller's answers while the ports are stopped.                   *)

\* What a command appends to the controller's answers.
LEMMA CommandAnswer ==
    ASSUME TypeInv, OutCmd
    PROVE  /\ full' = full /\ port' = port /\ status' = status /\ pending'[1] = pending[1] /\ pending'[2] = pending[2]
           /\ In(1, 4, 4) \/ In(1, 8, 8) \/ In(2, 2, 2) \/ In(3, 1, 1) =>
                pending'[0] = pending[0] \o <<config>>
           /\ In(1, 11, 11) => pending'[0] = pending[0] \o <<85>>
           /\ In(1, 1, 2) \/ In(1, 6, 6) \/ In(2, 1, 1) \/ In(2, 5, 5) \/ In(3, 3, 3) \/ In(3, 5, 6) =>
                pending'[0] = pending[0]
<1>1. Place /\ ControllerTakes(Here.byte) /\ Here.op = "cmd"
  BY CommandPlaces DEF OutCmd, At
<1>2. /\ full' = full /\ port' = port /\ status' = status
      /\ pending'[1] = pending[1] /\ pending'[2] = pending[2]
      /\ pending'[0] = pending[0] \o ControllerAnswer(Here.byte)
  BY <1>1 DEF OutCmd, ControllerTakes, kernelVars, TypeInv, ValueTypes
<1>3. pending[0] \in Seq(Bytes) /\ pending[0] \o <<>> = pending[0]
  BY DEF TypeInv, ValueTypes
<1>4. /\ In(1, 4, 4) \/ In(1, 8, 8) \/ In(2, 2, 2) \/ In(3, 1, 1) => Here.byte = 32
      /\ In(1, 11, 11) => Here.byte = 170
      /\ In(1, 1, 2) \/ In(1, 6, 6) \/ In(2, 1, 1) \/ In(2, 5, 5) \/ In(3, 3, 3) \/ In(3, 5, 6) =>
           Here.byte \in {173, 167, 96, 168, 174}
  BY <1>1, PlaceBytes DEF In
<1>5. /\ ControllerAnswer(32) = <<config>> /\ ControllerAnswer(170) = <<85>>
      /\ \A b \in {173, 167, 96, 168, 174} : ControllerAnswer(b) = <<>>
  BY Codes DEF ControllerAnswer
<1>6. /\ In(1, 4, 4) \/ In(1, 8, 8) \/ In(2, 2, 2) \/ In(3, 1, 1) =>
           pending'[0] = pending[0] \o <<config>>
      /\ In(1, 11, 11) => pending'[0] = pending[0] \o <<85>>
  BY <1>2, <1>4, <1>5
<1>7. In(1, 1, 2) \/ In(1, 6, 6) \/ In(2, 1, 1) \/ In(2, 5, 5) \/ In(3, 3, 3) \/ In(3, 5, 6) =>
        pending'[0] = pending[0]
  BY <1>2, <1>3, <1>4, <1>5
<1> QED  BY <1>2, <1>6, <1>7

\* The kernel waits for the controller, which is never slow.
LEMMA Prompt ==
    ASSUME TypeInv, Waited, NEW b, Outstanding(b)
    PROVE  full /\ port = b /\ pending[0] = <<>>
<1>1. 0 \notin Slow
  BY SlowAssumption
<1>2. CASE ~full
  <2>1. pending[0] = <<b>> /\ pending[0] # <<>>
    BY <1>2 DEF Outstanding
  <2>2. CanSend(0)
    BY <2>1 DEF CanSend
  <2> QED  BY <1>1, <1>2, <2>2 DEF Waited
<1> QED  BY <1>2 DEF Outstanding


\* What the answers are after the command, the reading or the check.
LEMMA AnswersCommand ==
    ASSUME Ps2Inv, OutCmd
    PROVE  AnswersInv'
<1>0. TypeInv /\ AnswersInv /\ DualInv /\ PlaceType /\ ports' = ports /\ ports \in {1, 2} /\ ~Done /\ Advance
  BY DEF Ps2Inv, TypeInv, ValueTypes, OutCmd, At, deviceVars
<1>1. \A b : <<>> \o <<b>> = <<b>>
  OBVIOUS
<1>2. full' = full /\ port' = port /\ status' = status /\ pending'[2] = pending[2]
  BY <1>0, CommandAnswer
<1>3. is_dual_device => ports = 2
  BY <1>0 DEF DualInv
<1>4. Here.dual => is_dual_device
  BY DEF OutCmd, At
<1>5. part = 2 => ports = 2
  BY <1>0, <1>3, <1>4, CommandPlaces, WritePlaces
<1>6. CASE In(1, 1, 2)
  <2>1. pending'[0] = <<>> /\ pending'[2] = <<>> /\ In(1, 2, 3)'
    BY <1>0, <1>2, <1>6, CommandAnswer, Onward DEF AnswersInv, In, LinesOf
  <2> QED  BY <2>1 DEF AnswersInv, In
<1>7. CASE In(1, 4, 4) \/ In(1, 8, 8) \/ In(2, 2, 2) \/ In(3, 1, 1)
  <2>1. Quiescent /\ pending[2] = <<>> /\ (In(1, 5, 5)' \/ In(1, 9, 9)' \/ In(2, 3, 3)' \/ In(3, 2, 2)')
    BY <1>0, <1>7, Onward DEF AnswersInv, In, LinesOf
  <2>2. pending'[0] = <<config>> /\ config' = config
    BY <1>0, <1>1, <1>7, <2>1, CommandAnswer, CommandConfig DEF Quiescent, In
  <2>3. Outstanding(config)' /\ pending'[2] = <<>>
    BY <1>2, <2>1, <2>2 DEF Outstanding, Quiescent
  <2>4. In(2, 3, 3)' => ports' = 2
    BY <1>0, <1>5, <1>7, Onward DEF In, LinesOf
  <2> QED  BY <2>1, <2>3, <2>4 DEF AnswersInv, In
<1>8. CASE In(1, 11, 11)
  <2>1. Quiescent /\ pending[2] = <<>> /\ In(1, 12, 12)'
    BY <1>0, <1>8, Onward DEF AnswersInv, In, LinesOf
  <2>2. pending'[0] = <<85>>
    BY <1>0, <1>1, <1>8, <2>1, CommandAnswer DEF Quiescent, In
  <2>3. Outstanding(85)' /\ pending'[2] = <<>>
    BY <1>2, <2>1, <2>2 DEF Outstanding, Quiescent
  <2> QED  BY <2>1, <2>3 DEF AnswersInv, In
<1>9. CASE In(1, 6, 6) \/ In(3, 3, 3)
  <2>1. Quiescent /\ pending[2] = <<>> /\ status = config /\ (In(1, 7, 7)' \/ In(3, 4, 4)')
    BY <1>0, <1>9, Onward DEF AnswersInv, In, LinesOf
  <2>2. pending'[0] = <<>> /\ config' = config
    BY <1>0, <1>9, <2>1, CommandAnswer, CommandConfig DEF Quiescent, In
  <2>3. Quiescent' /\ pending'[2] = <<>> /\ status' = config'
    BY <1>2, <2>1, <2>2 DEF Quiescent
  <2> QED  BY <2>1, <2>3 DEF AnswersInv, In
<1>10. CASE In(2, 1, 1) \/ In(2, 5, 5)
  <2>1. Quiescent /\ pending[2] = <<>> /\ (In(2, 2, 2)' \/ In(3, 1, 1)')
    BY <1>0, <1>10, Onward DEF AnswersInv, In, LinesOf
  <2>2. pending'[0] = <<>>
    BY <1>0, <1>10, <2>1, CommandAnswer DEF Quiescent, In
  <2>3. Quiescent' /\ pending'[2] = <<>>
    BY <1>2, <2>1, <2>2 DEF Quiescent
  <2> QED  BY <2>1, <2>3 DEF AnswersInv, In
<1>11. CASE In(3, 5, 6) \/ part >= 4
  <2>1. In(3, 6, 6)' \/ part' >= 4
    BY <1>0, <1>11, Onward DEF In, LinesOf, PlaceType
  <2>2. part <= 3 => pending'[2] = <<>>
    BY <1>0, <1>2 DEF AnswersInv
  <2>3. part' <= 3 => pending'[2] = <<>>
    BY <1>0, <1>11, <2>2, Onward DEF In, PlaceType
  <2> QED  BY <2>1, <2>3 DEF AnswersInv, In
<1>12. \/ In(1, 1, 2) \/ In(1, 4, 4) \/ In(1, 8, 8) \/ In(2, 2, 2) \/ In(3, 1, 1) \/ In(1, 11, 11)
       \/ In(1, 6, 6) \/ In(3, 3, 3) \/ In(2, 1, 1) \/ In(2, 5, 5) \/ In(3, 5, 6) \/ part >= 4
  BY <1>0, CommandPlaces DEF In
<1> QED  BY <1>6, <1>7, <1>8, <1>9, <1>10, <1>11, <1>12

\* Nothing is said of the answers once the ports run.
LEMMA Running == ASSUME TypeInv, ~Done, Advance, part >= 4 PROVE AnswersInv'
<1>1. part' \in 4 .. 24
  <2>1. part \in 1 .. 23 /\ part' \in 1 .. 24 /\ (part' = part \/ part' = part + 1)
    BY Standing, Onward
  <2> QED  BY <2>1
<1>2. part' # 1 /\ part' # 2 /\ part' # 3 /\ ~(part' <= 3)
  BY <1>1
<1>3. \A a, b : ~In(1, a, b)' /\ ~In(2, a, b)' /\ ~In(3, a, b)'
  BY <1>2 DEF In
<1> QED  BY <1>2, <1>3 DEF AnswersInv

\* The reading of an answer.
LEMMA AnswersRead ==
    ASSUME Ps2Inv, GetStatus
    PROVE  AnswersInv'
<1>0. /\ TypeInv /\ AnswersInv /\ PlaceType /\ ports' = ports /\ ports \in {1, 2}
      /\ ~Done /\ Advance /\ Waited /\ pending' = pending /\ config' = config /\ status' = port /\ ~full'
  BY DEF Ps2Inv, TypeInv, ValueTypes, GetStatus, ReadStatus, At, deviceVars
<1>1. CASE In(1, 5, 5) \/ In(1, 9, 9) \/ In(2, 3, 3) \/ In(3, 2, 2)
  <2>1. ports = 2 \/ ~In(2, 3, 3)
    <3>1. In(2, 3, 3) => is_dual_device
      BY <1>0, Standing, WritePlaces, SinglePlaces DEF GetStatus, At, In
    <3> QED  BY <3>1 DEF Ps2Inv, DualInv
  <2>2. Outstanding(config) /\ pending[2] = <<>>
    BY <1>0, <1>1, <2>1 DEF AnswersInv, In
  <2>3. Quiescent' /\ status' = config' /\ pending'[2] = <<>>
    BY <1>0, <2>2, Prompt DEF Quiescent
  <2>4. In(1, 6, 6)' \/ In(1, 10, 10)' \/ In(2, 4, 4)' \/ In(3, 3, 3)'
    BY <1>0, <1>1, Onward DEF In, LinesOf
  <2> QED  BY <2>3, <2>4 DEF AnswersInv, In
<1>2. CASE In(1, 12, 12)
  <2>1. Outstanding(85) /\ pending[2] = <<>>
    BY <1>0, <1>2 DEF AnswersInv, In
  <2>2. Quiescent' /\ pending'[2] = <<>>
    BY <1>0, <2>1, Prompt DEF Quiescent
  <2>3. In(2, 1, 1)'
    BY <1>0, <1>2, Onward DEF In, LinesOf
  <2> QED  BY <2>2, <2>3 DEF AnswersInv, In
<1>3. CASE part >= 5
  BY <1>0, <1>3, Running DEF PlaceType
<1> QED  BY <1>0, <1>1, <1>2, <1>3, OtherPlaces DEF In


LEMMA AnswersStep ==
    ASSUME Ps2Inv, Next
    PROVE  AnswersInv'
<1>0. /\ TypeInv /\ ConfigInv /\ AnswersInv /\ DualInv /\ PlaceType
      /\ ports' = ports /\ ports \in {1, 2} /\ pending \in [0 .. 2 -> Seq(Bytes)]
  BY Moves DEF Ps2Inv, TypeInv, ValueTypes
<1>1. ASSUME ~Done, Advance, part >= 4 PROVE AnswersInv'
  BY <1>0, <1>1, Running
\* The place, the configuration and the answers stay.
<1>2. ASSUME UNCHANGED <<pcVars, status, port, full, config>>, pending'[0] = pending[0],
             part <= 3 => pending'[2] = pending[2]
      PROVE  AnswersInv'
  <2>1. part' = part /\ line' = line /\ status' = status /\ port' = port /\ full' = full /\ config' = config
    BY <1>2 DEF pcVars
  <2>2. Quiescent' = Quiescent /\ Outstanding(config)' = Outstanding(config) /\ Outstanding(85)' = Outstanding(85)
    BY <1>2, <2>1 DEF Quiescent, Outstanding
  <2> QED  BY <1>0, <1>2, <2>1, <2>2 DEF AnswersInv, In
<1>3. CASE SkipDual
  <2>0. ~Done /\ Advance /\ ~is_dual_device /\ pending' = pending /\ full' = full
    BY <1>3 DEF SkipDual, controllerVars
  <2>1. ports = 1
    BY <1>0, <1>3, <2>0, OtherPlaces DEF DualInv, In
  <2>2. CASE part = 2
    <3>1. Quiescent /\ pending[2] = <<>>
      BY <1>0, <2>1, <2>2 DEF AnswersInv, In, PlaceType, LinesOf
    <3>2. Quiescent' /\ pending'[2] = <<>>
      BY <2>0, <3>1 DEF Quiescent
    <3>3. part' = 2 \/ In(3, 1, 1)'
      BY <1>0, <2>0, <2>2, Onward DEF In, LinesOf
    <3> QED  BY <1>0, <2>1, <3>2, <3>3 DEF AnswersInv, In
  <2>3. CASE In(3, 6, 6)
    <3>1. part' = 4
      BY <1>0, <2>0, <2>3, Onward DEF In, LinesOf
    <3> QED  BY <3>1 DEF AnswersInv, In
  <2>4. part = 2 \/ part >= 4 \/ In(3, 6, 6)
    <3>1. \/ part = 2 \/ part \in 8 .. 22 \/ In(3, 6, 6) \/ part \in {4, 5, 23} \/ part = 6 \/ part = 7
      BY <1>0, <1>3, SkipPlaces
    <3> QED  BY <3>1
  <2> QED  BY <1>1, <2>0, <2>2, <2>3, <2>4
<1>4. CASE OutCmd
  BY <1>4, AnswersCommand
<1>5. CASE OutData
  BY <1>0, <1>1, <1>5, OtherPlaces DEF OutData, At
<1>6. CASE WriteConfig
  <2>0. ~Done /\ Advance /\ pending' = pending /\ full' = full
    BY <1>6 DEF WriteConfig, At
  <2>1. CASE In(1, 7, 7)
    <3>1. Quiescent /\ pending[2] = <<>> /\ In(1, 8, 8)'
      BY <1>0, <2>0, <2>1, Onward DEF AnswersInv, In, LinesOf
    <3>2. Quiescent' /\ pending'[2] = <<>>
      BY <2>0, <3>1 DEF Quiescent
    <3> QED  BY <3>1, <3>2 DEF AnswersInv, In
  <2>2. CASE In(3, 4, 4)
    <3>1. pending[2] = <<>> /\ In(3, 5, 5)'
      BY <1>0, <2>0, <2>2, Onward DEF AnswersInv, In, LinesOf
    <3> QED  BY <2>0, <3>1 DEF AnswersInv, In
  <2> QED  BY <1>0, <1>6, <2>1, <2>2, CommandPlaces
<1>7. CASE DummyReads
  <2>0. ~Done /\ Advance /\ pending' = pending /\ ~full'
    BY <1>7 DEF DummyReads, At
  <2>3. In(1, 3, 3)
    BY <1>0, <1>7, OtherPlaces DEF In
  <2>1. pending[0] = <<>> /\ pending[2] = <<>> /\ In(1, 4, 4)'
    BY <1>0, <2>0, <2>3, Onward DEF AnswersInv, In, LinesOf
  <2> QED  BY <2>0, <2>1 DEF AnswersInv, In, Quiescent
<1>8. CASE GetStatus
  BY <1>8, AnswersRead
<1>9. CASE NoMore
  BY <1>0, <1>1, <1>9, OtherPlaces DEF NoMore, At
<1>10. CASE AwaitAck
  <2>1. part' = part \/ (~Done /\ Advance)
    BY <1>10, Moves DEF pcVars
  <2>2. part \in 4 .. 24
    BY <1>0, <1>10, OtherPlaces DEF PlaceType
  <2>3. CASE part' = part
    BY <2>2, <2>3 DEF AnswersInv, In
  <2> QED  BY <1>1, <2>1, <2>2, <2>3
<1>11. CASE mouse_read
  <2>1. ~Done /\ Advance
    BY <1>11 DEF mouse_read, At
  <2>2. part \in Nat /\ part >= 8
    BY <1>0, <1>11, OtherPlaces DEF PlaceType
  <2>3. part >= 4
    BY <2>2
  <2> QED  BY <1>1, <2>1, <2>3
<1>12. CASE CheckDual
  <2>0. ~Done /\ Advance /\ pending' = pending /\ full' = full
    BY <1>12 DEF CheckDual, At, controllerVars
  <2>1. Quiescent /\ pending[2] = <<>> /\ (In(1, 11, 11)' \/ In(2, 5, 5)')
    BY <1>0, <1>12, <2>0, OtherPlaces, Onward DEF AnswersInv, In, LinesOf
  <2>2. Quiescent' /\ pending'[2] = <<>>
    BY <2>0, <2>1 DEF Quiescent
  <2> QED  BY <2>1, <2>2 DEF AnswersInv, In
<1>13. CASE CheckIdentity
  BY <1>0, <1>1, <1>13, OtherPlaces DEF CheckIdentity, At, PlaceType
<1>14. CASE \E s \in 0 .. 2 : Deliver(s)
  <2>1. PICK s \in 0 .. 2 : Deliver(s)
    BY <1>14
  <2>2. /\ ~full /\ full' /\ CanSend(s) /\ port' = Head(pending[s]) /\ UNCHANGED <<pcVars, status, config>>
        /\ pending' = [pending EXCEPT ![s] = Tail(pending[s])]
    BY <2>1 DEF Deliver, kernelVars
  <2>3. part' = part /\ line' = line
    BY <2>2 DEF pcVars
  <2>4. CASE part >= 4
    BY <1>0, <2>3, <2>4 DEF AnswersInv, In, PlaceType
  <2>5. CASE part <= 3
    <3>1. s # 2 /\ pending'[2] = <<>>
      BY <1>0, <2>2, <2>5 DEF AnswersInv, CanSend
    <3>2. CASE In(1, 1, 3) \/ In(3, 5, 6)
      <4>1. In(1, 1, 3) => pending'[0] = <<>>
        BY <1>0, <2>2 DEF AnswersInv, CanSend
      <4> QED  BY <2>3, <3>1, <3>2, <4>1 DEF AnswersInv, In
    <3>3. CASE ~In(1, 1, 3) /\ ~In(3, 5, 6)
      <4>1. Bit(config, 16)
        <5>1. config \in {16, 48, 81, 83, 113, 115}
          BY <1>0, <2>5, <3>3 DEF ConfigInv, OnePortConfig, TwoPortConfig, In, PlaceType, LinesOf
        <5> QED  BY <5>1, Bits
      <4>2. s = 0 /\ pending[0] # <<>>
        BY <2>2, <3>1, <4>1 DEF CanSend
      <4>3. ASSUME NEW b, Outstanding(b)
            PROVE  full' /\ port' = b /\ pending'[0] = <<>>
        <5>1. pending[0] = <<b>>
          BY <2>2, <4>3 DEF Outstanding
        <5>2. Head(<<b>>) = b /\ Tail(<<b>>) = <<>>
          OBVIOUS
        <5> QED  BY <1>0, <2>2, <4>2, <5>1, <5>2
      <4>4. ~Quiescent
        BY <4>2 DEF Quiescent
      <4>5. Outstanding(config) => Outstanding(config)'
        BY <2>2, <4>3 DEF Outstanding
      <4>6. Outstanding(85) => Outstanding(85)'
        BY <4>3 DEF Outstanding
      <4> QED  BY <1>0, <2>2, <2>3, <3>1, <3>3, <4>4, <4>5, <4>6 DEF AnswersInv, In
    <3> QED  BY <3>2, <3>3
  <2> QED  BY <1>0, <2>4, <2>5 DEF PlaceType
<1>15. CASE \E k \in Keys : PressKey(k)
  BY <1>0, <1>2, <1>15 DEF PressKey, kernelVars, controllerVars
<1> QED  BY <1>3, <1>4, <1>5, <1>6, <1>7, <1>8, <1>9, <1>10, <1>11, <1>12, <1>13, <1>14, <1>15
         DEF Next, Kernel

-----------------------------------------------------------------------------
(* Who takes the next data byte, and what for.                             *)

LEMMA ForMouseNext ==
    ASSUME TypeInv, ~Done, Advance
    PROVE  /\ ForMouse' <=> Here.op = "cmd" /\ Here.byte = 212
           /\ ForMouse => Here.op = "data"
           /\ ForMouse' => Here.dual
<1>1. Place /\ part \in 1 .. 23 /\ line \in 1 .. LinesOf(part)
  BY Standing
<1>2. \/ line < LinesOf(part) /\ part' = part /\ line' = line + 1
      \/ line = LinesOf(part) /\ part' = part + 1 /\ line' = 1
  BY Onward
<1>3. ForMouse' <=> \/ part \in {4, 23} /\ line = 3
                    \/ part = 6 /\ line = 4
                    \/ part = 7 /\ line = 5
                    \/ part \in 8 .. 22 /\ line = 1
  BY <1>1, <1>2 DEF ForMouse, LinesOf
<1>4. /\ part \in {4, 23} /\ line = 3 => Here.op = "cmd" /\ Here.byte = 212 /\ Here.dual
      /\ part = 6 /\ line = 4 => Here.op = "cmd" /\ Here.byte = 212 /\ Here.dual
      /\ part = 7 /\ line = 5 => Here.op = "cmd" /\ Here.byte = 212 /\ Here.dual
      /\ part \in 8 .. 22 /\ line = 1 => Here.op = "cmd" /\ Here.byte = 212 /\ Here.dual
  BY <1>1, WritePlaces, PlaceBytes
<1>5. Here.op = "cmd" /\ Here.byte = 212 => \/ part \in {4, 23} /\ line = 3
                                            \/ part = 6 /\ line = 4
                                            \/ part = 7 /\ line = 5
                                            \/ part \in 8 .. 22 /\ line = 1
  BY <1>1, WritePlaces, PlaceBytes
<1>6. ForMouse => Here.op = "data"
  BY <1>1, WritePlaces DEF ForMouse
<1> QED  BY <1>3, <1>4, <1>5, <1>6

\* The ops, as the actions ask for them.
LEMMA NoWrite ==
    ASSUME Kernel, ~SkipDual, ~OutCmd, ~OutData
    PROVE  Here.op # "cmd" /\ Here.op # "data"
  BY DEF Kernel, WriteConfig, DummyReads, GetStatus, NoMore, AwaitAck, mouse_read, CheckDual, CheckIdentity, At

LEMMA TargetStep ==
    ASSUME Ps2Inv, Next
    PROVE  TargetInv'
<1>0. /\ TypeInv /\ TargetInv /\ DualInv /\ ports' = ports /\ ports \in {1, 2}
  BY Moves DEF Ps2Inv, TypeInv, ValueTypes
<1>1. CASE OutCmd
  <2>0. ~Done /\ Advance /\ Here.op = "cmd" /\ (Here.dual => is_dual_device)
    BY <1>1 DEF OutCmd, At
  <2>1. ForMouse' <=> Here.byte = 212
    BY <1>0, <2>0, ForMouseNext
  <2>2. ~ForMouse
    BY <1>0, <2>0, ForMouseNext
  <2>3. target' = CASE Here.byte = 96 -> "config" [] Here.byte = 212 -> "mouse" [] OTHER -> target
    BY <1>1, Codes DEF OutCmd, ControllerTakes
  <2>4. CASE Here.byte = 212
    <3>1. ports' = 2
      BY <1>0, <2>0, <2>1, <2>4, ForMouseNext DEF DualInv
    <3> QED  BY <2>1, <2>3, <2>4, <3>1 DEF TargetInv
  <2>5. CASE Here.byte # 212
    <3>1. target # "mouse" /\ ~ForMouse'
      BY <1>0, <2>1, <2>2, <2>5 DEF TargetInv
    <3> QED  BY <2>3, <2>5, <3>1 DEF TargetInv
  <2> QED  BY <2>4, <2>5
<1>2. CASE OutData
  <2>0. ~Done /\ Advance /\ Here.op = "data" /\ target' = "keyboard"
    BY <1>2 DEF OutData, At
  <2>1. ~ForMouse'
    BY <1>0, <2>0, ForMouseNext
  <2> QED  BY <2>0, <2>1 DEF TargetInv
<1>3. CASE SkipDual
  <2>1. ports = 1 /\ target' = target
    BY <1>0, <1>3, OtherPlaces DEF DualInv, In, SkipDual, controllerVars
  <2> QED  BY <1>0, <2>1 DEF TargetInv
<1>4. CASE UNCHANGED pcVars /\ ~OutCmd /\ ~OutData
  <2>1. target' = target \/ WriteConfig
    BY <1>4 DEF Next, Kernel, SkipDual, DummyReads, GetStatus, NoMore, AwaitAck, ReadStatus,
         mouse_read, CheckDual, CheckIdentity, Deliver, PressKey, controllerVars
  <2>2. ~WriteConfig
    <3>1. WriteConfig => ~Done /\ Advance
      BY DEF WriteConfig, At
    <3> QED  BY <1>0, <1>4, <3>1, Onward DEF pcVars, TypeInv, PlaceType
  <2>3. ForMouse' <=> ForMouse
    BY <1>4 DEF ForMouse, pcVars
  <2> QED  BY <1>0, <2>1, <2>2, <2>3 DEF TargetInv
<1>5. CASE ~UNCHANGED pcVars /\ ~OutCmd /\ ~OutData /\ ~SkipDual
  <2>1. ~Done /\ Advance
    BY <1>5, Moves
  <2>2. Kernel
    BY <1>5 DEF Next, Deliver, PressKey
  <2>3. ~ForMouse /\ ~ForMouse'
    BY <1>0, <1>5, <2>1, <2>2, ForMouseNext, NoWrite
  <2>4. target' \in {target, "keyboard"}
    BY <1>5, <2>2 DEF Kernel, DummyReads, GetStatus, NoMore, AwaitAck, ReadStatus, WriteConfig,
         mouse_read, CheckDual, CheckIdentity, controllerVars
  <2> QED  BY <1>0, <2>3, <2>4 DEF TargetInv
<1> QED  BY <1>1, <1>2, <1>3, <1>4, <1>5

LEMMA RateNext ==
    ASSUME TypeInv, ~Done, Advance
    PROVE  /\ Here.op # "data" => (RatePlace' <=> RatePlace)
           /\ Here.op = "data" => (RatePlace' <=> part \in Knocks) /\ (RatePlace => part \in Rates)
<1>1. Place /\ part \in 1 .. 23 /\ line \in 1 .. LinesOf(part)
  BY Standing
<1>2. \/ line < LinesOf(part) /\ part' = part /\ line' = line + 1
      \/ line = LinesOf(part) /\ part' = part + 1 /\ line' = 1
  BY Onward
<1>3. RatePlace' <=> (part \in Knocks /\ line >= 2) \/ (part \in Rates /\ line = 1)
  <2>1. CASE part \in Knocks
    BY <1>1, <1>2, <2>1 DEF RatePlace, LinesOf, Knocks, Rates
  <2>2. CASE part \in Rates
    BY <1>1, <1>2, <2>2 DEF RatePlace, LinesOf, Knocks, Rates
  <2>3. CASE part \notin Knocks /\ part \notin Rates
    BY <1>1, <1>2, <2>3 DEF RatePlace, LinesOf, Knocks, Rates
  <2> QED  BY <2>1, <2>2, <2>3
<1>4. /\ part \in Knocks => (Here.op = "data" <=> line = 2) /\ part \notin Rates
      /\ part \in Rates => (Here.op = "data" <=> line = 2)
      /\ part \in Knocks \cup Rates => line \in 1 .. 3
  BY <1>1, WritePlaces DEF Knocks, Rates, LinesOf
<1> QED  BY <1>3, <1>4 DEF RatePlace

\* What the data bytes are.
LEMMA DataBytes ==
    ASSUME TypeInv, OutData
    PROVE  /\ Here.op = "data" /\ ~Done /\ Advance /\ (Here.dual => is_dual_device)
           /\ (Here.byte = 243 <=> part \in Knocks) \/ part \in Rates
           /\ Here.byte = 244 <=> part = 23
           /\ Here.byte \in {245, 255} => part <= 8
           /\ (part \in {4, 6, 7, 23} /\ line = 1) \/ ForMouse
<1>1. Here.op = "data" /\ ~Done /\ Advance /\ Place /\ (Here.dual => is_dual_device)
  BY Standing DEF OutData, At
<1>2. \/ part \in {4, 23} /\ line \in {1, 4}
      \/ part = 6 /\ line \in {1, 5}
      \/ part = 7 /\ line \in {1, 6}
      \/ part \in 8 .. 22 /\ line = 2
  BY <1>1, WritePlaces
<1>3. /\ part = 4 => Here.byte = 245
      /\ part = 6 => Here.byte = 255
      /\ part = 7 => Here.byte = 242
      /\ part = 23 => Here.byte = 244
      /\ part \in {8, 15, 22} => Here.byte = 242
      /\ part \in Knocks => Here.byte = 243
      /\ part \in Rates => Here.byte \in {200, 100, 80}
  BY <1>1, <1>2, PlaceBytes DEF Knocks, Rates
<1>4. part \in {4, 6, 7, 23, 8, 15, 22} \/ part \in Knocks \/ part \in Rates
  BY <1>2 DEF Knocks, Rates
<1>5. (Here.byte = 243 <=> part \in Knocks) \/ part \in Rates
  BY <1>3, <1>4 DEF Knocks, Rates
<1>6. Here.byte = 244 <=> part = 23
  BY <1>3, <1>4 DEF Knocks, Rates
<1>7. Here.byte \in {245, 255} => part <= 8
  BY <1>3, <1>4 DEF Knocks, Rates
<1>8. (part \in {4, 6, 7, 23} /\ line = 1) \/ ForMouse
  BY <1>2 DEF ForMouse
<1> QED  BY <1>1, <1>5, <1>6, <1>7, <1>8

LEMMA RateStep ==
    ASSUME Ps2Inv, Next
    PROVE  RateInv'
<1>0. /\ TypeInv /\ TargetInv /\ DualInv /\ RateInv /\ ports' = ports /\ ports \in {1, 2} /\ mouse \in Mouse
  BY Moves DEF Ps2Inv, TypeInv, ValueTypes
<1>1. CASE OutData
  <2>1. Here.op = "data" /\ ~Done /\ Advance
    BY <1>0, <1>1, DataBytes
  <2>2. CASE target = "mouse"
    <3>1. ports = 2 /\ MouseTakes(Here.byte)
      BY <1>0, <1>1, <2>2 DEF OutData, TargetInv
    <3>2. CASE mouse.expects_rate
      <4>1. part \in Rates /\ part \notin Knocks
        BY <1>0, <2>1, <3>2, RateNext DEF RateInv, Knocks, Rates
      <4>2. ~mouse'.expects_rate
        BY <1>0, <3>1, <3>2 DEF MouseTakes, Mouse
      <4> QED  BY <1>0, <2>1, <4>1, <4>2, RateNext DEF RateInv
    <3>3. CASE ~mouse.expects_rate
      <4>1. mouse'.expects_rate = (Here.byte = 243)
        BY <1>0, <3>1, <3>3, Codes DEF MouseTakes, Mouse
      <4>2. ForMouse
        BY <1>0, <2>2 DEF TargetInv
      <4>3. part \notin Rates
        BY <1>0, <3>1, <3>3, <4>2 DEF RateInv, RatePlace, ForMouse, Rates
      <4> QED  BY <1>0, <1>1, <2>1, <3>1, <4>1, <4>3, DataBytes, RateNext DEF RateInv
    <3> QED  BY <3>2, <3>3
  <2>3. CASE target # "mouse"
    <3>1. mouse' = mouse
      BY <1>1, <2>3 DEF OutData, KeyboardTakes
    <3>2. CASE ports = 1
      BY <1>0, <3>1, <3>2 DEF RateInv
    <3>3. CASE ports = 2
      <4>1. part \notin Knocks /\ part \notin Rates
        BY <1>0, <1>1, <2>3, <3>3, DataBytes DEF TargetInv, Knocks, Rates
      <4> QED  BY <1>0, <2>1, <3>1, <4>1, RateNext DEF RateInv
    <3> QED  BY <1>0, <3>2, <3>3
  <2> QED  BY <2>2, <2>3
<1>2. CASE ~OutData
  <2>1. mouse' = mouse
    BY <1>2 DEF Next, Kernel, SkipDual, OutCmd, WriteConfig, DummyReads, GetStatus, NoMore, AwaitAck,
         ReadStatus, mouse_read, CheckDual, CheckIdentity, Deliver, PressKey, deviceVars
  <2>2. CASE UNCHANGED pcVars
    BY <1>0, <2>1, <2>2 DEF RateInv, RatePlace, pcVars
  <2>3. CASE ~UNCHANGED pcVars
    <3>1. ~Done /\ Advance /\ Kernel
      BY <2>3, Moves DEF Next, Deliver, PressKey
    <3>2. CASE SkipDual
      <4>1. ports = 1
        BY <1>0, <3>2, OtherPlaces DEF DualInv, In, SkipDual
      <4> QED  BY <1>0, <2>1, <4>1 DEF RateInv
    <3>3. CASE ~SkipDual
      <4>1. Here.op # "data"
        BY <1>2, <3>1, <3>3, NoWrite DEF OutCmd, At
      <4> QED  BY <1>0, <2>1, <3>1, <4>1, RateNext DEF RateInv
    <3> QED  BY <3>2, <3>3
  <2> QED  BY <2>2, <2>3
<1> QED  BY <1>1, <1>2

LEMMA StreamStep ==
    ASSUME Ps2Inv, Next
    PROVE  StreamInv'
<1>0. /\ TypeInv /\ TargetInv /\ DualInv /\ RateInv /\ StreamInv /\ PlaceType
      /\ ports' = ports /\ ports \in {1, 2}
  BY Moves DEF Ps2Inv, TypeInv, ValueTypes
<1>1. CASE OutData
  <2>1. Here.op = "data" /\ ~Done /\ Advance
    BY <1>0, <1>1, DataBytes
  <2>2. CASE target = "mouse"
    <3>1. ports = 2 /\ MouseTakes(Here.byte) /\ ForMouse
      BY <1>0, <1>1, <2>2 DEF OutData, TargetInv
    <3>2. streaming' \subseteq 1 .. ports /\ (1 \in streaming => 1 \in streaming')
      BY <1>0, <3>1 DEF MouseTakes, Streaming, StreamInv
    <3>3. CASE part = 23
      <4>1. ~mouse.expects_rate
        BY <1>0, <3>3 DEF RateInv, RatePlace, Knocks, Rates
      <4>2. 2 \in streaming'
        BY <1>0, <1>1, <3>1, <3>3, <4>1, DataBytes, Codes DEF MouseTakes, Streaming
      <4>3. In(23, 4, 4)
        BY <3>1, <3>3 DEF ForMouse, In
      <4> QED  BY <1>0, <3>2, <4>2, <4>3 DEF StreamInv, In
    <3>4. CASE part # 23
      <4>1. ~In(23, 2, 5)' /\ part' # 24
        BY <1>0, <2>1, <3>1, <3>4, Onward DEF In, ForMouse, LinesOf
      <4>2. ~In(23, 5, 5)'
        BY <4>1 DEF In
      <4> QED  BY <1>0, <3>2, <4>1, <4>2 DEF StreamInv
    <3> QED  BY <3>3, <3>4
  <2>3. CASE target # "mouse"
    <3>1. Streaming(1, Here.byte) /\ line = 1 /\ part \in {4, 6, 7, 23}
      <4>1. ports = 2 => ~ForMouse
        BY <1>0, <2>3 DEF TargetInv
      <4>2. ports = 1 => ~Here.dual
        <5>0. ports = 1 => ~(ports = 2)
          OBVIOUS
        <5>1. ports = 1 => ~is_dual_device
          BY <1>0, <5>0 DEF DualInv
        <5> QED  BY <1>0, <1>1, <5>1, DataBytes
      <4>3. ForMouse => Here.dual
        BY <1>0, <2>1, Standing, WritePlaces DEF ForMouse
      <4> QED  BY <1>0, <1>1, <2>3, <4>1, <4>2, <4>3, DataBytes DEF OutData, KeyboardTakes
    <3>2. streaming' \subseteq 1 .. ports
      BY <1>0, <3>1 DEF Streaming, StreamInv
    <3>3. part = 23 => 1 \in streaming'
      BY <1>0, <1>1, <3>1, DataBytes, Codes DEF Streaming
    <3>4. ~In(23, 5, 5)' /\ part' # 24 /\ (part # 23 => ~In(23, 2, 5)')
      BY <1>0, <2>1, <3>1, Onward DEF In, LinesOf
    <3> QED  BY <1>0, <3>2, <3>3, <3>4 DEF StreamInv
  <2> QED  BY <2>2, <2>3
<1>2. CASE ~OutData
  <2>1. streaming' = streaming
    BY <1>2 DEF Next, Kernel, SkipDual, OutCmd, WriteConfig, DummyReads, GetStatus, NoMore, AwaitAck,
         ReadStatus, mouse_read, CheckDual, CheckIdentity, Deliver, PressKey, deviceVars
  <2>2. CASE UNCHANGED pcVars
    BY <1>0, <2>1, <2>2 DEF StreamInv, In, pcVars
  <2>3. CASE ~UNCHANGED pcVars
    <3>1. ~Done /\ Advance /\ Kernel
      BY <2>3, Moves DEF Next, Deliver, PressKey
    <3>2. In(23, 2, 5)' \/ part' = 24 => In(23, 1, 5)
      BY <1>0, <3>1, Onward DEF In, LinesOf, PlaceType
    <3>3. In(23, 5, 5)' \/ part' = 24 => In(23, 4, 5)
      BY <1>0, <3>1, Onward DEF In, LinesOf, PlaceType
    <3>4. ~In(23, 1, 1)
      <4>1. In(23, 1, 1) => Here.op = "data" /\ ~Here.dual
        BY <1>0, <3>1, Standing, WritePlaces DEF In
      <4> QED  BY <1>2, <3>1, <4>1, NoWrite DEF OutCmd, At, SkipDual
    <3>5. ports = 2 => ~In(23, 4, 4)
      <4>1. In(23, 4, 4) => Here.op = "data"
        BY <1>0, <3>1, Standing, WritePlaces DEF In
      <4>2. SkipDual => ports = 1
        BY <1>0, OtherPlaces DEF DualInv, In, SkipDual
      <4> QED  BY <1>0, <1>2, <3>1, <4>1, <4>2, NoWrite DEF OutCmd, At
    <3> QED  BY <1>0, <2>1, <3>2, <3>3, <3>4, <3>5 DEF StreamInv, In, PlaceType
  <2> QED  BY <2>2, <2>3
<1> QED  BY <1>1, <1>2

-----------------------------------------------------------------------------
(* Identities.                                                             *)

Blameless(bytes) == \A i \in 1 .. Len(bytes) : Innocent(bytes[i])

LEMMA Joined ==
    ASSUME NEW s \in Seq(Bytes), NEW t \in Seq(Bytes), Blameless(s), Blameless(t)
    PROVE  Blameless(s \o t)
<1> SUFFICES ASSUME NEW i \in 1 .. Len(s \o t) PROVE Innocent((s \o t)[i])
  BY DEF Blameless
<1>1. Len(s) \in Nat /\ Len(t) \in Nat /\ Len(s \o t) = Len(s) + Len(t)
  OBVIOUS
<1>2. CASE i <= Len(s)
  <2>1. (s \o t)[i] = s[i] /\ i \in 1 .. Len(s)
    BY <1>1, <1>2
  <2> QED  BY <2>1 DEF Blameless
<1>3. CASE i > Len(s)
  <2>1. (s \o t)[i] = t[i - Len(s)] /\ i - Len(s) \in 1 .. Len(t)
    BY <1>1, <1>3
  <2> QED  BY <2>1 DEF Blameless
<1> QED  BY <1>1, <1>2, <1>3

\* Without a key no answer holds a 3 or a 4 but the mouse's own identity.
LEMMA BlamelessAnswers ==
    ASSUME TypeInv, ConfigInv, mouse.id = 0, NEW b \in Bytes
    PROVE  Blameless(ControllerAnswer(b)) /\ Blameless(KeyboardAnswer(b)) /\ Blameless(MouseAnswer(b))
           /\ Blameless(<<PS2_ACK_BYTE>>) /\ Blameless(<<>>)
<1>1. Blameless(<<config>>)
  BY ConfigValue DEF Blameless, Innocent
<1>2. Blameless(<<85>>) /\ Blameless(<<0>>) /\ Blameless(<<>>) /\ Blameless(<<250>>)
  BY DEF Blameless, Innocent
<1>3. Blameless(<<250, 170>>) /\ Blameless(<<250, 171, 65>>) /\ Blameless(<<250, 170, 0>>)
      /\ Blameless(<<250, 0>>)
  BY DEF Blameless, Innocent
<1>4. PS2_ACK_BYTE = 250
  BY Codes
<1>5. Blameless(ControllerAnswer(b))
  BY <1>1, <1>2 DEF ControllerAnswer
<1>6. Blameless(KeyboardAnswer(b)) /\ Blameless(MouseAnswer(b))
  BY <1>2, <1>3, <1>4 DEF KeyboardAnswer, MouseAnswer
<1> QED  BY <1>2, <1>4, <1>5, <1>6

\* Being switched to the first mode is for good, but for a reset in part 6.
LEMMA IdentityStep ==
    ASSUME Ps2Inv, Next
    PROVE  /\ part' <= 8 => mouse'.id = 0
           /\ mouse'.id = 0 => mouse.id = 0
<1>0. /\ TypeInv /\ TargetInv /\ RateInv /\ PlaceType /\ ModeInv /\ mouse \in Mouse
  BY DEF Ps2Inv, TypeInv, ValueTypes
<1>1. part' \in Nat /\ part \in Nat /\ (part' = part \/ part' = part + 1)
  BY <1>0, Moves, Onward DEF pcVars, PlaceType
<1>2. CASE OutData /\ target = "mouse"
  <2>1. MouseTakes(Here.byte)
    BY <1>2 DEF OutData
  <2>2. CASE mouse.expects_rate
    <3>1. part >= 9
      BY <1>0, <2>2 DEF RateInv, RatePlace, Knocks, Rates
    <3>2. mouse'.id = Identity(mouse, Recent(mouse.rates, Here.byte))
      BY <1>0, <2>1, <2>2 DEF MouseTakes, Mouse
    <3>3. mouse'.id \in {3, 4, mouse.id}
      BY <3>2 DEF Identity
    <3>4. ~(part' <= 8)
      BY <1>1, <3>1
    <3>5. mouse'.id = 0 => mouse.id = 0
      BY <3>3
    <3> QED  BY <3>4, <3>5
  <2>3. CASE ~mouse.expects_rate
    <3>0. mouse' = [mouse EXCEPT !.rates = IF Here.byte = RESET THEN <<>> ELSE @,
                                 !.id = IF Here.byte = RESET THEN 0 ELSE @,
                                 !.expects_rate = (Here.byte = SET_SAMPLE_RATE)]
      BY <2>1, <2>3 DEF MouseTakes
    <3>1. mouse'.id = IF Here.byte = 255 THEN 0 ELSE mouse.id
      BY <1>0, <3>0, Codes DEF Mouse
    <3>2. Here.byte = 255 => part <= 8
      BY <1>0, <1>2, DataBytes
    <3> QED  BY <1>0, <1>1, <3>1, <3>2 DEF ModeInv
  <2> QED  BY <2>2, <2>3
<1>3. CASE ~(OutData /\ target = "mouse")
  <2>1. mouse' = mouse
    BY <1>3 DEF Next, Kernel, SkipDual, OutCmd, OutData, KeyboardTakes, WriteConfig, DummyReads, GetStatus,
         NoMore, AwaitAck, ReadStatus, mouse_read, CheckDual, CheckIdentity, Deliver, PressKey, deviceVars
  <2> QED  BY <1>0, <1>1, <2>1 DEF ModeInv
<1> QED  BY <1>2, <1>3

LEMMA PendingStep ==
    ASSUME Ps2Inv, Next, keys' = 0, mouse.id = 0,
           \A s \in 0 .. 2 : Blameless(pending[s])
    PROVE  \A s \in 0 .. 2 : Blameless(pending'[s])
<1>0. /\ TypeInv /\ ConfigInv /\ pending \in [0 .. 2 -> Seq(Bytes)] /\ keys \in Nat
  BY DEF Ps2Inv, TypeInv, ValueTypes
<1>1. CASE OutCmd
  <2>1. Here.byte \in Bytes /\ ControllerTakes(Here.byte)
    BY <1>0, <1>1, PlaceByte DEF OutCmd
  <2>2. Blameless(pending[0] \o ControllerAnswer(Here.byte))
    BY <1>0, <2>1, AnswerTypes, BlamelessAnswers, Joined
  <2> QED  BY <1>0, <2>1, <2>2 DEF ControllerTakes
<1>2. ASSUME NEW dev \in {1, 2}, NEW bytes \in Seq(Bytes), Blameless(bytes), Answer(dev, bytes)
      PROVE  \A s \in 0 .. 2 : Blameless(pending'[s])
  <2> DEFINE kept == IF drops THEN <<>> ELSE pending[dev]
  <2>1. kept \in Seq(Bytes) /\ Blameless(kept)
    BY <1>0 DEF Blameless
  <2>2. Blameless(kept \o bytes)
    BY <2>1, <1>2, Joined
  <2>3. pending' = [pending EXCEPT ![dev] = kept \o bytes]
    BY <1>2 DEF Answer
  <2> QED  BY <1>0, <2>2, <2>3
<1>3. CASE OutData
  <2>1. Here.byte \in Bytes
    BY <1>0, <1>3, PlaceByte DEF OutData
  <2>2. /\ KeyboardAnswer(Here.byte) \in Seq(Bytes) /\ MouseAnswer(Here.byte) \in Seq(Bytes)
        /\ <<PS2_ACK_BYTE>> \in Seq(Bytes)
    BY <1>0, <2>1, AnswerTypes
  <2>3. /\ Blameless(KeyboardAnswer(Here.byte)) /\ Blameless(MouseAnswer(Here.byte))
        /\ Blameless(<<PS2_ACK_BYTE>>)
    BY <1>0, <2>1, BlamelessAnswers
  <2>4. \/ Answer(1, KeyboardAnswer(Here.byte)) \/ Answer(2, MouseAnswer(Here.byte))
        \/ Answer(2, <<PS2_ACK_BYTE>>)
    BY <1>3 DEF OutData, KeyboardTakes, MouseTakes
  <2> QED  BY <1>2, <2>2, <2>3, <2>4
<1>4. CASE \E s \in 0 .. 2 : Deliver(s)
  <2>1. PICK s \in 0 .. 2 : Deliver(s)
    BY <1>4
  <2>2. pending[s] \in Seq(Bytes) /\ pending[s] # <<>> /\ Blameless(pending[s])
    BY <1>0, <2>1 DEF Deliver, CanSend
  <2>3. Blameless(Tail(pending[s]))
    <3>1. \A i \in 1 .. Len(Tail(pending[s])) : i + 1 \in 1 .. Len(pending[s]) /\ Tail(pending[s])[i] = pending[s][i + 1]
      BY <2>2
    <3> QED  BY <2>2, <3>1 DEF Blameless
  <2>4. pending' = [pending EXCEPT ![s] = Tail(pending[s])]
    BY <2>1 DEF Deliver
  <2> QED  BY <1>0, <2>3, <2>4
<1>5. CASE \E k \in Keys : PressKey(k)
  BY <1>0, <1>5 DEF PressKey
<1>6. CASE ~OutCmd /\ ~OutData /\ Kernel
  BY <1>6 DEF Kernel, SkipDual, WriteConfig, DummyReads, GetStatus, NoMore, AwaitAck, ReadStatus,
         mouse_read, CheckDual, CheckIdentity
<1> QED  BY <1>1, <1>3, <1>4, <1>5, <1>6 DEF Next

LEMMA ModeStep ==
    ASSUME Ps2Inv, Next
    PROVE  ModeInv'
<1>0. /\ TypeInv /\ ModeInv /\ PlaceType /\ keys \in Nat /\ pending \in [0 .. 2 -> Seq(Bytes)]
  BY DEF Ps2Inv, TypeInv, ValueTypes
<1> SUFFICES ASSUME keys' = 0, mouse'.id = 0
             PROVE  /\ Innocent(port') /\ Innocent(result') /\ mouse_mode' = 0
                    /\ \A s \in 0 .. 2 : Blameless(pending'[s])
  BY IdentityStep DEF ModeInv, Blameless
<1>1. mouse.id = 0
  BY IdentityStep
<1>2. keys = 0
  BY <1>0 DEF Next, Kernel, SkipDual, OutCmd, OutData, WriteConfig, DummyReads, GetStatus, NoMore, AwaitAck,
         ReadStatus, mouse_read, CheckDual, CheckIdentity, Deliver, PressKey
<1>3. /\ Innocent(port) /\ Innocent(result) /\ mouse_mode = 0
      /\ \A s \in 0 .. 2 : Blameless(pending[s])
  BY <1>0, <1>1, <1>2 DEF ModeInv, Blameless
<1>4. \A s \in 0 .. 2 : Blameless(pending'[s])
  BY <1>1, <1>3, PendingStep
<1>5. Innocent(port')
  <2>1. CASE \E s \in 0 .. 2 : Deliver(s)
    <3>1. PICK s \in 0 .. 2 : Deliver(s)
      BY <2>1
    <3>2. pending[s] \in Seq(Bytes) /\ pending[s] # <<>> /\ port' = Head(pending[s])
      BY <1>0, <3>1 DEF Deliver, CanSend
    <3>3. Head(pending[s]) = pending[s][1] /\ 1 \in 1 .. Len(pending[s])
      BY <3>2
    <3> QED  BY <1>3, <3>2, <3>3 DEF Blameless
  <2>2. CASE ~\E s \in 0 .. 2 : Deliver(s)
    <3>1. port' = port
      BY <2>2 DEF Next, Kernel, SkipDual, OutCmd, OutData, WriteConfig, DummyReads, GetStatus, NoMore, AwaitAck,
         ReadStatus, mouse_read, CheckDual, CheckIdentity, PressKey, controllerVars
    <3> QED  BY <1>3, <3>1
  <2> QED  BY <2>1, <2>2
<1>6. Innocent(result')
  <2>1. result' = result \/ result' = port \/ result' = 0
    BY DEF Next, Kernel, SkipDual, OutCmd, OutData, WriteConfig, DummyReads, GetStatus, NoMore, AwaitAck,
         ReadStatus, mouse_read, CheckDual, CheckIdentity, Deliver, PressKey, kernelVars
  <2> QED  BY <1>3, <2>1 DEF Innocent
<1>7. mouse_mode' = 0
  <2>1. CASE CheckIdentity
    <3>1. Here.byte \in {3, 4}
      BY <1>0, <2>1, Standing, SinglePlaces, PlaceBytes DEF CheckIdentity, At
    <3> QED  BY <1>3, <2>1, <3>1 DEF CheckIdentity, Innocent
  <2>2. CASE ~CheckIdentity
    <3>1. mouse_mode' = mouse_mode
      BY <2>2 DEF Next, Kernel, SkipDual, OutCmd, OutData, WriteConfig, DummyReads, GetStatus, NoMore, AwaitAck,
         ReadStatus, mouse_read, CheckDual, Deliver, PressKey, kernelVars
    <3> QED  BY <1>3, <3>1
  <2> QED  BY <2>1, <2>2
<1> QED  BY <1>4, <1>5, <1>6, <1>7

-----------------------------------------------------------------------------
(* The theorems.                                                           *)

LEMMA InitInv == Init => Ps2Inv
<1> SUFFICES ASSUME Init PROVE Ps2Inv
  OBVIOUS
<1>1. /\ mouse.kind \in {0, 3, 4} /\ mouse.id = 0 /\ mouse.rates = <<>> /\ mouse.expects_rate = FALSE
      /\ mouse \in Mouse
  <2>1. PICK k \in Mice : mouse = [kind |-> k, id |-> 0, rates |-> <<>>, expects_rate |-> FALSE]
    BY DEF Init
  <2>2. k \in {0, 3, 4} /\ <<>> \in Seq(Bytes)
    BY MiceAssumption
  <2> QED  BY <2>1, <2>2 DEF Mouse
<1>2. PlaceType
  BY DEF Init, PlaceType, LinesOf
<1>3. ValueTypes
  <2>1. pending \in [0 .. 2 -> Seq(Bytes)]
    BY DEF Init
  <2>2. drops \in BOOLEAN
    BY SlowAssumption DEF Init
  <2> QED  BY <1>1, <2>1, <2>2 DEF Init, ValueTypes, Bytes
<1>4. DualInv /\ StreamInv /\ TargetInv
  BY DEF Init, DualInv, StreamInv, TargetInv, ForMouse, In
<1>5. ConfigInv
  BY DEF Init, ConfigInv, OnePortConfig, TwoPortConfig, In
<1>6. AnswersInv
  BY DEF Init, AnswersInv, In
<1>7. RateInv
  BY <1>1 DEF Init, RateInv, RatePlace, Knocks, Rates
<1>8. ModeInv
  BY <1>1 DEF Init, ModeInv, Innocent
<1> QED  BY <1>2, <1>3, <1>4, <1>5, <1>6, <1>7, <1>8 DEF Ps2Inv, TypeInv

LEMMA Stutter == ASSUME Ps2Inv, UNCHANGED vars PROVE Ps2Inv'
<1>1. /\ part' = part /\ line' = line /\ status' = status /\ result' = result /\ mouse_mode' = mouse_mode
      /\ is_dual_device' = is_dual_device /\ port' = port /\ full' = full /\ config' = config
      /\ target' = target /\ pending' = pending /\ ports' = ports /\ mouse' = mouse
      /\ streaming' = streaming /\ drops' = drops /\ keys' = keys /\ late' = late
  BY DEF vars, pcVars, kernelVars, controllerVars, deviceVars
<1>2. TypeInv' = TypeInv /\ DualInv' = DualInv
  BY <1>1 DEF TypeInv, PlaceType, ValueTypes, DualInv, In
<1>3. ConfigInv' = ConfigInv
  BY <1>1 DEF ConfigInv, OnePortConfig, TwoPortConfig, In
<1>4. AnswersInv' = AnswersInv
  BY <1>1 DEF AnswersInv, Outstanding, Quiescent, In
<1>5. TargetInv' = TargetInv /\ RateInv' = RateInv /\ StreamInv' = StreamInv
  BY <1>1 DEF TargetInv, ForMouse, RateInv, RatePlace, StreamInv, In
<1>6. ModeInv' = ModeInv
  BY <1>1 DEF ModeInv, Innocent
<1> QED  BY <1>2, <1>3, <1>4, <1>5, <1>6 DEF Ps2Inv

\* The invariant of the set-up: the configuration, the answers under way and
\* the devices' expectations at each instruction of ps2_install.
THEOREM SetUp == Spec => []Ps2Inv
<1>1. Ps2Inv /\ Next => Ps2Inv'
  BY TypeStep, DualStep, ConfigStep, AnswersStep, TargetStep, RateStep, StreamStep, ModeStep DEF Ps2Inv
<1>2. Ps2Inv /\ [Next]_vars => Ps2Inv'
  BY <1>1, Stutter
<1> QED  BY InitInv, <1>2, PTL DEF Spec

\* InputOn: however late the answers and whatever is typed, ps2_install ends
\* with both devices reporting and their ports and interrupts enabled.
THEOREM InputIsOn == Spec => []InputOn
<1>1. Ps2Inv => InputOn
  <2> SUFFICES ASSUME Ps2Inv, Done PROVE InputOn
    BY DEF InputOn
  <2>1. part = 24 /\ ports \in {1, 2} /\ is_dual_device \in BOOLEAN
    <3>1. part > 23
      BY Parts DEF Done
    <3> QED  BY <3>1 DEF Ps2Inv, TypeInv, PlaceType, ValueTypes
  <2>2. is_dual_device = (ports = 2)
    BY <2>1 DEF Ps2Inv, DualInv, In
  <2>3. streaming = 1 .. ports
    <3>1. streaming \subseteq 1 .. ports /\ 1 \in streaming /\ (ports = 2 => 2 \in streaming)
      BY <2>1 DEF Ps2Inv, StreamInv
    <3>2. 1 .. 1 = {1} /\ 1 .. 2 = {1, 2}
      OBVIOUS
    <3>3. CASE ports = 1
      BY <3>1, <3>2, <3>3
    <3>4. CASE ports = 2
      BY <3>1, <3>2, <3>4
    <3> QED  BY <2>1, <3>3, <3>4
  <2>4. config = IF ports = 2 THEN 67 ELSE 65
    BY <2>1 DEF Ps2Inv, ConfigInv, OnePortConfig, TwoPortConfig
  <2>5. Bit(config, 1) /\ ~Bit(config, 16) /\ Bit(config, 64)
    BY <2>4, Bits
  <2>6. ports = 2 => Bit(config, 2) /\ ~Bit(config, 32)
    BY <2>4, Bits
  <2> QED  BY <2>2, <2>3, <2>5, <2>6 DEF InputOn
<1> QED  BY <1>1, SetUp, PTL

\* ModeSafe: mouse_mode, which makes the kernel wait for a fourth byte, is
\* set for a mouse that sends four, unless a key's code was read for its identity.
THEOREM ModeIsSafe == Spec => []ModeSafe
<1>1. Ps2Inv => ModeSafe
  BY DEF Ps2Inv, TypeInv, ValueTypes, Mouse, ModeInv, ModeSafe, wire
<1> QED  BY <1>1, SetUp, PTL

-----------------------------------------------------------------------------
(* What prompt devices have yet to send while no key is pressed: how many  *)
(* bytes at each instruction, and how many acknowledgements among them.    *)

Count == (IF full THEN 1 ELSE 0) + Len(pending[0]) + Len(pending[1]) + Len(pending[2])
Clean(q) == \A i \in 1 .. Len(q) : q[i] # PS2_ACK_BYTE
Single(q) == \E i \in 1 .. Len(q) : q[i] = PS2_ACK_BYTE /\ \A j \in 1 .. Len(q) : j # i => q[j] # PS2_ACK_BYTE
AckRead == full /\ port = PS2_ACK_BYTE

\* No acknowledgement is under way; one is.
NoAck == ~AckRead /\ \A s \in 0 .. 2 : Clean(pending[s])
OneAck == \/ AckRead /\ \A s \in 0 .. 2 : Clean(pending[s])
          \/ ~AckRead /\ \E d \in 1 .. 2 : Single(pending[d]) /\ \A s \in (0 .. 2) \ {d} : Clean(pending[s])
\* The same, among at most n bytes.
Idle(n) == Count <= n /\ NoAck
One(n) == Count <= n /\ OneAck

\* The acknowledgement comes first; it comes last.
First(dev) == IF full THEN port = PS2_ACK_BYTE
              ELSE pending[dev] # <<>> /\ Head(pending[dev]) = PS2_ACK_BYTE /\ \A s \in (0 .. 2) \ {dev} : pending[s] = <<>>
Last == pending[2] # <<>> => pending[2][Len(pending[2])] = PS2_ACK_BYTE

\* Only the mouse has something to send.
MouseOnly == pending[0] = <<>> /\ pending[1] = <<>>

\* An identity behind its acknowledgement, and a byte from before them.
Asked ==
    \E x, id \in Bytes :
      /\ id # PS2_ACK_BYTE
      /\ IF full THEN \/ port = PS2_ACK_BYTE /\ pending[2] = <<id>>
                      \/ pending[2] = <<PS2_ACK_BYTE, id>>
                 ELSE pending[2] \in {<<PS2_ACK_BYTE, id>>, <<x, PS2_ACK_BYTE, id>>}
\* The identity, and the acknowledgement if another was read for it.
Told ==
    \E id \in Bytes :
      /\ id # PS2_ACK_BYTE
      /\ IF full THEN \/ port = PS2_ACK_BYTE /\ pending[2] = <<id>>
                      \/ port = id /\ pending[2] = <<>>
                 ELSE pending[2] \in {<<PS2_ACK_BYTE, id>>, <<id>>}

Stopped ==
    /\ part <= 3 => pending[1] = <<>>
    /\ In(3, 5, 6) => Quiescent
First47 ==
    /\ In(4, 1, 1) \/ In(5, 1, 1) \/ In(6, 1, 1) => Idle(0)
    /\ In(4, 2, 2) => One(1)
    /\ In(5, 2, 2) => Idle(1)
    /\ In(6, 2, 2) => One(2) /\ First(1)
    /\ In(6, 3, 3) => Idle(1) /\ status = PS2_ACK_BYTE
    /\ In(7, 1, 1) => Idle(ports - 1)
    /\ In(7, 2, 2) => One(2 + ports)
    /\ In(7, 3, 3) => Idle(1 + ports)
    /\ In(7, 4, 4) => Idle(ports)
Second47 ==
    /\ In(4, 3, 4) \/ In(5, 3, 3) \/ In(6, 4, 5) => Idle(0)
    /\ In(4, 5, 5) => One(1)
    /\ In(5, 4, 4) => Idle(1)
    /\ In(6, 6, 6) => One(3) /\ First(2)
    /\ In(6, 7, 7) => Idle(2) /\ status = PS2_ACK_BYTE
    /\ In(7, 5, 6) => Idle(1)
    /\ In(7, 7, 7) => One(3)
    /\ In(7, 8, 8) => Idle(2)
    /\ In(7, 9, 9) => Idle(1)
Asking ==
    /\ part \in 8 .. 22 => MouseOnly
    /\ In(8, 1, 2) => Idle(0)
    /\ In(8, 3, 3) => One(2) /\ First(2)
    /\ part \in 9 .. 22 /\ line <= 2 => Count <= 1
    /\ part \in Knocks \cup Rates /\ line = 3 => Count <= 2
    /\ part \in {15, 22} /\ line = 3 => Asked
    /\ part \in {15, 22} /\ line = 4 => Told
    /\ part \in {15, 22} /\ line = 5 => Idle(1)
Starting ==
    /\ In(23, 1, 1) => MouseOnly /\ Idle(ports - 1)
    /\ In(23, 2, 2) => One(ports) /\ pending[0] = <<>> /\ pending[1] \in {<<>>, <<PS2_ACK_BYTE>>}
    /\ ports = 2 /\ In(23, 3, 4) => MouseOnly /\ Idle(1)
    /\ ports = 2 /\ In(23, 5, 5) => MouseOnly /\ One(2) /\ Last
    /\ part = 24 => Idle(0)

\* What is left to the second port is nothing where there is none.
ForSecond == \/ In(4, 3, 5) \/ In(5, 3, 4) \/ In(6, 4, 7) \/ In(7, 5, 9)
             \/ part \in 8 .. 22 \/ In(23, 3, 5)
LeftInv ==
    keys = 0 /\ ~late =>
      /\ Stopped /\ First47 /\ Starting
      /\ IF ports = 2 THEN Second47 /\ Asking ELSE ForSecond => Idle(0)

LEMMA Counts ==
    ASSUME ValueTypes
    PROVE  /\ Count \in Nat /\ \A s \in 0 .. 2 : Len(pending[s]) \in Nat
           /\ Count = 0 <=> ~full /\ \A s \in 0 .. 2 : pending[s] = <<>>
           /\ Count = 0 => NoAck
           /\ Len(pending[0]) \in Nat /\ Len(pending[1]) \in Nat /\ Len(pending[2]) \in Nat
<1>1. \A s \in 0 .. 2 : pending[s] \in Seq(Bytes) /\ Len(pending[s]) \in Nat
  BY DEF ValueTypes
<1>2. \A s \in 0 .. 2 : Len(pending[s]) = 0 <=> pending[s] = <<>>
  BY <1>1
<1>3. full \in BOOLEAN
  BY DEF ValueTypes
<1>4. Count \in Nat /\ (Count = 0 <=> ~full /\ Len(pending[0]) = 0 /\ Len(pending[1]) = 0 /\ Len(pending[2]) = 0)
  <2>1. PICK a \in Nat, b \in Nat, c \in Nat : a = Len(pending[0]) /\ b = Len(pending[1]) /\ c = Len(pending[2])
    BY <1>1
  <2>2. Count = (IF full THEN 1 ELSE 0) + a + b + c
    BY <2>1 DEF Count
  <2>3. CASE full
    <3>1. Count = 1 + a + b + c
      BY <2>2, <2>3
    <3> QED  BY <2>3, <3>1
  <2>4. CASE ~full
    <3>1. Count = 0 + a + b + c
      BY <2>2, <2>4
    <3>2. Count \in Nat /\ (Count = 0 <=> a = 0 /\ b = 0 /\ c = 0)
      BY <3>1
    <3> QED  BY <2>1, <2>4, <3>2
  <2> QED  BY <2>3, <2>4
<1>5. Count = 0 <=> ~full /\ \A s \in 0 .. 2 : pending[s] = <<>>
  BY <1>2, <1>4
<1>6. Count = 0 => NoAck
  BY <1>5 DEF NoAck, AckRead, Clean
<1> QED  BY <1>1, <1>4, <1>5, <1>6

LEMMA TailClean ==
    ASSUME NEW q \in Seq(Bytes), q # <<>>
    PROVE  /\ Tail(q) \in Seq(Bytes) /\ Len(Tail(q)) = Len(q) - 1 /\ Head(q) = q[1] /\ Head(q) \in Bytes
           /\ Clean(q) => Head(q) # PS2_ACK_BYTE /\ Clean(Tail(q))
           /\ Single(q) => \/ Head(q) = PS2_ACK_BYTE /\ Clean(Tail(q))
                           \/ Head(q) # PS2_ACK_BYTE /\ Single(Tail(q))
<1>1. /\ Tail(q) \in Seq(Bytes) /\ Len(q) \in Nat /\ Len(q) >= 1 /\ Len(Tail(q)) = Len(q) - 1
      /\ Head(q) = q[1] /\ Head(q) \in Bytes
  OBVIOUS
<1>2. \A i \in 1 .. Len(Tail(q)) : i + 1 \in 2 .. Len(q) /\ Tail(q)[i] = q[i + 1]
  BY <1>1
<1>3. Clean(q) => Head(q) # PS2_ACK_BYTE /\ Clean(Tail(q))
  BY <1>1, <1>2 DEF Clean
<1>4. ASSUME Single(q)
      PROVE  \/ Head(q) = PS2_ACK_BYTE /\ Clean(Tail(q))
             \/ Head(q) # PS2_ACK_BYTE /\ Single(Tail(q))
  <2>1. PICK i \in 1 .. Len(q) : q[i] = PS2_ACK_BYTE /\ \A j \in 1 .. Len(q) : j # i => q[j] # PS2_ACK_BYTE
    BY <1>4 DEF Single
  <2>2. CASE i = 1
    <3>1. \A j \in 1 .. Len(Tail(q)) : Tail(q)[j] # PS2_ACK_BYTE
      BY <1>1, <1>2, <2>1, <2>2
    <3> QED  BY <1>1, <2>1, <2>2, <3>1 DEF Clean
  <2>3. CASE i # 1
    <3>1. i - 1 \in 1 .. Len(Tail(q)) /\ Tail(q)[i - 1] = PS2_ACK_BYTE
      BY <1>1, <1>2, <2>1, <2>3
    <3>2. \A j \in 1 .. Len(Tail(q)) : j # i - 1 => Tail(q)[j] # PS2_ACK_BYTE
      BY <1>1, <1>2, <2>1, <2>3
    <3>3. Head(q) # PS2_ACK_BYTE
      BY <1>1, <2>1, <2>3
    <3> QED  BY <3>1, <3>2, <3>3 DEF Single
  <2> QED  BY <2>2, <2>3
<1> QED  BY <1>1, <1>3, <1>4

LEMMA JoinClean ==
    ASSUME NEW q \in Seq(Bytes), NEW r \in Seq(Bytes), Clean(q)
    PROVE  /\ q \o r \in Seq(Bytes) /\ Len(q \o r) = Len(q) + Len(r)
           /\ Clean(r) => Clean(q \o r)
           /\ Single(r) => Single(q \o r)
<1>1. /\ q \o r \in Seq(Bytes) /\ Len(q) \in Nat /\ Len(r) \in Nat /\ Len(q \o r) = Len(q) + Len(r)
  OBVIOUS
<1>2. \A i \in 1 .. Len(q) : (q \o r)[i] = q[i]
  BY <1>1
<1>3. \A i \in 1 .. Len(r) : (q \o r)[Len(q) + i] = r[i] /\ Len(q) + i \in 1 .. Len(q \o r)
  BY <1>1
<1>4. \A i \in 1 .. Len(q \o r) : i \in 1 .. Len(q) \/ (i - Len(q) \in 1 .. Len(r) /\ (q \o r)[i] = r[i - Len(q)])
  <2> SUFFICES ASSUME NEW i \in 1 .. Len(q \o r), i \notin 1 .. Len(q)
               PROVE  i - Len(q) \in 1 .. Len(r) /\ (q \o r)[i] = r[i - Len(q)]
    OBVIOUS
  <2>1. i - Len(q) \in 1 .. Len(r) /\ Len(q) + (i - Len(q)) = i
    BY <1>1
  <2> QED  BY <1>3, <2>1
<1>5. Clean(r) => Clean(q \o r)
  BY <1>2, <1>4 DEF Clean
<1>6. ASSUME Single(r) PROVE Single(q \o r)
  <2>1. PICK i \in 1 .. Len(r) : r[i] = PS2_ACK_BYTE /\ \A j \in 1 .. Len(r) : j # i => r[j] # PS2_ACK_BYTE
    BY <1>6 DEF Single
  <2>2. Len(q) + i \in 1 .. Len(q \o r) /\ (q \o r)[Len(q) + i] = PS2_ACK_BYTE
    BY <1>3, <2>1
  <2>3. ASSUME NEW j \in 1 .. Len(q \o r), j # Len(q) + i PROVE (q \o r)[j] # PS2_ACK_BYTE
    <3>1. CASE j \in 1 .. Len(q)
      BY <1>2, <3>1 DEF Clean
    <3>2. CASE j \notin 1 .. Len(q)
      <4>1. j - Len(q) \in 1 .. Len(r) /\ (q \o r)[j] = r[j - Len(q)] /\ j - Len(q) # i
        BY <1>1, <1>4, <2>3, <3>2
      <4> QED  BY <2>1, <4>1
    <3> QED  BY <3>1, <3>2
  <2> QED  BY <2>2, <2>3 DEF Single
<1> QED  BY <1>1, <1>5, <1>6

\* A delivery changes neither how many bytes are under way nor which.
LEMMA Delivered ==
    ASSUME ValueTypes, NEW s \in 0 .. 2, Deliver(s)
    PROVE  /\ pending[s] \in Seq(Bytes) /\ pending[s] # <<>> /\ ~full /\ full' /\ port' = Head(pending[s])
           /\ pending'[s] = Tail(pending[s]) /\ \A t \in (0 .. 2) \ {s} : pending'[t] = pending[t]
           /\ Count' = Count
           /\ NoAck => NoAck'
           /\ OneAck => OneAck'
<1>1. /\ pending[s] \in Seq(Bytes) /\ pending[s] # <<>> /\ ~full /\ full' = TRUE /\ port' = Head(pending[s])
      /\ pending'[s] = Tail(pending[s]) /\ \A t \in (0 .. 2) \ {s} : pending'[t] = pending[t]
  BY DEF Deliver, CanSend, ValueTypes
<1>2. Len(pending'[s]) = Len(pending[s]) - 1 /\ \A t \in (0 .. 2) \ {s} : Len(pending'[t]) = Len(pending[t])
  BY <1>1, TailClean
<1>3. Count' = Count
  <2>1. PICK a \in Nat, b \in Nat, c \in Nat : a = Len(pending[0]) /\ b = Len(pending[1]) /\ c = Len(pending[2])
    BY Counts
  <2>2. Count = 0 + a + b + c
    BY <1>1, <2>1 DEF Count
  <2>3. Count' = 1 + Len(pending'[0]) + Len(pending'[1]) + Len(pending'[2])
    BY <1>1 DEF Count
  <2>4. CASE s = 0
    <3>1. Len(pending'[0]) = a - 1
      BY <1>2, <2>1, <2>4
    <3>2. Len(pending'[1]) = b
      BY <1>2, <2>1, <2>4
    <3>3. Len(pending'[2]) = c
      BY <1>2, <2>1, <2>4
    <3>4. Count' = 1 + (a - 1) + b + c
      BY <2>3, <3>1, <3>2, <3>3
    <3>5. a \in Nat /\ b \in Nat /\ c \in Nat
      OBVIOUS
    <3>6. 1 + (a - 1) + b + c = 0 + a + b + c
      BY <3>5
    <3> QED  BY <2>2, <3>4, <3>6
  <2>5. CASE s = 1
    <3>1. Len(pending'[0]) = a
      BY <1>2, <2>1, <2>5
    <3>2. Len(pending'[1]) = b - 1
      BY <1>2, <2>1, <2>5
    <3>3. Len(pending'[2]) = c
      BY <1>2, <2>1, <2>5
    <3>4. Count' = 1 + a + (b - 1) + c
      BY <2>3, <3>1, <3>2, <3>3
    <3>5. a \in Nat /\ b \in Nat /\ c \in Nat
      OBVIOUS
    <3>6. 1 + a + (b - 1) + c = 0 + a + b + c
      BY <3>5
    <3> QED  BY <2>2, <3>4, <3>6
  <2>6. CASE s = 2
    <3>1. Len(pending'[0]) = a
      BY <1>2, <2>1, <2>6
    <3>2. Len(pending'[1]) = b
      BY <1>2, <2>1, <2>6
    <3>3. Len(pending'[2]) = c - 1
      BY <1>2, <2>1, <2>6
    <3>4. Count' = 1 + a + b + (c - 1)
      BY <2>3, <3>1, <3>2, <3>3
    <3>5. a \in Nat /\ b \in Nat /\ c \in Nat
      OBVIOUS
    <3>6. 1 + a + b + (c - 1) = 0 + a + b + c
      BY <3>5
    <3> QED  BY <2>2, <3>4, <3>6
  <2> QED  BY <2>4, <2>5, <2>6
<1>4. NoAck => NoAck'
  BY <1>1, TailClean DEF NoAck, AckRead
<1>5. ASSUME OneAck PROVE OneAck'
  <2>1. PICK d \in 1 .. 2 : Single(pending[d]) /\ \A t \in (0 .. 2) \ {d} : Clean(pending[t])
    BY <1>1, <1>5 DEF OneAck, AckRead
  <2>2. CASE s = d
    <3>1. CASE Head(pending[d]) = PS2_ACK_BYTE
      <4>1. Clean(pending'[d])
        BY <1>1, <2>1, <2>2, <3>1, TailClean
      <4>2. AckRead' /\ \A t \in 0 .. 2 : Clean(pending'[t])
        BY <1>1, <2>1, <2>2, <3>1, <4>1 DEF AckRead
      <4> QED  BY <4>2 DEF OneAck
    <3>2. CASE Head(pending[d]) # PS2_ACK_BYTE
      <4>1. Single(pending'[d])
        BY <1>1, <2>1, <2>2, <3>2, TailClean
      <4>2. ~AckRead' /\ \A t \in (0 .. 2) \ {d} : Clean(pending'[t])
        BY <1>1, <2>1, <2>2, <3>2 DEF AckRead
      <4> QED  BY <4>1, <4>2 DEF OneAck
    <3> QED  BY <3>1, <3>2
  <2>3. CASE s # d
    <3>1. Clean(pending[s]) /\ Clean(pending'[s]) /\ Head(pending[s]) # PS2_ACK_BYTE
      BY <1>1, <2>1, <2>3, TailClean
    <3>2. ~AckRead' /\ pending'[d] = pending[d] /\ \A t \in (0 .. 2) \ {d} : Clean(pending'[t])
      BY <1>1, <2>1, <2>3, <3>1 DEF AckRead
    <3> QED  BY <2>1, <3>2 DEF OneAck
  <2> QED  BY <2>2, <2>3
<1> QED  BY <1>1, <1>3, <1>4, <1>5

\* A prompt reading takes one byte, if there is one.
LEMMA Taken ==
    ASSUME ValueTypes, ConfigInv, part >= 4, PlaceType, Waited, late' = FALSE,
           full' = FALSE, pending' = pending, port' = port
    PROVE  /\ full \/ Count = 0
           /\ Count' = IF full THEN Count - 1 ELSE 0
           /\ NoAck => NoAck'
           /\ OneAck => full /\ IF port = PS2_ACK_BYTE THEN NoAck' ELSE OneAck'
<1>1. ~Bit(config, 16) /\ ~Bit(config, 32)
  <2>1. config \in {65, 67}
    BY DEF ConfigInv, OnePortConfig, TwoPortConfig, ValueTypes
  <2> QED  BY <2>1, Bits
<1>2. full \/ \A s \in 0 .. 2 : pending[s] = <<>>
  BY <1>1 DEF Waited, CanSend
<1>3. full \/ Count = 0
  BY <1>2, Counts
<1>4. Count' = Len(pending[0]) + Len(pending[1]) + Len(pending[2])
  BY DEF Count
<1>5. Count' = IF full THEN Count - 1 ELSE 0
  <2>1. PICK a \in Nat, b \in Nat, c \in Nat : a = Len(pending[0]) /\ b = Len(pending[1]) /\ c = Len(pending[2])
    BY Counts
  <2>2. Count' = a + b + c
    BY <1>4, <2>1
  <2>3. CASE full
    <3>1. Count = 1 + a + b + c
      BY <2>1, <2>3 DEF Count
    <3> QED  BY <2>2, <2>3, <3>1
  <2>4. CASE ~full
    <3>1. a = 0 /\ b = 0 /\ c = 0
      BY <1>2, <2>1, <2>4
    <3> QED  BY <2>2, <2>4, <3>1
  <2> QED  BY <2>3, <2>4
<1>6. NoAck => NoAck'
  BY DEF NoAck, AckRead
<1>7. OneAck => full
  <2> SUFFICES ASSUME OneAck, ~full PROVE FALSE
    BY DEF ValueTypes
  <2>1. PICK d \in 1 .. 2 : Single(pending[d])
    BY DEF OneAck, AckRead
  <2>2. pending[d] = <<>>
    BY <1>2
  <2> QED  BY <2>1, <2>2 DEF Single
<1>8. OneAck => IF port = PS2_ACK_BYTE THEN NoAck' ELSE OneAck'
  BY <1>7 DEF OneAck, NoAck, AckRead
<1> QED  BY <1>3, <1>5, <1>6, <1>7, <1>8

\* A device answers.
LEMMA Sent ==
    ASSUME ValueTypes, NEW dev \in {1, 2}, NEW bytes \in Seq(Bytes), Answer(dev, bytes), full' = full, port' = port
    PROVE  /\ \A t \in (0 .. 2) \ {dev} : pending'[t] = pending[t]
           /\ pending'[dev] = (IF drops THEN <<>> ELSE pending[dev]) \o bytes
           /\ Count' <= Count + Len(bytes)
           /\ NoAck /\ Single(bytes) => OneAck'
<1> DEFINE kept == IF drops THEN <<>> ELSE pending[dev]
<1>1. /\ \A t \in (0 .. 2) \ {dev} : pending'[t] = pending[t]
      /\ pending'[dev] = kept \o bytes
  BY DEF Answer, ValueTypes
<1>2. kept \in Seq(Bytes) /\ Len(kept) <= Len(pending[dev]) /\ Len(kept) \in Nat /\ Len(bytes) \in Nat
  BY DEF ValueTypes
<1>3. Len(kept \o bytes) = Len(kept) + Len(bytes)
  BY <1>2
<1> HIDE DEF kept
<1>4. Count' <= Count + Len(bytes)
  <2>1. PICK a \in Nat, b \in Nat, c \in Nat : a = Len(pending[0]) /\ b = Len(pending[1]) /\ c = Len(pending[2])
    BY Counts
  <2>2. PICK f \in {0, 1} : f = IF full THEN 1 ELSE 0
    OBVIOUS
  <2>3. PICK k \in Nat, l \in Nat : k = Len(kept) /\ l = Len(bytes)
    BY <1>2
  <2>4. /\ Count = f + a + b + c
        /\ Count' = f + Len(pending'[0]) + Len(pending'[1]) + Len(pending'[2])
    BY <2>1, <2>2 DEF Count
  <2>5. CASE dev = 1
    <3>1. Len(pending'[0]) = a
      BY <1>1, <1>3, <2>1, <2>3, <2>5
    <3>2. Len(pending'[1]) = k + l
      BY <1>1, <1>3, <2>1, <2>3, <2>5
    <3>3. Len(pending'[2]) = c
      BY <1>1, <1>3, <2>1, <2>3, <2>5
    <3>4. k <= b
      BY <1>2, <2>1, <2>3, <2>5
    <3>5. Count' = f + a + (k + l) + c
      BY <2>4, <3>1, <3>2, <3>3
    <3>6. Count = f + a + b + c
      BY <2>4
    <3>7. Count' <= Count + l
      BY <3>4, <3>5, <3>6
    <3> QED  BY <2>3, <3>7
  <2>6. CASE dev = 2
    <3>1. Len(pending'[0]) = a
      BY <1>1, <1>3, <2>1, <2>3, <2>6
    <3>2. Len(pending'[1]) = b
      BY <1>1, <1>3, <2>1, <2>3, <2>6
    <3>3. Len(pending'[2]) = k + l
      BY <1>1, <1>3, <2>1, <2>3, <2>6
    <3>4. k <= c
      BY <1>2, <2>1, <2>3, <2>6
    <3>5. Count' = f + a + b + (k + l)
      BY <2>4, <3>1, <3>2, <3>3
    <3>6. Count = f + a + b + c
      BY <2>4
    <3>7. Count' <= Count + l
      BY <3>4, <3>5, <3>6
    <3> QED  BY <2>3, <3>7
  <2> QED  BY <2>5, <2>6
<1>5. ASSUME NoAck, Single(bytes) PROVE OneAck'
  <2>1. Clean(kept)
    BY <1>5 DEF NoAck, kept, Clean
  <2>2. Single(pending'[dev])
    BY <1>1, <1>2, <1>5, <2>1, JoinClean
  <2>3. ~AckRead' /\ \A t \in (0 .. 2) \ {dev} : Clean(pending'[t])
    BY <1>1, <1>5 DEF NoAck, AckRead
  <2> QED  BY <2>2, <2>3 DEF OneAck
<1> QED  BY <1>1, <1>4, <1>5 DEF kept

-----------------------------------------------------------------------------
(* The steps that keep what is under way, and those before the ports run.  *)

\* A key once pressed, and an answer given up, stay so.
LEMMA Lasting ==
    ASSUME Ps2Inv, Next
    PROVE  keys' = 0 /\ ~late' => keys = 0 /\ ~late
<1>1. keys' = keys \/ \E k \in Keys : PressKey(k)
  BY DEF Next, Kernel, SkipDual, OutCmd, OutData, WriteConfig, DummyReads, GetStatus, NoMore, AwaitAck,
         ReadStatus, mouse_read, CheckDual, CheckIdentity, Deliver
<1>2. keys' = keys \/ keys' = keys + 1
  BY <1>1 DEF PressKey
<1>3. late' = late \/ Waited
  BY DEF Next, Kernel, SkipDual, OutCmd, OutData, WriteConfig, DummyReads, GetStatus, NoMore, AwaitAck,
         ReadStatus, mouse_read, CheckDual, CheckIdentity, Deliver, PressKey
<1>4. keys \in Nat /\ late \in BOOLEAN
  BY DEF Ps2Inv, TypeInv, ValueTypes
<1>5. keys' = 0 => keys = 0
  BY <1>2, <1>4
<1>6. ~late' => ~late
  BY <1>3, <1>4 DEF Waited
<1> QED  BY <1>5, <1>6

LEMMA CountsZero == ValueTypes => Count \in Nat /\ (Count = 0 <=> ~full /\ \A s \in 0 .. 2 : pending[s] = <<>>)
  BY Counts

LEMMA CountsPrime ==
    ValueTypes' => (Count \in Nat /\ (Count = 0 <=> ~full /\ \A s \in 0 .. 2 : pending[s] = <<>>))'
  BY CountsZero, PTL

LEMMA CountsNext ==
    ASSUME ValueTypes'
    PROVE  Count' \in Nat /\ (Count' = 0 <=> ~full' /\ \A s \in 0 .. 2 : pending'[s] = <<>>)
  BY CountsPrime

\* The last element stays the last.
LEMMA TailLast ==
    ASSUME NEW q \in Seq(Bytes), q # <<>>, Tail(q) # <<>>
    PROVE  Tail(q)[Len(Tail(q))] = q[Len(q)]
<1>1. Len(q) \in Nat /\ Tail(q) \in Seq(Bytes) /\ Len(Tail(q)) = Len(q) - 1 /\ Len(Tail(q)) >= 1
  OBVIOUS
<1>2. \A i \in 1 .. Len(Tail(q)) : Tail(q)[i] = q[i + 1]
  BY <1>1
<1> QED  BY <1>1, <1>2

\* A delivery leaves the counts alone.
LEMMA LeftDeliver ==
    ASSUME Ps2Inv, LeftInv, keys = 0, ~late, NEW s \in 0 .. 2, Deliver(s)
    PROVE  LeftInv'
<1>0. /\ ValueTypes /\ PlaceType /\ AnswersInv /\ ports \in {1, 2}
      /\ part' = part /\ line' = line /\ ports' = ports /\ status' = status
  BY DEF Ps2Inv, TypeInv, ValueTypes, Deliver, pcVars, deviceVars, kernelVars
<1>1. /\ pending[s] \in Seq(Bytes) /\ pending[s] # <<>> /\ ~full /\ full' /\ port' = Head(pending[s])
      /\ pending'[s] = Tail(pending[s]) /\ \A t \in (0 .. 2) \ {s} : pending'[t] = pending[t]
  BY <1>0, Delivered
<1>2. Count' = Count /\ (NoAck => NoAck') /\ (OneAck => OneAck')
  BY <1>0, Delivered
<1>3. \A x, y : Head(<<x, y>>) = x /\ Tail(<<x, y>>) = <<y>> /\ Head(<<x>>) = x /\ Tail(<<x>>) = <<>>
  OBVIOUS
<1>4. \A x, y, z : Head(<<x, y, z>>) = x /\ Tail(<<x, y, z>>) = <<y, z>>
  OBVIOUS
<1>5. (First(1) => First(1)') /\ (First(2) => First(2)')
  BY <1>1 DEF First
<1>6. Last => Last'
  <2>1. CASE s = 2 /\ Last /\ pending'[2] # <<>>
    <3>1. pending'[2][Len(pending'[2])] = pending[2][Len(pending[2])]
      BY <1>1, <2>1, TailLast
    <3> QED  BY <1>1, <2>1, <3>1 DEF Last
  <2>2. CASE s # 2
    BY <1>1, <2>2 DEF Last
  <2> QED  BY <2>1, <2>2 DEF Last
<1>7. MouseOnly => s = 2 /\ MouseOnly'
  BY <1>1 DEF MouseOnly
<1>8. MouseOnly /\ Asked => Asked'
  <2> SUFFICES ASSUME MouseOnly, Asked PROVE Asked'
    OBVIOUS
  <2>1. PICK x \in Bytes, id \in Bytes : id # PS2_ACK_BYTE /\ pending[2] \in {<<PS2_ACK_BYTE, id>>, <<x, PS2_ACK_BYTE, id>>}
    BY <1>1 DEF Asked
  <2>2. \/ port' = PS2_ACK_BYTE /\ pending'[2] = <<id>>
        \/ pending'[2] = <<PS2_ACK_BYTE, id>>
    <3>1. s = 2
      BY <1>7
    <3>2. CASE pending[2] = <<PS2_ACK_BYTE, id>>
      <4>1. Head(<<PS2_ACK_BYTE, id>>) = PS2_ACK_BYTE /\ Tail(<<PS2_ACK_BYTE, id>>) = <<id>>
        BY <1>3
      <4> QED  BY <1>1, <3>1, <3>2, <4>1
    <3>3. CASE pending[2] = <<x, PS2_ACK_BYTE, id>>
      <4>1. Tail(<<x, PS2_ACK_BYTE, id>>) = <<PS2_ACK_BYTE, id>>
        BY <1>4
      <4> QED  BY <1>1, <3>1, <3>3, <4>1
    <3> QED  BY <2>1, <3>2, <3>3
  <2> QED  BY <1>1, <2>1, <2>2 DEF Asked
<1>9. MouseOnly /\ Told => Told'
  <2> SUFFICES ASSUME MouseOnly, Told PROVE Told'
    OBVIOUS
  <2>1. PICK id \in Bytes : id # PS2_ACK_BYTE /\ pending[2] \in {<<PS2_ACK_BYTE, id>>, <<id>>}
    BY <1>1 DEF Told
  <2>2. \/ port' = PS2_ACK_BYTE /\ pending'[2] = <<id>>
        \/ port' = id /\ pending'[2] = <<>>
    <3>1. s = 2
      BY <1>7
    <3>2. CASE pending[2] = <<PS2_ACK_BYTE, id>>
      <4>1. Head(<<PS2_ACK_BYTE, id>>) = PS2_ACK_BYTE /\ Tail(<<PS2_ACK_BYTE, id>>) = <<id>>
        BY <1>3
      <4> QED  BY <1>1, <3>1, <3>2, <4>1
    <3>3. CASE pending[2] = <<id>>
      <4>1. Head(<<id>>) = id /\ Tail(<<id>>) = <<>>
        BY <1>3
      <4> QED  BY <1>1, <3>1, <3>3, <4>1
    <3> QED  BY <2>1, <3>2, <3>3
  <2> QED  BY <1>1, <2>1, <2>2 DEF Told
<1>10. Stopped /\ First47 /\ Starting /\ IF ports = 2 THEN Second47 /\ Asking ELSE ForSecond => Idle(0)
  BY DEF LeftInv
<1>11. Stopped'
  <2>1. part <= 3 => s # 1 /\ s # 2 /\ pending'[1] = <<>>
    BY <1>0, <1>1, <1>10 DEF Stopped, AnswersInv
  <2>2. ~In(3, 5, 6)
    BY <1>1, <1>10, <2>1 DEF Stopped, Quiescent, In
  <2> QED  BY <1>0, <2>1, <2>2 DEF Stopped, In
<1>12. First47'
  BY <1>0, <1>2, <1>5, <1>10 DEF First47, In, Idle, One
<1>13. Second47 => Second47'
  BY <1>0, <1>2, <1>5, <1>10 DEF Second47, In, Idle, One
<1>14. Asking => Asking'
  BY <1>0, <1>2, <1>5, <1>7, <1>8, <1>9 DEF Asking, In, Idle, One, PlaceType
<1>15. pending[0] = <<>> /\ pending[1] \in {<<>>, <<PS2_ACK_BYTE>>} =>
         pending'[0] = <<>> /\ pending'[1] \in {<<>>, <<PS2_ACK_BYTE>>}
  <2>1. Tail(<<PS2_ACK_BYTE>>) = <<>>
    BY <1>3
  <2>2. CASE s = 1
    <3>1. pending'[0] = pending[0] /\ pending'[1] = Tail(pending[1])
      BY <1>1, <2>2
    <3>2. pending[1] \in {<<>>, <<PS2_ACK_BYTE>>} => pending[1] = <<PS2_ACK_BYTE>>
      BY <1>1, <2>2
    <3> QED  BY <2>1, <3>1, <3>2
  <2>3. CASE s # 1
    BY <1>1, <2>3
  <2> QED  BY <2>2, <2>3
<1>16. Starting'
  BY <1>0, <1>2, <1>6, <1>7, <1>10, <1>15 DEF Starting, In, Idle, One
<1>17. ForSecond' = ForSecond /\ (Idle(0) => Idle(0)')
  BY <1>0, <1>2 DEF ForSecond, In, Idle
<1> QED  BY <1>0, <1>10, <1>11, <1>12, <1>13, <1>14, <1>16, <1>17 DEF LeftInv

\* Nothing is under way before the ports run.
LEMMA LeftEarly ==
    ASSUME Ps2Inv, Ps2Inv', LeftInv, keys = 0, ~late, Kernel, part <= 3
    PROVE  LeftInv'
<1>0. /\ TypeInv /\ ValueTypes /\ PlaceType /\ AnswersInv /\ AnswersInv' /\ PlaceType' /\ ValueTypes'
      /\ Stopped /\ pending \in [0 .. 2 -> Seq(Bytes)]
  BY DEF Ps2Inv, TypeInv, ValueTypes, LeftInv
<1>1. pending[1] = <<>> /\ pending[2] = <<>>
  BY <1>0 DEF Stopped, AnswersInv
<1>2. pending'[1] = <<>> /\ pending'[2] = <<>>
  <2>1. CASE OutCmd
    BY <1>0, <1>1, <2>1, CommandAnswer
  <2>2. CASE ~OutCmd
    <3>1. ~OutData
      BY <1>0, OtherPlaces DEF PlaceType
    <3>2. pending' = pending
      BY <2>2, <3>1 DEF Kernel, SkipDual, WriteConfig, DummyReads, GetStatus, NoMore, AwaitAck,
         ReadStatus, mouse_read, CheckDual, CheckIdentity
    <3> QED  BY <1>1, <3>2
  <2> QED  BY <2>1, <2>2
<1>3. CASE In(3, 4, 6)
  <2>1. Quiescent
    BY <1>0, <1>3 DEF Stopped, AnswersInv, In
  <2>2. ~Done /\ Place /\ (Here.op = "loud" \/ Here.op = "cmd")
    <3>1. ~Done
      BY DEF Kernel, SkipDual, OutCmd, OutData, WriteConfig, DummyReads, GetStatus, NoMore, AwaitAck,
             mouse_read, CheckDual, CheckIdentity, At
    <3> QED  BY <1>0, <1>3, <3>1, Standing, WritePlaces, SinglePlaces DEF In
  <2>3. SkipDual \/ OutCmd \/ WriteConfig
    BY <2>2 DEF Kernel, OutData, DummyReads, GetStatus, NoMore, AwaitAck, mouse_read, CheckDual, CheckIdentity, At
  <2>4. full' = full /\ pending'[0] = pending[0] /\ Advance
    <3>1. CASE OutCmd
      <4>1. In(3, 5, 6)
        BY <1>0, <1>3, <3>1, CommandPlaces DEF In
      <4> QED  BY <1>0, <3>1, <4>1, CommandAnswer DEF OutCmd
    <3>2. CASE SkipDual \/ WriteConfig
      BY <3>2 DEF SkipDual, WriteConfig, controllerVars
    <3> QED  BY <2>3, <3>1, <3>2
  <2>5. Quiescent'
    BY <2>1, <2>4 DEF Quiescent
  <2>6. part' = 3 \/ In(4, 1, 1)'
    BY <1>0, <1>3, <2>2, <2>4, Onward DEF In, LinesOf
  <2>7. Stopped'
    BY <1>2, <2>5 DEF Stopped
  <2>8. Count' = 0 /\ NoAck'
    <3>1. \A s \in 0 .. 2 : pending'[s] = <<>>
      BY <1>2, <2>5 DEF Quiescent
    <3>2. Count' = 0
      BY <1>0, <2>5, <3>1, CountsNext DEF Quiescent
    <3> QED  BY <2>5, <3>1, <3>2 DEF NoAck, AckRead, Clean, Quiescent
  <2>9. First47' /\ Starting' /\ Second47' /\ Asking' /\ ~ForSecond'
    BY <2>6, <2>8 DEF First47, Starting, Second47, Asking, ForSecond, In, Idle, Knocks, Rates
  <2> QED  BY <2>7, <2>9 DEF LeftInv
<1>4. CASE ~In(3, 4, 6)
  <2>1. (~Done /\ Advance) \/ (part' = part /\ line' = line)
    BY Moves DEF Next, pcVars
  <2>2. part' <= 3 /\ ~In(3, 5, 6)'
    <3>1. CASE ~Done /\ Advance
      BY <1>0, <1>4, <3>1, Onward DEF In, LinesOf, PlaceType
    <3>2. CASE part' = part /\ line' = line
      BY <1>0, <1>4, <3>2 DEF In, PlaceType
    <3> QED  BY <2>1, <3>1, <3>2
  <2>3. Stopped'
    BY <1>2, <2>2 DEF Stopped
  <2>4. part' \in {1, 2, 3}
    BY <1>0, <2>2 DEF PlaceType
  <2>5. First47' /\ Starting' /\ Second47' /\ Asking' /\ ~ForSecond'
    BY <2>4 DEF First47, Starting, Second47, Asking, ForSecond, In, Idle, Knocks, Rates
  <2> QED  BY <2>3, <2>5 DEF LeftInv
<1> QED  BY <1>3, <1>4

\* What is meant for the second port is left out where there is none.
LEMMA LeftSkip ==
    ASSUME Ps2Inv, LeftInv, keys = 0, ~late, SkipDual, part >= 4
    PROVE  LeftInv'
<1>0. /\ TypeInv /\ ValueTypes /\ PlaceType /\ DualInv /\ ports \in {1, 2} /\ ports' = ports
      /\ pending' = pending /\ full' = full /\ port' = port
  BY DEF Ps2Inv, TypeInv, ValueTypes, SkipDual, deviceVars, controllerVars
<1>1. ports = 1
  <2>1. ~is_dual_device /\ part # 1
    BY <1>0, OtherPlaces, SkipPlaces
  <2> QED  BY <1>0, <2>1 DEF DualInv, In
<1>2. ~Done /\ Advance /\ (part \in 8 .. 22 \/ (part \in {4, 5, 23} /\ line >= 3) \/ (part = 6 /\ line >= 4) \/ (part = 7 /\ line >= 5))
  BY <1>0, SkipPlaces DEF In, PlaceType
<1>3. Idle(0)
  <2>1. ForSecond
    BY <1>0, <1>2 DEF ForSecond, In, PlaceType, LinesOf
  <2> QED  BY <1>1, <2>1 DEF LeftInv
<1>4. Count = 0 /\ NoAck /\ MouseOnly
  BY <1>0, <1>3, Counts DEF Idle, MouseOnly
<1>5. Count' = 0 /\ NoAck' /\ MouseOnly'
  BY <1>0, <1>4 DEF Count, NoAck, AckRead, MouseOnly
<1>6. /\ part' \in Nat /\ part' >= 4 /\ ~In(4, 2, 2)' /\ ~In(5, 2, 2)' /\ ~In(6, 2, 3)' /\ ~In(7, 2, 4)' /\ ~In(23, 2, 2)'
  BY <1>0, <1>2, Onward DEF In, LinesOf, PlaceType
<1>7. Stopped' /\ First47'
  <2>1. Stopped'
    BY <1>6 DEF Stopped, In
  <2>2. ports' - 1 = 0 /\ Count' <= 0
    BY <1>0, <1>1, <1>5
  <2>3. First47'
    BY <1>5, <1>6, <2>2 DEF First47, In, Idle
  <2> QED  BY <2>1, <2>3
<1>8. Starting'
  BY <1>0, <1>1, <1>5, <1>6 DEF Starting, In, Idle
<1> QED  BY <1>0, <1>1, <1>5, <1>7, <1>8 DEF LeftInv, Idle

-----------------------------------------------------------------------------
(* The steps that ask for an answer.                                       *)

\* What is to be shown of each part.
LEMMA LeftFirst ==
    ASSUME part' \in 4 .. 7, First47', IF ports' = 2 THEN Second47' ELSE ForSecond' => Idle(0)'
    PROVE  LeftInv'
<1>1. Stopped' /\ Starting'
  BY DEF Stopped, Starting, In
<1>2. Asking'
  BY DEF Asking, In, Knocks, Rates
<1> QED  BY <1>1, <1>2 DEF LeftInv

LEMMA LeftAsking ==
    ASSUME part' \in 8 .. 22, ports' = 2, Asking'
    PROVE  LeftInv'
<1>1. Stopped' /\ Starting' /\ First47' /\ Second47'
  BY DEF Stopped, Starting, First47, Second47, In
<1> QED  BY <1>1 DEF LeftInv

LEMMA LeftStarting ==
    ASSUME part' \in {23, 24}, Starting', IF ports' = 2 THEN TRUE ELSE ForSecond' => Idle(0)'
    PROVE  LeftInv'
<1>1. Stopped' /\ First47' /\ Second47'
  BY DEF Stopped, First47, Second47, In
<1>2. Asking'
  BY DEF Asking, In, Knocks, Rates
<1> QED  BY <1>1, <1>2 DEF LeftInv

\* A command to the controller: a test, or MOUSE_WRITE, which has no answer.
LEMMA LeftCommand ==
    ASSUME Ps2Inv, Ps2Inv', LeftInv, keys = 0, ~late, OutCmd, part >= 4
    PROVE  LeftInv'
<1>0. /\ TypeInv /\ ValueTypes /\ PlaceType /\ DualInv /\ ValueTypes' /\ ports \in {1, 2} /\ ports' = ports
      /\ full' = full /\ port' = port /\ pending'[1] = pending[1] /\ pending'[2] = pending[2]
      /\ pending'[0] = pending[0] \o ControllerAnswer(Here.byte) /\ pending[0] \in Seq(Bytes)
  BY CommandAnswer DEF Ps2Inv, TypeInv, ValueTypes, OutCmd, ControllerTakes, deviceVars
<1>1. ~Done /\ Advance /\ Place /\ Here.op = "cmd" /\ (Here.dual => is_dual_device)
  BY <1>0, CommandPlaces DEF OutCmd, At
<1>2. In(5, 1, 1) \/ In(5, 3, 3) \/ In(4, 3, 3) \/ In(6, 4, 4) \/ In(7, 5, 5) \/ In(23, 3, 3) \/ (part \in 8 .. 22 /\ line = 1)
  BY <1>1, WritePlaces DEF In
<1>3. Here.dual \/ In(5, 1, 1)
  BY <1>1, <1>2, WritePlaces DEF In
<1>4. ports = 2 \/ In(5, 1, 1)
  BY <1>0, <1>1, <1>3 DEF DualInv
<1>5. Stopped /\ First47 /\ Starting /\ (ports = 2 => Second47 /\ Asking)
  BY DEF LeftInv
<1>6. part' >= 4 /\ part' \in Nat
  BY <1>0, <1>1, Onward DEF PlaceType
<1>7. CASE In(5, 1, 1) \/ In(5, 3, 3)
  <2>1. Count <= 0 /\ NoAck
    BY <1>4, <1>5, <1>7 DEF First47, Second47, In, Idle
  <2>2. Count = 0
    BY <1>0, <2>1, Counts
  <2>3. ~full /\ pending[0] = <<>> /\ pending[1] = <<>> /\ pending[2] = <<>>
    BY <1>0, <2>2, Counts
  <2>4. Here.byte = 171 \/ Here.byte = 169
    BY <1>1, <1>7, PlaceBytes DEF In
  <2>5. ControllerAnswer(Here.byte) = <<0>>
    <3>1. ControllerAnswer(171) = <<0>> /\ ControllerAnswer(169) = <<0>>
      BY Codes DEF ControllerAnswer
    <3> QED  BY <2>4, <3>1
  <2>6. pending'[0] = <<0>> /\ Len(<<0>>) = 1 /\ Clean(<<0>>)
    BY <1>0, <2>3, <2>5, Codes DEF Clean
  <2>7. Count' = 1
    <3>1. Count' = 0 + Len(<<0>>) + Len(<<>>) + Len(<<>>)
      BY <1>0, <2>3, <2>6 DEF Count
    <3> QED  BY <3>1
  <2>8. NoAck'
    BY <1>0, <2>1, <2>3, <2>6 DEF NoAck, AckRead
  <2>9. In(5, 2, 2)' \/ (In(5, 4, 4)' /\ ports' = 2)
    BY <1>0, <1>1, <1>4, <1>7, Onward DEF In, LinesOf
  <2>10. ~ForSecond' \/ ports' = 2
    BY <2>9 DEF ForSecond, In
  <2>11. part' \in 4 .. 7 /\ First47' /\ Second47'
    BY <2>7, <2>8, <2>9 DEF First47, Second47, In, Idle
  <2> QED  BY <2>10, <2>11, LeftFirst
<1>8. CASE ~In(5, 1, 1) /\ ~In(5, 3, 3)
  <2>1. Here.byte = 212
    BY <1>1, <1>2, <1>8, PlaceBytes DEF In
  <2>2. ControllerAnswer(212) = <<>>
    BY Codes DEF ControllerAnswer
  <2>3. pending'[0] = pending[0]
    BY <1>0, <2>1, <2>2
  <2>4. Count' = Count
    BY <1>0, <2>3 DEF Count
  <2>5. NoAck => NoAck'
    BY <1>0, <2>3 DEF NoAck, AckRead
  <2>6. MouseOnly => MouseOnly'
    BY <1>0, <2>3 DEF MouseOnly
  <2>7. ports = 2 /\ ports' = 2
    BY <1>0, <1>4, <1>8
  <2>8. Second47 /\ Asking /\ Starting
    BY <1>5, <2>7
  <2>9. CASE In(4, 3, 3) \/ In(6, 4, 4)
    <3>1. Count' <= 0 /\ NoAck'
      BY <2>4, <2>5, <2>8, <2>9 DEF Second47, In, Idle
    <3>2. In(4, 4, 4)' \/ In(6, 5, 5)'
      BY <1>0, <1>1, <2>9, Onward DEF In, LinesOf
    <3>3. part' \in 4 .. 7 /\ First47' /\ Second47'
      BY <3>1, <3>2 DEF First47, Second47, In, Idle
    <3> QED  BY <2>7, <3>3, LeftFirst
  <2>10. CASE In(7, 5, 5)
    <3>1. Count' <= 1 /\ NoAck'
      BY <2>4, <2>5, <2>8, <2>10 DEF Second47, In, Idle
    <3>2. In(7, 6, 6)'
      BY <1>0, <1>1, <2>10, Onward DEF In, LinesOf
    <3>3. part' \in 4 .. 7 /\ First47' /\ Second47'
      BY <3>1, <3>2 DEF First47, Second47, In, Idle
    <3> QED  BY <2>7, <3>3, LeftFirst
  <2>11. CASE part \in 8 .. 22 /\ line = 1
    <3>1. MouseOnly' /\ (part = 8 => Count' <= 0 /\ NoAck') /\ (part \in 9 .. 22 => Count' <= 1)
      BY <2>4, <2>5, <2>6, <2>8, <2>11 DEF Asking, In, Idle
    <3>2. part' = part /\ line' = 2
      BY <1>0, <1>1, <2>11, Onward DEF LinesOf
    <3>3. Asking'
      BY <2>11, <3>1, <3>2 DEF Asking, In, Idle
    <3> QED  BY <2>7, <2>11, <3>2, <3>3, LeftAsking
  <2>12. CASE In(23, 3, 3)
    <3>1. MouseOnly' /\ Count' <= 1 /\ NoAck'
      BY <2>4, <2>5, <2>6, <2>7, <2>8, <2>12 DEF Starting, In, Idle
    <3>2. In(23, 4, 4)'
      BY <1>0, <1>1, <2>12, Onward DEF In, LinesOf
    <3>3. part' \in {23, 24} /\ Starting'
      BY <3>1, <3>2 DEF Starting, In, Idle
    <3> QED  BY <2>7, <3>3, LeftStarting
  <2> QED  BY <1>2, <1>8, <2>9, <2>10, <2>11, <2>12
<1> QED  BY <1>7, <1>8

\* What each data byte is answered with, and by whom.
LEMMA DataAnswer ==
    ASSUME Ps2Inv, OutData
    PROVE  /\ In(4, 1, 1) \/ In(23, 1, 1) => Answer(1, <<250>>)
           /\ In(6, 1, 1) => Answer(1, <<250, 170>>)
           /\ In(7, 1, 1) => Answer(1, <<250, 171, 65>>)
           /\ In(4, 4, 4) \/ In(23, 4, 4) \/ part \in Knocks \cup Rates => ports = 2 /\ Answer(2, <<250>>)
           /\ In(6, 5, 5) => ports = 2 /\ Answer(2, <<250, 170, 0>>)
           /\ In(7, 6, 6) \/ part \in {8, 15, 22} => ports = 2 /\ Answer(2, <<250, mouse.id>>)
           /\ \/ In(4, 1, 1) \/ In(23, 1, 1) \/ In(6, 1, 1) \/ In(7, 1, 1) \/ In(4, 4, 4) \/ In(23, 4, 4)
              \/ In(6, 5, 5) \/ In(7, 6, 6) \/ (part \in {8, 15, 22} \cup Knocks \cup Rates /\ line = 2)
<1>0. /\ TypeInv /\ DualInv /\ TargetInv /\ RateInv /\ ports \in {1, 2}
      /\ ~Done /\ Here.op = "data" /\ (Here.dual => is_dual_device) /\ Place
  BY Standing DEF Ps2Inv, TypeInv, ValueTypes, OutData, At
<1>1. \/ In(4, 1, 1) \/ In(23, 1, 1) \/ In(6, 1, 1) \/ In(7, 1, 1) \/ In(4, 4, 4) \/ In(23, 4, 4)
      \/ In(6, 5, 5) \/ In(7, 6, 6) \/ (part \in {8, 15, 22} \cup Knocks \cup Rates /\ line = 2)
  BY <1>0, WritePlaces DEF In, Knocks, Rates
<1>2. /\ KeyboardAnswer(245) = <<250>> /\ KeyboardAnswer(244) = <<250>>
      /\ KeyboardAnswer(255) = <<250, 170>> /\ KeyboardAnswer(242) = <<250, 171, 65>>
  BY Codes DEF KeyboardAnswer
<1>3. /\ MouseAnswer(245) = <<250>> /\ MouseAnswer(244) = <<250>> /\ MouseAnswer(243) = <<250>>
      /\ MouseAnswer(255) = <<250, 170, 0>> /\ MouseAnswer(242) = <<250, mouse.id>>
  BY Codes DEF MouseAnswer
<1>4. ~ForMouse => Answer(1, KeyboardAnswer(Here.byte))
  BY <1>0 DEF OutData, TargetInv, KeyboardTakes
<1>5. ForMouse => Here.dual /\ ports = 2
  <2>1. ForMouse => Here.dual
    BY <1>0, WritePlaces DEF ForMouse
  <2> QED  BY <1>0, <2>1 DEF DualInv
<1>6. ForMouse => /\ mouse.expects_rate => Answer(2, <<250>>)
                  /\ ~mouse.expects_rate => Answer(2, MouseAnswer(Here.byte))
  BY <1>0, <1>5, Codes DEF OutData, TargetInv, MouseTakes
<1>7. In(4, 1, 1) \/ In(23, 1, 1) \/ In(6, 1, 1) \/ In(7, 1, 1) => ~ForMouse
  BY DEF In, ForMouse
<1>8. In(4, 4, 4) \/ In(23, 4, 4) \/ In(6, 5, 5) \/ In(7, 6, 6) => ForMouse /\ ~mouse.expects_rate
  BY <1>0 DEF In, ForMouse, RateInv, RatePlace, Knocks, Rates
<1>9. part \in {8, 15, 22} \cup Knocks \cup Rates => line = 2 /\ ForMouse
  BY <1>1 DEF In, ForMouse, Knocks, Rates
<1>10. /\ part \in {8, 15, 22} \cup Knocks => ~mouse.expects_rate
       /\ part \in Rates => mouse.expects_rate
  BY <1>0, <1>5, <1>9 DEF RateInv, RatePlace, Knocks, Rates
<1>11. In(4, 1, 1) \/ In(23, 1, 1) => Answer(1, <<250>>)
  <2>1. In(4, 1, 1) \/ In(23, 1, 1) => Here.byte = 245 \/ Here.byte = 244
    BY <1>0, PlaceBytes DEF In
  <2> QED  BY <1>2, <1>4, <1>7, <2>1
<1>12. In(6, 1, 1) => Answer(1, <<250, 170>>)
  <2>1. In(6, 1, 1) => Here.byte = 255
    BY <1>0, PlaceBytes DEF In
  <2> QED  BY <1>2, <1>4, <1>7, <2>1
<1>13. In(7, 1, 1) => Answer(1, <<250, 171, 65>>)
  <2>1. In(7, 1, 1) => Here.byte = 242
    BY <1>0, PlaceBytes DEF In
  <2> QED  BY <1>2, <1>4, <1>7, <2>1
<1>14. In(4, 4, 4) \/ In(23, 4, 4) => ports = 2 /\ Answer(2, <<250>>)
  <2>1. In(4, 4, 4) \/ In(23, 4, 4) => Here.byte = 245 \/ Here.byte = 244
    BY <1>0, PlaceBytes DEF In
  <2> QED  BY <1>3, <1>5, <1>6, <1>8, <2>1
<1>15. part \in Knocks => ports = 2 /\ Answer(2, <<250>>)
  <2>1. part \in Knocks => Here.byte = 243
    BY <1>0, <1>9, PlaceBytes
  <2> QED  BY <1>3, <1>5, <1>6, <1>9, <1>10, <2>1
<1>16. part \in Rates => ports = 2 /\ Answer(2, <<250>>)
  BY <1>5, <1>6, <1>9, <1>10
<1>17. In(6, 5, 5) => ports = 2 /\ Answer(2, <<250, 170, 0>>)
  <2>1. In(6, 5, 5) => Here.byte = 255
    BY <1>0, PlaceBytes DEF In
  <2> QED  BY <1>3, <1>5, <1>6, <1>8, <2>1
<1>18. In(7, 6, 6) \/ part \in {8, 15, 22} => ports = 2 /\ Answer(2, <<250, mouse.id>>)
  <2>1. In(7, 6, 6) \/ part \in {8, 15, 22} => Here.byte = 242
    BY <1>0, <1>9, PlaceBytes DEF In
  <2> QED  BY <1>3, <1>5, <1>6, <1>8, <1>9, <1>10, <2>1
<1> QED  BY <1>1, <1>11, <1>12, <1>13, <1>14, <1>15, <1>16, <1>17, <1>18

\* An acknowledgement in front is the only one.
LEMMA SingleFirst ==
    ASSUME NEW q \in Seq(Bytes), Len(q) >= 1, q[1] = 250, \A j \in 2 .. Len(q) : q[j] # 250
    PROVE  Single(q) /\ q # <<>> /\ Head(q) = 250
<1>1. Len(q) \in Nat /\ 1 \in 1 .. Len(q) /\ q # <<>> /\ Head(q) = q[1]
  OBVIOUS
<1>2. \A j \in 1 .. Len(q) : j # 1 => j \in 2 .. Len(q)
  OBVIOUS
<1> QED  BY <1>1, <1>2, Codes DEF Single

\* Every data byte is answered, with one acknowledgement, which comes first.
LEMMA DataReply ==
    ASSUME Ps2Inv, OutData
    PROVE  \E dev \in {1, 2}, q \in Seq(Bytes) :
             /\ Answer(dev, q) /\ Single(q) /\ q # <<>> /\ Head(q) = 250 /\ (dev = 2 => ports = 2)
             /\ In(4, 1, 1) \/ In(23, 1, 1) => dev = 1 /\ Len(q) = 1
             /\ In(6, 1, 1) => dev = 1 /\ Len(q) = 2
             /\ In(7, 1, 1) => dev = 1 /\ Len(q) = 3
             /\ In(4, 4, 4) \/ In(23, 4, 4) \/ part \in Knocks \cup Rates => dev = 2 /\ Len(q) = 1
             /\ In(6, 5, 5) => dev = 2 /\ Len(q) = 3
             /\ In(7, 6, 6) \/ part \in {8, 15, 22} => dev = 2 /\ Len(q) = 2
<1> DEFINE Replied(dev, q, n) ==
             Answer(dev, q) /\ q \in Seq(Bytes) /\ Single(q) /\ q # <<>> /\ Head(q) = 250 /\ Len(q) = n /\ (dev = 2 => ports = 2)
<1>1. /\ 250 \in Bytes /\ 170 \in Bytes /\ 0 \in Bytes /\ 171 \in Bytes /\ 65 \in Bytes
      /\ mouse.id \in Bytes /\ mouse.id # 250
  BY DEF Ps2Inv, TypeInv, ValueTypes, Mouse, Bytes
<1>2. ASSUME In(4, 1, 1) \/ In(23, 1, 1) PROVE \E q : Replied(1, q, 1)
  <2>1. PICK q : q = <<250>>
    OBVIOUS
  <2>2. Answer(1, q) /\ (1 = 2 => ports = 2)
    BY <1>2, <2>1, DataAnswer
  <2>3. q \in Seq(Bytes) /\ Len(q) = 1 /\ q[1] = 250
    BY <1>1, <2>1
  <2>4. Single(q) /\ q # <<>> /\ Head(q) = 250
    BY <1>1, <2>3, SingleFirst
  <2> QED  BY <2>2, <2>3, <2>4
<1>3. ASSUME In(6, 1, 1) PROVE \E q : Replied(1, q, 2)
  <2>1. PICK q : q = <<250, 170>>
    OBVIOUS
  <2>2. Answer(1, q) /\ (1 = 2 => ports = 2)
    BY <1>3, <2>1, DataAnswer
  <2>3. q \in Seq(Bytes) /\ Len(q) = 2 /\ q[1] = 250 /\ q[2] = 170
    BY <1>1, <2>1
  <2>4. Single(q) /\ q # <<>> /\ Head(q) = 250
    BY <1>1, <2>3, SingleFirst
  <2> QED  BY <2>2, <2>3, <2>4
<1>4. ASSUME In(7, 1, 1) PROVE \E q : Replied(1, q, 3)
  <2>1. PICK q : q = <<250, 171, 65>>
    OBVIOUS
  <2>2. Answer(1, q) /\ (1 = 2 => ports = 2)
    BY <1>4, <2>1, DataAnswer
  <2>3. q \in Seq(Bytes) /\ Len(q) = 3 /\ q[1] = 250 /\ q[2] = 171 /\ q[3] = 65
    BY <1>1, <2>1
  <2>4. Single(q) /\ q # <<>> /\ Head(q) = 250
    BY <1>1, <2>3, SingleFirst
  <2> QED  BY <2>2, <2>3, <2>4
<1>5. ASSUME In(4, 4, 4) \/ In(23, 4, 4) \/ part \in Knocks \cup Rates PROVE \E q : Replied(2, q, 1)
  <2>1. PICK q : q = <<250>>
    OBVIOUS
  <2>2. Answer(2, q) /\ (2 = 2 => ports = 2)
    BY <1>5, <2>1, DataAnswer
  <2>3. q \in Seq(Bytes) /\ Len(q) = 1 /\ q[1] = 250
    BY <1>1, <2>1
  <2>4. Single(q) /\ q # <<>> /\ Head(q) = 250
    BY <1>1, <2>3, SingleFirst
  <2> QED  BY <2>2, <2>3, <2>4
<1>6. ASSUME In(6, 5, 5) PROVE \E q : Replied(2, q, 3)
  <2>1. PICK q : q = <<250, 170, 0>>
    OBVIOUS
  <2>2. Answer(2, q) /\ (2 = 2 => ports = 2)
    BY <1>6, <2>1, DataAnswer
  <2>3. q \in Seq(Bytes) /\ Len(q) = 3 /\ q[1] = 250 /\ q[2] = 170 /\ q[3] = 0
    BY <1>1, <2>1
  <2>4. Single(q) /\ q # <<>> /\ Head(q) = 250
    BY <1>1, <2>3, SingleFirst
  <2> QED  BY <2>2, <2>3, <2>4
<1>7. ASSUME In(7, 6, 6) \/ part \in {8, 15, 22} PROVE \E q : Replied(2, q, 2)
  <2>1. PICK q : q = <<250, mouse.id>>
    OBVIOUS
  <2>2. Answer(2, q) /\ (2 = 2 => ports = 2)
    BY <1>7, <2>1, DataAnswer
  <2>3. q \in Seq(Bytes) /\ Len(q) = 2 /\ q[1] = 250 /\ q[2] = mouse.id
    BY <1>1, <2>1
  <2>4. Single(q) /\ q # <<>> /\ Head(q) = 250
    BY <1>1, <2>3, SingleFirst
  <2> QED  BY <2>2, <2>3, <2>4
<1> HIDE DEF Replied
<1>8. \/ In(4, 1, 1) \/ In(23, 1, 1) \/ In(6, 1, 1) \/ In(7, 1, 1)
      \/ In(4, 4, 4) \/ In(23, 4, 4) \/ part \in Knocks \cup Rates \/ In(6, 5, 5)
      \/ In(7, 6, 6) \/ part \in {8, 15, 22}
  BY DataAnswer
<1>9. CASE In(4, 1, 1) \/ In(23, 1, 1)
  BY <1>2, <1>9 DEF Replied, In, Knocks, Rates
<1>10. CASE In(6, 1, 1)
  BY <1>3, <1>10 DEF Replied, In, Knocks, Rates
<1>11. CASE In(7, 1, 1)
  BY <1>4, <1>11 DEF Replied, In, Knocks, Rates
<1>12. CASE In(4, 4, 4) \/ In(23, 4, 4) \/ part \in Knocks \cup Rates
  BY <1>5, <1>12 DEF Replied, In, Knocks, Rates
<1>13. CASE In(6, 5, 5)
  BY <1>6, <1>13 DEF Replied, In, Knocks, Rates
<1>14. CASE In(7, 6, 6) \/ part \in {8, 15, 22}
  <2>1. /\ ~In(4, 1, 1) /\ ~In(23, 1, 1) /\ ~In(6, 1, 1) /\ ~In(7, 1, 1) /\ ~In(4, 4, 4) /\ ~In(23, 4, 4)
        /\ ~(part \in Knocks \cup Rates) /\ ~In(6, 5, 5)
    BY <1>14 DEF In, Knocks, Rates
  <2>2. PICK q : Replied(2, q, 2)
    BY <1>7, <1>14
  <2> QED  BY <2>1, <2>2 DEF Replied
<1> QED  BY <1>8, <1>9, <1>10, <1>11, <1>12, <1>13, <1>14

\* An answer when there was nothing under way comes first.
LEMMA FreshFirst ==
    ASSUME ValueTypes, NEW dev \in {1, 2}, NEW bytes \in Seq(Bytes), Answer(dev, bytes), full' = full,
           Count = 0, bytes # <<>>, Head(bytes) = 250
    PROVE  (dev = 1 => First(1)') /\ (dev = 2 => First(2)')
<1>1. ~full /\ \A s \in 0 .. 2 : pending[s] = <<>>
  BY Counts
<1>2. pending'[dev] = (IF drops THEN <<>> ELSE pending[dev]) \o bytes /\ \A t \in (0 .. 2) \ {dev} : pending'[t] = pending[t]
  BY DEF Answer, ValueTypes
<1>3. (IF drops THEN <<>> ELSE pending[dev]) = <<>> /\ <<>> \o bytes = bytes
  BY <1>1, ConcatEmptySeq
<1>4. pending'[dev] = bytes /\ \A t \in (0 .. 2) \ {dev} : pending'[t] = <<>>
  BY <1>1, <1>2, <1>3
<1> QED  BY <1>1, <1>4, Codes DEF First

\* A byte, and an answer of two bytes, after one another.
LEMMA OneAndTwo ==
    ASSUME NEW p \in Seq(Bytes), NEW q \in Seq(Bytes), NEW r \in Seq(Bytes),
           Len(p) = 1, Len(q) = 2, Len(r) = 3, r[1] = p[1], r[2] = q[1], r[3] = q[2]
    PROVE  p \o q = r
<1>1. p \o q \in Seq(Bytes) /\ Len(p \o q) = Len(p) + Len(q)
  BY ConcatProperties
<1>2. \A i \in 1 .. Len(p) + Len(q) : (p \o q)[i] = IF i <= Len(p) THEN p[i] ELSE q[i - Len(p)]
  BY ConcatProperties
<1>3. (p \o q)[1] = r[1] /\ (p \o q)[2] = r[2] /\ (p \o q)[3] = r[3]
  <2>1. 1 \in 1 .. Len(p) + Len(q) /\ 2 \in 1 .. Len(p) + Len(q) /\ 3 \in 1 .. Len(p) + Len(q)
    OBVIOUS
  <2>2. (p \o q)[1] = p[1]
    <3>1. 1 <= Len(p)
      OBVIOUS
    <3> QED  BY <1>2, <2>1, <3>1
  <2>3. (p \o q)[2] = q[1]
    <3>1. ~(2 <= Len(p)) /\ 2 - Len(p) = 1
      OBVIOUS
    <3> QED  BY <1>2, <2>1, <3>1
  <2>4. (p \o q)[3] = q[2]
    <3>1. ~(3 <= Len(p)) /\ 3 - Len(p) = 2
      OBVIOUS
    <3> QED  BY <1>2, <2>1, <3>1
  <2> QED  BY <2>2, <2>3, <2>4
<1>4. \A i \in 1 .. Len(p \o q) : (p \o q)[i] = r[i]
  <2> SUFFICES ASSUME NEW i \in 1 .. Len(p \o q) PROVE (p \o q)[i] = r[i]
    OBVIOUS
  <2>1. i = 1 \/ i = 2 \/ i = 3
    BY <1>1
  <2> QED  BY <1>3, <2>1
<1> QED  BY <1>1, <1>4, SeqEqual

LEMMA Prefixed == ASSUME NEW x \in Bytes, NEW id \in Bytes PROVE <<x>> \o <<250, id>> = <<x, 250, id>>
<1>1. 250 \in Bytes
  BY DEF Bytes
<1>2. <<x>> \in Seq(Bytes) /\ <<250, id>> \in Seq(Bytes) /\ <<x, 250, id>> \in Seq(Bytes)
  BY <1>1
<1>3. /\ Len(<<x>>) = 1 /\ Len(<<250, id>>) = 2 /\ Len(<<x, 250, id>>) = 3
      /\ <<x, 250, id>>[1] = <<x>>[1] /\ <<x, 250, id>>[2] = <<250, id>>[1] /\ <<x, 250, id>>[3] = <<250, id>>[2]
  OBVIOUS
<1> QED  BY <1>2, <1>3, OneAndTwo

\* An identity asked for with at most one byte under way.
LEMMA AskedNext ==
    ASSUME ValueTypes, MouseOnly, Count <= 1, NEW id \in Bytes, id # 250, Answer(2, <<250, id>>),
           full' = full, port' = port
    PROVE  Asked'
<1>1. pending[2] \in Seq(Bytes) /\ <<250, id>> \in Seq(Bytes) /\ PS2_ACK_BYTE = 250
  BY Codes DEF ValueTypes, Bytes
<1>2. pending'[2] = (IF drops THEN <<>> ELSE pending[2]) \o <<250, id>>
  BY DEF Answer, ValueTypes
<1>3. pending[2] = <<>> \/ (~full /\ Len(pending[2]) = 1)
  <2>1. PICK c \in Nat : c = Len(pending[2])
    BY <1>1
  <2>2. Count = (IF full THEN 1 ELSE 0) + 0 + 0 + c
    BY <2>1 DEF Count, MouseOnly
  <2>3. c = 0 \/ (~full /\ c = 1)
    BY <2>2
  <2> QED  BY <1>1, <2>1, <2>3
<1>4. CASE pending[2] = <<>> \/ drops
  <2>1. pending'[2] = <<250, id>>
    <3>1. (IF drops THEN <<>> ELSE pending[2]) = <<>> /\ <<>> \o <<250, id>> = <<250, id>>
      BY <1>1, <1>4, ConcatEmptySeq
    <3> QED  BY <1>2, <3>1
  <2> QED  BY <1>1, <2>1 DEF Asked
<1>5. CASE ~full /\ Len(pending[2]) = 1 /\ ~drops
  <2>1. PICK x \in Bytes : pending[2] = <<x>>
    <3>1. pending[2] = <<pending[2][1]>> /\ pending[2][1] \in Bytes
      BY <1>1, <1>5
    <3> QED  BY <3>1
  <2>2. <<x>> \o <<250, id>> = <<x, 250, id>>
    BY Prefixed
  <2>3. pending'[2] = <<x, 250, id>>
    BY <1>2, <1>5, <2>1, <2>2
  <2> QED  BY <1>1, <1>5, <2>3 DEF Asked
<1> QED  BY <1>3, <1>4, <1>5

\* A lone acknowledgement comes last.
LEMMA LastNext ==
    ASSUME ValueTypes, Answer(2, << 250 >>)
    PROVE  Last'
<1> DEFINE kept == IF drops THEN <<>> ELSE pending[2]
<1>1. pending'[2] = kept \o <<250>> /\ kept \in Seq(Bytes) /\ <<250>> \in Seq(Bytes)
  BY DEF Answer, ValueTypes, Bytes
<1> HIDE DEF kept
<1>2. Len(kept \o <<250>>) = Len(kept) + 1 /\ (kept \o <<250>>)[Len(kept) + 1] = 250
  BY <1>1
<1> QED  BY <1>1, <1>2, Codes DEF Last

\* The data byte and the answer to it, by place.
LEMMA LeftData ==
    ASSUME Ps2Inv, Ps2Inv', LeftInv, keys = 0, ~late, OutData
    PROVE  LeftInv'
<1>0. /\ TypeInv /\ ValueTypes /\ PlaceType /\ ports \in {1, 2} /\ ports' = ports /\ full' = full /\ port' = port
      /\ ~Done /\ Advance /\ ValueTypes'
  BY DEF Ps2Inv, TypeInv, ValueTypes, OutData, At
<1>1. /\ 250 \in Bytes /\ 170 \in Bytes /\ 0 \in Bytes /\ 171 \in Bytes /\ 65 \in Bytes
      /\ mouse.id \in Bytes /\ mouse.id # 250
  BY <1>0 DEF ValueTypes, Mouse, Bytes
<1>2. Stopped /\ First47 /\ Starting /\ (ports = 2 => Second47 /\ Asking)
  BY DEF LeftInv
<1>3. Count \in Nat /\ (Count = 0 => NoAck) /\ Count' \in Nat
  BY <1>0, Counts, CountsNext
<1>4. PICK dev \in {1, 2}, q \in Seq(Bytes) :
        /\ Answer(dev, q) /\ Single(q) /\ q # <<>> /\ Head(q) = 250 /\ (dev = 2 => ports = 2)
        /\ In(4, 1, 1) \/ In(23, 1, 1) => dev = 1 /\ Len(q) = 1
        /\ In(6, 1, 1) => dev = 1 /\ Len(q) = 2
        /\ In(7, 1, 1) => dev = 1 /\ Len(q) = 3
        /\ In(4, 4, 4) \/ In(23, 4, 4) \/ part \in Knocks \cup Rates => dev = 2 /\ Len(q) = 1
        /\ In(6, 5, 5) => dev = 2 /\ Len(q) = 3
        /\ In(7, 6, 6) \/ part \in {8, 15, 22} => dev = 2 /\ Len(q) = 2
  BY DataReply
<1>5. /\ Count' <= Count + Len(q) /\ (NoAck => OneAck')
       /\ \A t \in (0 .. 2) \ {dev} : pending'[t] = pending[t]
       /\ pending'[dev] = (IF drops THEN <<>> ELSE pending[dev]) \o q
  <2>1. ValueTypes /\ full' = full /\ port' = port
    BY <1>0
  <2>2. Answer(dev, q) /\ Single(q)
    BY <1>4
  <2>3. /\ \A t \in (0 .. 2) \ {dev} : pending'[t] = pending[t]
        /\ pending'[dev] = (IF drops THEN <<>> ELSE pending[dev]) \o q
    BY <2>1, <2>2 DEF Answer, ValueTypes
  <2>4. Count' <= Count + Len(q)
    BY <2>1, <2>2, Sent
  <2>5. NoAck => OneAck'
    BY <2>1, <2>2, Sent
  <2> QED  BY <2>3, <2>4, <2>5
<1>6. Count = 0 => (dev = 1 => First(1)') /\ (dev = 2 => First(2)')
  <2>1. ValueTypes /\ full' = full
    BY <1>0
  <2>2. Answer(dev, q) /\ q # <<>> /\ Head(q) = 250
    BY <1>4
  <2> QED  BY <2>1, <2>2, FreshFirst
<1>7. dev = 2 /\ MouseOnly => MouseOnly'
  BY <1>4, <1>5 DEF MouseOnly
<1>8. CASE In(4, 1, 1) \/ In(4, 4, 4)
  <2>1. Count = 0 /\ NoAck /\ Len(q) = 1 /\ (ports = 2 \/ In(4, 1, 1))
    <3>1. (ports = 2 \/ In(4, 1, 1)) /\ Len(q) = 1
      BY <1>8, <1>4
    <3> QED  BY <1>2, <1>3, <1>8, <3>1 DEF First47, Second47, In, Idle
  <2>2. Count' <= 1 /\ OneAck'
    BY <1>3, <1>5, <2>1
  <2>3. In(4, 2, 2)' \/ (In(4, 5, 5)' /\ ports' = 2)
    BY <1>0, <1>8, <2>1, Onward DEF In, LinesOf
  <2>4. part' \in 4 .. 7 /\ (ports' = 2 \/ ~ForSecond')
    <3>1. part' = 4
      BY <2>3 DEF In
    <3>2. ports' = 2 \/ line' = 2
      BY <2>3 DEF In
    <3>3. part' = 4 /\ line' = 2 => ~ForSecond'
      BY DEF ForSecond, In
    <3> QED  BY <3>1, <3>2, <3>3
  <2>5. First47' /\ Second47'
    BY <2>2, <2>3 DEF First47, Second47, In, One
  <2> QED  BY <2>4, <2>5, LeftFirst
<1>9. CASE In(6, 1, 1)
  <2>1. Count = 0 /\ NoAck /\ Len(q) = 2 /\ dev = 1
    BY <1>2, <1>3, <1>9, <1>4 DEF First47, In, Idle
  <2>2. Count' <= 2 /\ OneAck' /\ First(1)'
    BY <1>3, <1>5, <1>6, <2>1
  <2>3. In(6, 2, 2)'
    BY <1>0, <1>9, Onward DEF In, LinesOf
  <2>4. part' \in 4 .. 7 /\ First47' /\ Second47' /\ ~ForSecond'
    BY <2>2, <2>3 DEF First47, Second47, ForSecond, In, One
  <2> QED  BY <2>4, LeftFirst
<1>10. CASE In(6, 5, 5)
  <2>1. ports = 2 /\ ports' = 2 /\ dev = 2 /\ Len(q) = 3
    BY <1>0, <1>10, <1>4
  <2>2. Count = 0 /\ NoAck
    BY <1>2, <1>3, <1>10, <2>1 DEF Second47, In, Idle
  <2>3. Count' <= 3 /\ OneAck' /\ First(2)'
    BY <1>3, <1>5, <1>6, <2>1, <2>2
  <2>4. In(6, 6, 6)'
    BY <1>0, <1>10, Onward DEF In, LinesOf
  <2>5. part' \in 4 .. 7 /\ First47' /\ Second47'
    BY <2>3, <2>4 DEF First47, Second47, In, One
  <2> QED  BY <2>1, <2>5, LeftFirst
<1>11. CASE In(7, 1, 1)
  <2>1. Count <= ports - 1 /\ NoAck /\ Len(q) = 3
    BY <1>2, <1>11, <1>4 DEF First47, In, Idle
  <2>2. Count' <= 2 + ports' /\ OneAck'
    BY <1>0, <1>3, <1>5, <2>1
  <2>3. In(7, 2, 2)'
    BY <1>0, <1>11, Onward DEF In, LinesOf
  <2>4. part' \in 4 .. 7 /\ First47' /\ Second47' /\ ~ForSecond'
    BY <2>2, <2>3 DEF First47, Second47, ForSecond, In, One
  <2> QED  BY <2>4, LeftFirst
<1>12. CASE In(7, 6, 6)
  <2>1. ports = 2 /\ ports' = 2 /\ Len(q) = 2
    BY <1>0, <1>12, <1>4
  <2>2. Count <= 1 /\ NoAck
    BY <1>2, <1>12, <2>1 DEF Second47, In, Idle
  <2>3. Count' <= 3 /\ OneAck'
    BY <1>3, <1>5, <2>1, <2>2
  <2>4. In(7, 7, 7)'
    BY <1>0, <1>12, Onward DEF In, LinesOf
  <2>5. part' \in 4 .. 7 /\ First47' /\ Second47'
    BY <2>3, <2>4 DEF First47, Second47, In, One
  <2> QED  BY <2>1, <2>5, LeftFirst
<1>13. CASE part \in 8 .. 22
  <2>1. line = 2 /\ part \in {8, 15, 22} \cup Knocks \cup Rates
    BY <1>13, DataAnswer DEF In
  <2>2. ports = 2 /\ ports' = 2 /\ dev = 2
    BY <1>0, <1>4, <2>1
  <2>3. MouseOnly /\ Count <= 1 /\ (part = 8 => Count = 0 /\ NoAck)
    BY <1>2, <1>3, <1>13, <2>1, <2>2 DEF Asking, In, Idle
  <2>4. part' = part /\ line' = 3
    BY <1>0, <1>13, <2>1, Onward DEF LinesOf
  <2>5. MouseOnly'
    BY <1>7, <2>2, <2>3
  <2>6. part \in Knocks \cup Rates => Count' <= 2
    <3> SUFFICES ASSUME part \in Knocks \cup Rates PROVE Count' <= 2
      OBVIOUS
    <3>1. Count <= 1 /\ Len(q) = 1
      BY <1>4, <2>3
    <3>2. Count' <= Count + Len(q)
      BY <1>5
    <3> QED  BY <1>3, <3>1, <3>2
  <2>7. part = 8 => Count' <= 2 /\ OneAck' /\ First(2)'
    <3>1. part = 8 => Len(q) = 2
      BY <1>4
    <3>2. part = 8 => Count' <= 2
      <4> SUFFICES ASSUME part = 8 PROVE Count' <= 2
        OBVIOUS
      <4>1. Count = 0 /\ Len(q) = 2
        BY <2>3, <3>1
      <4>2. Count' <= Count + Len(q)
        BY <1>5
      <4> QED  BY <1>3, <4>1, <4>2
    <3>3. part = 8 => OneAck' /\ First(2)'
      BY <1>5, <1>6, <2>2, <2>3
    <3> QED  BY <3>2, <3>3
  <2>8. part \in {15, 22} => Asked'
    <3>1. part \in {15, 22} => Answer(2, <<250, mouse.id>>)
      BY DataAnswer
    <3> QED  BY <1>0, <1>1, <2>3, <3>1, AskedNext
  <2>9. Asking'
    BY <1>13, <2>4, <2>5, <2>6, <2>7, <2>8 DEF Asking, In, One
  <2> QED  BY <1>13, <2>2, <2>4, <2>9, LeftAsking
<1>14. CASE In(23, 1, 1)
  <2>1. MouseOnly /\ Count <= ports - 1 /\ NoAck /\ dev = 1 /\ Len(q) = 1
    BY <1>2, <1>14, <1>4 DEF Starting, In, Idle
  <2>2. pending'[0] = <<>> /\ pending'[1] = <<250>>
    <3>1. Answer(1, <<250>>)
      BY <1>14, DataAnswer
    <3>2. pending'[1] = (IF drops THEN <<>> ELSE pending[1]) \o <<250>>
      BY <1>0, <3>1 DEF Answer, ValueTypes
    <3>3. (IF drops THEN <<>> ELSE pending[1]) = <<>> /\ <<>> \o <<250>> = <<250>>
      BY <2>1 DEF MouseOnly
    <3>4. pending'[0] = pending[0]
      BY <1>5, <2>1
    <3> QED  BY <2>1, <3>2, <3>3, <3>4 DEF MouseOnly
  <2>3. In(23, 2, 2)'
    BY <1>0, <1>14, Onward DEF In, LinesOf
  <2>4. Count' <= ports' /\ OneAck'
    BY <1>0, <1>3, <1>5, <2>1
  <2>5. <<PS2_ACK_BYTE>> = <<250>>
    BY Codes
  <2>6. Starting'
    BY <2>2, <2>3, <2>4, <2>5 DEF Starting, In, One
  <2>7. part' \in {23, 24} /\ ~ForSecond'
    BY <2>3 DEF ForSecond, In
  <2> QED  BY <2>6, <2>7, LeftStarting
<1>15. CASE In(23, 4, 4)
  <2>1. ports = 2 /\ ports' = 2 /\ Len(q) = 1 /\ dev = 2 /\ Answer(2, <<250>>)
    BY <1>0, <1>15, <1>4, DataAnswer
  <2>2. MouseOnly /\ Count <= 1 /\ NoAck
    BY <1>2, <1>15, <2>1 DEF Starting, In, Idle
  <2>3. Count' <= 2 /\ OneAck' /\ MouseOnly' /\ Last'
    BY <1>0, <1>3, <1>5, <1>7, <2>1, <2>2, LastNext
  <2>4. In(23, 5, 5)'
    BY <1>0, <1>15, Onward DEF In, LinesOf
  <2>5. part' \in {23, 24} /\ Starting'
    BY <2>3, <2>4 DEF Starting, In, One
  <2> QED  BY <2>1, <2>5, LeftStarting
<1>16. part \in {8, 15, 22} \cup Knocks \cup Rates => part \in 8 .. 22
  BY DEF Knocks, Rates
<1> QED  BY <1>8, <1>9, <1>10, <1>11, <1>12, <1>13, <1>14, <1>15, <1>16, DataAnswer

-----------------------------------------------------------------------------
(* The steps that take a byte.                                             *)

\* A byte is taken if there is one, and whether it was the acknowledgement
\* decides what is still under way.
LEMMA Reading ==
    ASSUME Ps2Inv, Ps2Inv', ~late', part >= 4, GetStatus \/ AwaitAck \/ mouse_read
    PROVE  /\ TypeInv /\ ValueTypes /\ PlaceType /\ ports \in {1, 2} /\ ports' = ports /\ ~Done /\ Place
           /\ pending' = pending /\ ~full' /\ port' = port
           /\ Count \in Nat /\ Count' \in Nat /\ (Count' = 0 => NoAck' /\ MouseOnly')
           /\ full \/ Count = 0
           /\ full => Count' = Count - 1
           /\ ~full => Count' = 0
           /\ NoAck => NoAck'
           /\ OneAck => full /\ IF port = PS2_ACK_BYTE THEN NoAck' ELSE OneAck'
           /\ Here.dual => ports = 2
<1>0. /\ TypeInv /\ ValueTypes /\ PlaceType /\ DualInv /\ ConfigInv /\ ports \in {1, 2} /\ ValueTypes' /\ late' \in BOOLEAN
  BY DEF Ps2Inv, TypeInv, ValueTypes
<1>1. /\ ~Done /\ (Here.dual => is_dual_device) /\ Waited /\ full' = FALSE /\ pending' = pending /\ port' = port /\ ports' = ports
  BY DEF GetStatus, AwaitAck, mouse_read, ReadStatus, At, deviceVars
<1>2. late' = FALSE
  BY <1>0
<1>3. Place
  BY <1>0, <1>1, Standing
<1>4. Here.dual => ports = 2
  BY <1>0, <1>1 DEF DualInv
<1>5. Count \in Nat /\ Count' \in Nat
  BY <1>0, Counts, CountsNext
<1>6. Count' = 0 => MouseOnly' /\ NoAck'
  <2>1. Count' = 0 => \A s \in 0 .. 2 : pending'[s] = <<>>
    BY <1>0, CountsNext
  <2> QED  BY <1>1, <2>1 DEF MouseOnly, NoAck, AckRead, Clean
<1>7. /\ full \/ Count = 0
      /\ Count' = IF full THEN Count - 1 ELSE 0
      /\ NoAck => NoAck'
      /\ OneAck => full /\ IF port = PS2_ACK_BYTE THEN NoAck' ELSE OneAck'
  BY <1>0, <1>1, <1>2, Taken
<1> QED  BY <1>0, <1>1, <1>3, <1>4, <1>5, <1>6, <1>7

\* A reading moves on whatever it reads.
LEMMA LeftGet ==
    ASSUME Ps2Inv, Ps2Inv', LeftInv, keys = 0, ~late, ~late', GetStatus, part >= 4
    PROVE  LeftInv'
<1>0. /\ TypeInv /\ ValueTypes /\ PlaceType /\ ports \in {1, 2} /\ ports' = ports /\ ~Done /\ Place
      /\ pending' = pending /\ ~full' /\ port' = port /\ Advance /\ status' = port
      /\ Count \in Nat /\ Count' \in Nat /\ (Count' = 0 => NoAck' /\ MouseOnly')
  BY Reading DEF GetStatus, ReadStatus
<1>1. /\ full \/ Count = 0
      /\ full => Count' = Count - 1
      /\ ~full => Count' = 0
      /\ NoAck => NoAck'
      /\ OneAck => full /\ IF port = PS2_ACK_BYTE THEN NoAck' ELSE OneAck'
      /\ Here.dual => ports = 2
  BY Reading
<1>2. Stopped /\ First47 /\ Starting /\ (ports = 2 => Second47 /\ Asking)
  BY DEF LeftInv
<1>3. \/ In(5, 2, 2) \/ In(5, 4, 4) \/ In(6, 2, 2) \/ In(6, 3, 3) \/ In(6, 6, 6) \/ In(6, 7, 7)
      \/ In(7, 3, 3) \/ In(7, 4, 4) \/ In(7, 8, 8) \/ In(7, 9, 9)
  <2>1. Here.op = "get" \/ Here.op = "get_more"
    BY DEF GetStatus, At
  <2> QED  BY <1>0, <2>1, ReadPlaces, SinglePlaces DEF In
<1>4. In(5, 4, 4) \/ In(6, 6, 6) \/ In(6, 7, 7) \/ In(7, 8, 8) \/ In(7, 9, 9) => ports = 2
  BY <1>0, <1>1, WritePlaces DEF In
<1>5. ASSUME NEW n \in Nat, Count <= n + 1 PROVE Count' <= n
  BY <1>0, <1>1, <1>5
<1>6. CASE In(5, 2, 2) \/ In(5, 4, 4)
  <2>1. Count <= 0 + 1 /\ NoAck
    BY <1>2, <1>4, <1>6 DEF First47, Second47, In, Idle
  <2>2. Count' <= 0 /\ NoAck'
    BY <1>1, <1>5, <2>1
  <2>3. In(5, 3, 3)' \/ In(6, 1, 1)'
    BY <1>0, <1>6, Onward DEF In, LinesOf
  <2>4. Idle(0)'
    BY <2>2 DEF Idle
  <2>5. First47' /\ Second47'
    BY <2>2, <2>3 DEF First47, Second47, In, Idle
  <2>6. part' \in 4 .. 7
    BY <2>3 DEF In
  <2> QED  BY <2>4, <2>5, <2>6, LeftFirst
<1>7. CASE In(6, 2, 2)
  <2>1. Count <= 1 + 1 /\ OneAck /\ First(1)
    BY <1>2, <1>7 DEF First47, In, One
  <2>2. Count' <= 1 /\ NoAck' /\ status' = PS2_ACK_BYTE
    <3>1. full /\ port = PS2_ACK_BYTE
      BY <1>1, <2>1 DEF First
    <3> QED  BY <1>0, <1>1, <1>5, <2>1, <3>1
  <2>3. In(6, 3, 3)'
    BY <1>0, <1>7, Onward DEF In, LinesOf
  <2>4. part' \in 4 .. 7 /\ First47' /\ Second47' /\ ~ForSecond'
    BY <2>2, <2>3 DEF First47, Second47, ForSecond, In, Idle
  <2> QED  BY <2>4, LeftFirst
<1>8. CASE In(6, 3, 3)
  <2>1. Count <= 0 + 1 /\ NoAck
    BY <1>2, <1>8 DEF First47, In, Idle
  <2>2. Count' <= 0 /\ NoAck'
    BY <1>1, <1>5, <2>1
  <2>3. In(6, 4, 4)'
    BY <1>0, <1>8, Onward DEF In, LinesOf
  <2>4. part' \in 4 .. 7 /\ First47' /\ Second47' /\ Idle(0)'
    BY <2>2, <2>3 DEF First47, Second47, In, Idle
  <2> QED  BY <2>4, LeftFirst
<1>9. CASE In(6, 6, 6)
  <2>1. Count <= 2 + 1 /\ OneAck /\ First(2)
    BY <1>2, <1>4, <1>9 DEF Second47, In, One
  <2>2. Count' <= 2 /\ NoAck' /\ status' = PS2_ACK_BYTE
    <3>1. full /\ port = PS2_ACK_BYTE
      BY <1>1, <2>1 DEF First
    <3> QED  BY <1>0, <1>1, <1>5, <2>1, <3>1
  <2>3. In(6, 7, 7)'
    BY <1>0, <1>9, Onward DEF In, LinesOf
  <2>4. part' \in 4 .. 7 /\ First47' /\ Second47'
    BY <2>2, <2>3 DEF First47, Second47, In, Idle
  <2> QED  BY <1>0, <1>4, <1>9, <2>4, LeftFirst
<1>10. CASE In(6, 7, 7)
  <2>1. Count <= 1 + 1 /\ NoAck /\ ports' - 1 = 1
    BY <1>0, <1>2, <1>4, <1>10 DEF Second47, In, Idle
  <2>2. Count' <= 1 /\ NoAck'
    BY <1>1, <1>5, <2>1
  <2>3. In(7, 1, 1)'
    BY <1>0, <1>10, Onward DEF In, LinesOf
  <2>4. part' \in 4 .. 7 /\ First47' /\ Second47'
    BY <2>1, <2>2, <2>3 DEF First47, Second47, In, Idle
  <2> QED  BY <1>0, <1>4, <1>10, <2>4, LeftFirst
<1>11. CASE In(7, 3, 3) \/ In(7, 4, 4)
  <2>1. (In(7, 3, 3) => Count <= 1 + ports) /\ (In(7, 4, 4) => Count <= ports) /\ NoAck
    BY <1>2, <1>11 DEF First47, In, Idle
  <2>2. (In(7, 3, 3) => Count' <= ports') /\ (In(7, 4, 4) => Count' <= ports' - 1)
    BY <1>0, <1>1, <2>1
  <2>3. NoAck'
    BY <1>1, <2>1
  <2>4. (In(7, 3, 3) /\ In(7, 4, 4)') \/ (In(7, 4, 4) /\ In(7, 5, 5)')
    BY <1>0, <1>11, Onward DEF In, LinesOf
  <2>5. In(7, 5, 5)' => Count' <= ports' - 1
    BY <2>2, <2>4 DEF In
  <2>6. In(7, 4, 4)' => Count' <= ports'
    BY <2>2, <2>4 DEF In
  <2>7. part' = 7 /\ line' \in {4, 5}
    BY <2>4 DEF In
  <2>8. First47'
    BY <2>3, <2>6, <2>7 DEF First47, In, Idle
  <2>9. CASE ports = 2
    <3>1. Second47'
      BY <1>0, <2>3, <2>5, <2>7, <2>9 DEF Second47, In, Idle
    <3> QED  BY <1>0, <2>7, <2>8, <2>9, <3>1, LeftFirst
  <2>10. CASE ports = 1
    <3>1. ForSecond' => In(7, 5, 5)'
      BY <2>7 DEF ForSecond, In
    <3>2. ForSecond' => Idle(0)'
      BY <1>0, <2>3, <2>5, <2>10, <3>1 DEF Idle
    <3> QED  BY <1>0, <2>7, <2>8, <2>10, <3>2, LeftFirst
  <2> QED  BY <1>0, <2>9, <2>10
<1>12. CASE In(7, 8, 8)
  <2>1. Count <= 1 + 1 /\ NoAck
    BY <1>2, <1>4, <1>12 DEF Second47, In, Idle
  <2>2. Count' <= 1 /\ NoAck'
    BY <1>1, <1>5, <2>1
  <2>3. In(7, 9, 9)'
    BY <1>0, <1>12, Onward DEF In, LinesOf
  <2>4. part' \in 4 .. 7 /\ First47' /\ Second47'
    BY <2>2, <2>3 DEF First47, Second47, In, Idle
  <2> QED  BY <1>0, <1>4, <1>12, <2>4, LeftFirst
<1>13. CASE In(7, 9, 9)
  <2>1. Count <= 0 + 1 /\ NoAck
    BY <1>2, <1>4, <1>13 DEF Second47, In, Idle
  <2>2. Count' <= 0
    BY <1>5, <2>1
  <2>3. Count' <= 0 /\ NoAck' /\ MouseOnly'
    BY <1>0, <2>2
  <2>4. In(8, 1, 1)'
    BY <1>0, <1>13, Onward DEF In, LinesOf
  <2>5. Asking'
    BY <2>3, <2>4 DEF Asking, In, Idle, Knocks, Rates
  <2>6. part' \in 8 .. 22
    BY <2>4 DEF In
  <2> QED  BY <1>0, <1>4, <1>13, <2>5, <2>6, LeftAsking
<1> QED  BY <1>3, <1>6, <1>7, <1>8, <1>9, <1>10, <1>11, <1>12, <1>13

\* The loops read on until the acknowledgement is there.
LEMMA LeftAwait ==
    ASSUME Ps2Inv, Ps2Inv', LeftInv, keys = 0, ~late, ~late', AwaitAck
    PROVE  LeftInv'
<1> part >= 4
  BY OtherPlaces DEF Ps2Inv
<1>0. /\ TypeInv /\ ValueTypes /\ PlaceType /\ ports \in {1, 2} /\ ports' = ports /\ ~Done /\ Place
      /\ pending' = pending /\ ~full' /\ port' = port
      /\ Count \in Nat /\ Count' \in Nat /\ (Count' = 0 => NoAck' /\ MouseOnly')
  BY Reading
<1>1. /\ full \/ Count = 0
      /\ full => Count' = Count - 1
      /\ ~full => Count' = 0
      /\ NoAck => NoAck'
      /\ OneAck => full /\ IF port = PS2_ACK_BYTE THEN NoAck' ELSE OneAck'
      /\ Here.dual => ports = 2
  BY Reading
<1>2. Stopped /\ First47 /\ Starting /\ (ports = 2 => Second47 /\ Asking)
  BY DEF LeftInv
<1>3. \/ In(4, 2, 2) \/ In(4, 5, 5) \/ In(7, 2, 2) \/ In(7, 7, 7) \/ (part \in {15, 22} /\ line = 3)
      \/ In(23, 2, 2) \/ In(23, 5, 5)
  <2>1. Here.op = "ack"
    BY DEF AwaitAck, At
  <2> QED  BY <1>0, <2>1, ReadPlaces DEF In
<1>4. In(4, 5, 5) \/ In(7, 7, 7) \/ (part \in {15, 22} /\ line = 3) \/ In(23, 5, 5) => ports = 2
  BY <1>0, <1>1, WritePlaces DEF In
<1>5. ASSUME NEW n \in Nat, Count <= n + 1 PROVE Count' <= n
  BY <1>0, <1>1, <1>5
<1>6. Count' <= Count
  BY <1>0, <1>1
<1>7. IF port = PS2_ACK_BYTE THEN Advance ELSE part' = part /\ line' = line
  BY DEF AwaitAck, pcVars
<1>8. MouseOnly => MouseOnly'
  BY <1>0 DEF MouseOnly
<1>9. CASE In(4, 2, 2) \/ In(4, 5, 5)
  <2>1. Count <= 0 + 1 /\ OneAck
    BY <1>2, <1>4, <1>9 DEF First47, Second47, In, One
  <2>2. full /\ Count' <= 0 /\ Count' = 0 /\ NoAck'
    BY <1>0, <1>1, <1>5, <2>1
  <2>3. port = PS2_ACK_BYTE
    <3>1. ~full' /\ \A s \in 0 .. 2 : pending[s] = <<>>
      BY <1>0, <2>2, CountsNext DEF Ps2Inv, TypeInv
    <3>2. \A s \in 1 .. 2 : ~Single(pending[s])
      <4>1. ~Single(<<>>)
        BY DEF Single
      <4> QED  BY <3>1, <4>1
    <3> QED  BY <2>1, <3>2 DEF OneAck, AckRead
  <2>4. In(4, 3, 3)' \/ In(5, 1, 1)'
    BY <1>0, <1>7, <1>9, <2>3, Onward DEF In, LinesOf
  <2>5. Idle(0)'
    BY <2>2 DEF Idle
  <2>6. First47' /\ Second47'
    BY <2>2, <2>4 DEF First47, Second47, In, Idle
  <2>7. part' \in 4 .. 7
    BY <2>4 DEF In
  <2> QED  BY <2>5, <2>6, <2>7, LeftFirst
<1>10. CASE In(7, 2, 2)
  <2>1. Count <= 2 + ports /\ OneAck
    BY <1>2, <1>10 DEF First47, In, One
  <2>2. Count' <= 1 + ports' /\ Count' <= 2 + ports'
    BY <1>0, <1>1, <2>1
  <2>3. CASE port = PS2_ACK_BYTE
    <3>1. In(7, 3, 3)' /\ NoAck'
      BY <1>0, <1>1, <1>7, <1>10, <2>1, <2>3, Onward DEF In, LinesOf
    <3>2. part' \in 4 .. 7 /\ First47' /\ Second47' /\ ~ForSecond'
      BY <2>2, <3>1 DEF First47, Second47, ForSecond, In, Idle
    <3> QED  BY <3>2, LeftFirst
  <2>4. CASE port # PS2_ACK_BYTE
    <3>1. In(7, 2, 2)' /\ OneAck'
      BY <1>1, <1>7, <1>10, <2>1, <2>4 DEF In
    <3>2. part' \in 4 .. 7 /\ First47' /\ Second47' /\ ~ForSecond'
      BY <2>2, <3>1 DEF First47, Second47, ForSecond, In, One
    <3> QED  BY <3>2, LeftFirst
  <2> QED  BY <2>3, <2>4
<1>11. CASE In(7, 7, 7)
  <2>1. Count <= 2 + 1 /\ OneAck
    BY <1>2, <1>4, <1>11 DEF Second47, In, One
  <2>2. Count' <= 2 /\ Count' <= 3
    BY <1>0, <1>5, <2>1
  <2>3. CASE port = PS2_ACK_BYTE
    <3>1. In(7, 8, 8)' /\ NoAck'
      BY <1>0, <1>1, <1>7, <1>11, <2>1, <2>3, Onward DEF In, LinesOf
    <3>2. part' \in 4 .. 7 /\ First47' /\ Second47'
      BY <2>2, <3>1 DEF First47, Second47, In, Idle
    <3> QED  BY <1>0, <1>4, <1>11, <3>2, LeftFirst
  <2>4. CASE port # PS2_ACK_BYTE
    <3>1. In(7, 7, 7)' /\ OneAck'
      BY <1>1, <1>7, <1>11, <2>1, <2>4 DEF In
    <3>2. part' \in 4 .. 7 /\ First47' /\ Second47'
      BY <2>2, <3>1 DEF First47, Second47, In, One
    <3> QED  BY <1>0, <1>4, <1>11, <3>2, LeftFirst
  <2> QED  BY <2>3, <2>4
<1>12. CASE part \in {15, 22} /\ line = 3
  <2>1. MouseOnly /\ Asked /\ ports = 2
    BY <1>2, <1>4, <1>12 DEF Asking
  <2>2. PICK x \in Bytes, id \in Bytes :
          /\ id # PS2_ACK_BYTE
          /\ IF full THEN \/ port = PS2_ACK_BYTE /\ pending[2] = <<id>>
                          \/ pending[2] = <<PS2_ACK_BYTE, id>>
                     ELSE pending[2] \in {<<PS2_ACK_BYTE, id>>, <<x, PS2_ACK_BYTE, id>>}
    BY <2>1 DEF Asked
  <2>3. full
    <3>1. ~full => pending[2] # <<>>
      <4>1. <<PS2_ACK_BYTE, id>> # <<>> /\ <<x, PS2_ACK_BYTE, id>> # <<>>
        OBVIOUS
      <4> QED  BY <2>2, <4>1
    <3>2. Count # 0
      BY <1>0, <3>1, Counts
    <3> QED  BY <1>1, <3>2
  <2>4. CASE port = PS2_ACK_BYTE
    <3>1. part' = part /\ line' = 4
      BY <1>0, <1>7, <1>12, <2>4, Onward DEF LinesOf
    <3>2. Told'
      BY <1>0, <2>2, <2>3 DEF Told
    <3>3. Asking'
      BY <1>8, <1>12, <2>1, <3>1, <3>2 DEF Asking, In, Knocks, Rates
    <3> QED  BY <1>0, <1>12, <2>1, <3>1, <3>3, LeftAsking
  <2>5. CASE port # PS2_ACK_BYTE
    <3>1. part' = part /\ line' = 3
      BY <1>7, <1>12, <2>5
    <3>2. pending'[2] = <<PS2_ACK_BYTE, id>>
      BY <1>0, <2>2, <2>3, <2>5
    <3>3. Asked'
      BY <1>0, <2>2, <3>2 DEF Asked
    <3>4. Asking'
      BY <1>8, <1>12, <2>1, <3>1, <3>3 DEF Asking, In, Knocks, Rates
    <3> QED  BY <1>0, <1>12, <2>1, <3>1, <3>4, LeftAsking
  <2> QED  BY <2>4, <2>5
<1>13. CASE In(23, 2, 2)
  <2>1. Count <= ports /\ OneAck /\ pending[0] = <<>> /\ pending[1] \in {<<>>, <<PS2_ACK_BYTE>>}
    BY <1>2, <1>13 DEF Starting, In, One
  <2>2. Count' <= ports' - 1 /\ Count' <= ports'
    BY <1>0, <1>1, <2>1
  <2>3. CASE port = PS2_ACK_BYTE
    <3>1. In(23, 3, 3)' /\ NoAck'
      BY <1>0, <1>1, <1>7, <1>13, <2>1, <2>3, Onward DEF In, LinesOf
    <3>2. MouseOnly'
      <4>1. ~Clean(<<PS2_ACK_BYTE>>)
        BY DEF Clean
      <4>2. Clean(pending'[1])
        BY <3>1 DEF NoAck
      <4> QED  BY <1>0, <2>1, <4>1, <4>2 DEF MouseOnly
    <3>3. (ports = 2 => Count' <= 1) /\ (ports = 1 => Count' <= 0)
      BY <1>0, <2>2
    <3>4. Starting'
      BY <1>0, <3>1, <3>2, <3>3 DEF Starting, In, Idle
    <3>5. ports = 1 => Idle(0)'
      BY <3>1, <3>3 DEF Idle
    <3>6. part' \in {23, 24}
      BY <3>1 DEF In
    <3> QED  BY <1>0, <3>4, <3>5, <3>6, LeftStarting
  <2>4. CASE port # PS2_ACK_BYTE
    <3>1. In(23, 2, 2)' /\ OneAck'
      BY <1>1, <1>7, <1>13, <2>1, <2>4 DEF In
    <3>2. Starting'
      BY <1>0, <2>1, <2>2, <3>1 DEF Starting, In, One
    <3>3. part' \in {23, 24} /\ ~ForSecond'
      BY <3>1 DEF ForSecond, In
    <3> QED  BY <3>2, <3>3, LeftStarting
  <2> QED  BY <2>3, <2>4
<1>14. CASE In(23, 5, 5)
  <2>1. Count <= 1 + 1 /\ OneAck /\ MouseOnly /\ Last /\ ports = 2
    BY <1>2, <1>4, <1>14 DEF Starting, In, One
  <2>2. Count' <= 1 /\ Count' <= 2
    BY <1>0, <1>5, <2>1
  <2>3. CASE port = PS2_ACK_BYTE
    <3>1. part' = 24 /\ line' = 1 /\ NoAck'
      BY <1>0, <1>1, <1>7, <1>14, <2>1, <2>3, Onward DEF In, LinesOf
    <3>2. pending[2] = <<>>
      <4>1. pending[2] \in Seq(Bytes) /\ Clean(pending[2])
        BY <1>0, <3>1 DEF ValueTypes, NoAck
      <4>2. pending[2] # <<>> => Len(pending[2]) \in 1 .. Len(pending[2])
        BY <4>1
      <4> QED  BY <2>1, <4>1, <4>2 DEF Last, Clean
    <3>3. Count' = 0
      <4>1. ~full' /\ \A s \in 0 .. 2 : pending'[s] = <<>>
        BY <1>0, <2>1, <3>2 DEF MouseOnly
      <4> QED  BY <4>1, CountsNext DEF Ps2Inv, TypeInv
    <3>4. Count' <= 0
      BY <3>3
    <3>5. Starting'
      BY <3>1, <3>4 DEF Starting, In, Idle
    <3> QED  BY <1>0, <2>1, <3>1, <3>5, LeftStarting
  <2>4. CASE port # PS2_ACK_BYTE
    <3>1. In(23, 5, 5)' /\ OneAck'
      BY <1>1, <1>7, <1>14, <2>1, <2>4 DEF In
    <3>2. Last'
      BY <1>0, <2>1 DEF Last
    <3>3. Starting'
      BY <1>0, <1>8, <2>1, <2>2, <3>1, <3>2 DEF Starting, In, One
    <3>4. part' \in {23, 24}
      BY <3>1 DEF In
    <3> QED  BY <1>0, <2>1, <3>3, <3>4, LeftStarting
  <2> QED  BY <2>3, <2>4
<1> QED  BY <1>3, <1>9, <1>10, <1>11, <1>12, <1>13, <1>14

\* mouse_read moves on whatever it reads.
LEMMA LeftMouseRead ==
    ASSUME Ps2Inv, Ps2Inv', LeftInv, keys = 0, ~late, ~late', mouse_read
    PROVE  LeftInv'
<1> part >= 4
  <2>1. part \in Nat /\ part >= 8
    BY OtherPlaces DEF Ps2Inv, TypeInv, PlaceType
  <2> QED  BY <2>1
<1>0. /\ TypeInv /\ ValueTypes /\ PlaceType /\ ports \in {1, 2} /\ ports' = ports /\ ~Done /\ Place /\ Advance
      /\ pending' = pending /\ ~full' /\ port' = port
      /\ Count \in Nat /\ Count' \in Nat /\ (Count' = 0 => NoAck' /\ MouseOnly')
  BY Reading DEF mouse_read
<1>1. /\ full \/ Count = 0
      /\ full => Count' = Count - 1
      /\ ~full => Count' = 0
      /\ OneAck => full /\ IF port = PS2_ACK_BYTE THEN NoAck' ELSE OneAck'
      /\ Here.dual => ports = 2
  BY Reading
<1>2. \/ In(8, 3, 3) \/ (part \in Knocks \cup Rates /\ line = 3) \/ (part \in {15, 22} /\ line = 4)
  <2>1. Here.op = "mouse_read"
    BY DEF mouse_read, At
  <2> QED  BY <1>0, <2>1, ReadPlaces DEF In
<1>3. part \in 8 .. 22 /\ ports = 2 /\ ports' = 2
  <2>1. part \in 8 .. 22
    BY <1>2 DEF In, Knocks, Rates
  <2> QED  BY <1>0, <1>1, <2>1, WritePlaces
<1>4. Asking /\ MouseOnly /\ MouseOnly'
  <2>1. Asking
    BY <1>3 DEF LeftInv
  <2> QED  BY <1>0, <1>3, <2>1 DEF Asking, MouseOnly
<1>5. CASE In(8, 3, 3) \/ (part \in Knocks \cup Rates /\ line = 3)
  <2>1. Count <= 2
    BY <1>4, <1>5 DEF Asking, In, One
  <2>2. Count' <= 1
    BY <1>0, <1>1, <2>1
  <2>3. part' \in 9 .. 22 /\ line' = 1
    BY <1>0, <1>5, Onward DEF In, LinesOf, Knocks, Rates
  <2>4. Asking'
    BY <1>4, <2>2, <2>3 DEF Asking, In
  <2> QED  BY <1>3, <2>3, <2>4, LeftAsking
<1>6. CASE part \in {15, 22} /\ line = 4
  <2>1. PICK id \in Bytes :
          /\ id # PS2_ACK_BYTE
          /\ IF full THEN \/ port = PS2_ACK_BYTE /\ pending[2] = <<id>>
                          \/ port = id /\ pending[2] = <<>>
                     ELSE pending[2] \in {<<PS2_ACK_BYTE, id>>, <<id>>}
    BY <1>4, <1>6 DEF Asking, Told
  <2>2. full
    <3>1. ~full => pending[2] # <<>>
      BY <2>1
    <3>2. Count # 0
      BY <1>0, <3>1, Counts
    <3> QED  BY <1>1, <3>2
  <2>3. Count' <= 1 /\ NoAck'
    <3>1. CASE pending[2] = <<id>>
      <4>1. Len(<<id>>) = 1 /\ Clean(<<id>>)
        BY <2>1 DEF Clean
      <4>2. Len(<<>>) = 0 /\ Clean(<<>>)
        BY DEF Clean
      <4>3. Count' = 0 + 0 + 0 + 1
        BY <1>0, <1>4, <3>1, <4>1, <4>2 DEF Count, MouseOnly
      <4>4. \A s \in 0 .. 2 : Clean(pending'[s])
        BY <1>0, <1>4, <3>1, <4>1, <4>2 DEF MouseOnly
      <4> QED  BY <1>0, <4>3, <4>4 DEF NoAck, AckRead
    <3>2. CASE pending[2] = <<>>
      <4>1. \A s \in 0 .. 2 : pending'[s] = <<>>
        BY <1>0, <1>4, <3>2 DEF MouseOnly
      <4>2. Count' = 0
        BY <1>0, <4>1, CountsNext DEF Ps2Inv, TypeInv
      <4> QED  BY <1>0, <4>2
    <3> QED  BY <2>1, <2>2, <3>1, <3>2
  <2>4. part' = part /\ line' = 5
    BY <1>0, <1>6, Onward DEF LinesOf
  <2>5. Asking'
    BY <1>4, <1>6, <2>3, <2>4 DEF Asking, In, Idle, Knocks, Rates
  <2> QED  BY <1>3, <2>4, <2>5, LeftAsking
<1> QED  BY <1>2, <1>5, <1>6

\* The comparison of the identity takes nothing.
LEMMA LeftCheck ==
    ASSUME Ps2Inv, Ps2Inv', LeftInv, keys = 0, ~late, CheckIdentity
    PROVE  LeftInv'
<1>0. /\ TypeInv /\ ValueTypes /\ PlaceType /\ DualInv /\ ports \in {1, 2} /\ ports' = ports
      /\ pending' = pending /\ full' = full /\ port' = port
      /\ ~Done /\ Advance /\ Here.op = "is_it" /\ (Here.dual => is_dual_device) /\ Place
  BY Standing DEF Ps2Inv, TypeInv, ValueTypes, CheckIdentity, At, controllerVars, deviceVars
<1>1. part \in {15, 22} /\ line = 5
  BY <1>0, SinglePlaces
<1>2. ports = 2 /\ ports' = 2
  <2>1. Here.dual
    BY <1>0, <1>1, WritePlaces
  <2> QED  BY <1>0, <2>1 DEF DualInv
<1>3. MouseOnly /\ Count <= 1 /\ NoAck
  BY <1>1, <1>2 DEF LeftInv, Asking, Idle
<1>4. MouseOnly' /\ Count' <= 1 /\ NoAck'
  <2>1. Count' = Count
    BY <1>0 DEF Count
  <2> QED  BY <1>0, <1>3, <2>1 DEF MouseOnly, NoAck, AckRead
<1>5. CASE part = 15
  <2>1. part' = 16 /\ line' = 1
    BY <1>0, <1>1, <1>5, Onward DEF LinesOf
  <2>2. Asking'
    BY <1>4, <2>1 DEF Asking, In
  <2> QED  BY <1>2, <2>1, <2>2, LeftAsking
<1>6. CASE part = 22
  <2>1. In(23, 1, 1)'
    BY <1>0, <1>1, <1>6, Onward DEF In, LinesOf
  <2>2. Count' <= ports' - 1
    BY <1>2, <1>4
  <2>3. part' \in {23, 24} /\ Starting'
    BY <1>4, <2>1, <2>2 DEF Starting, In, Idle
  <2> QED  BY <1>2, <2>3, LeftStarting
<1> QED  BY <1>1, <1>5, <1>6

\* The second dummy byte is never left out.
LEMMA AlwaysMore ==
    ASSUME Ps2Inv, LeftInv, keys = 0, ~late
    PROVE  ~NoMore
<1> SUFFICES ASSUME NoMore PROVE FALSE
  OBVIOUS
<1>0. /\ TypeInv /\ DualInv /\ ports \in {1, 2} /\ Place
      /\ Here.op = "get_more" /\ status # PS2_ACK_BYTE /\ (Here.dual => is_dual_device)
  BY Standing DEF Ps2Inv, TypeInv, ValueTypes, NoMore, At
<1>1. In(6, 3, 3) \/ In(6, 7, 7)
  BY <1>0, SinglePlaces DEF In
<1>2. In(6, 7, 7) => ports = 2
  <2>1. In(6, 7, 7) => Here.dual
    BY <1>0, WritePlaces DEF In
  <2> QED  BY <1>0, <2>1 DEF DualInv
<1> QED  BY <1>0, <1>1, <1>2 DEF LeftInv, First47, Second47

LEMMA LeftStep ==
    ASSUME Ps2Inv, Ps2Inv', LeftInv, Next
    PROVE  LeftInv'
<1>0. SUFFICES ASSUME keys' = 0, ~late' PROVE LeftInv'
  BY DEF LeftInv
<1>1. keys = 0 /\ ~late
  BY <1>0, Lasting
<1>2. part \in 1 .. 24
  BY DEF Ps2Inv, TypeInv, PlaceType
<1>3. CASE \E s \in 0 .. 2 : Deliver(s)
  BY <1>1, <1>3, LeftDeliver
<1>4. CASE \E k \in Keys : PressKey(k)
  <2>1. keys' = keys + 1
    BY <1>4 DEF PressKey
  <2> QED  BY <1>0, <1>1, <2>1
<1>5. CASE Kernel /\ part <= 3
  BY <1>1, <1>5, LeftEarly
<1>6. CASE Kernel /\ part >= 4
  <2>1. CASE SkipDual
    BY <1>1, <1>6, <2>1, LeftSkip
  <2>2. CASE OutCmd
    BY <1>1, <1>6, <2>2, LeftCommand
  <2>3. CASE OutData
    BY <1>1, <2>3, LeftData
  <2>4. CASE GetStatus
    BY <1>0, <1>1, <1>6, <2>4, LeftGet
  <2>5. CASE AwaitAck
    BY <1>0, <1>1, <2>5, LeftAwait
  <2>6. CASE mouse_read
    BY <1>0, <1>1, <2>6, LeftMouseRead
  <2>7. CASE CheckIdentity
    BY <1>1, <2>7, LeftCheck
  <2>8. ~NoMore
    BY <1>1, AlwaysMore
  <2>9. ~WriteConfig /\ ~DummyReads /\ ~CheckDual
    <3>1. TypeInv
      BY DEF Ps2Inv
    <3>2. WriteConfig \/ DummyReads \/ CheckDual => part \in {1, 2, 3}
      BY <3>1, CommandPlaces, OtherPlaces DEF In
    <3> QED  BY <1>6, <3>2
  <2> QED  BY <1>6, <2>1, <2>2, <2>3, <2>4, <2>5, <2>6, <2>7, <2>8, <2>9 DEF Kernel
<1> QED  BY <1>2, <1>3, <1>4, <1>5, <1>6 DEF Next

LEMMA LeftStutter == ASSUME LeftInv, UNCHANGED vars PROVE LeftInv'
<1>1. /\ part' = part /\ line' = line /\ status' = status /\ port' = port /\ full' = full
      /\ pending' = pending /\ ports' = ports /\ keys' = keys /\ late' = late
  BY DEF vars, pcVars, kernelVars, controllerVars, deviceVars
<1>2. Count' = Count /\ NoAck' = NoAck /\ OneAck' = OneAck /\ MouseOnly' = MouseOnly /\ Last' = Last
  BY <1>1 DEF Count, NoAck, OneAck, AckRead, MouseOnly, Last
<1>3. First(1)' = First(1) /\ First(2)' = First(2) /\ Asked' = Asked /\ Told' = Told
  BY <1>1 DEF First, Asked, Told
<1>4. Stopped' = Stopped /\ ForSecond' = ForSecond
  BY <1>1 DEF Stopped, ForSecond, Quiescent, In
<1>5. First47' = First47 /\ Second47' = Second47
  BY <1>1, <1>2, <1>3 DEF First47, Second47, Idle, One, In
<1>6. Asking' = Asking /\ Starting' = Starting
  BY <1>1, <1>2, <1>3 DEF Asking, Starting, Idle, One, In
<1> QED  BY <1>1, <1>2, <1>4, <1>5, <1>6 DEF LeftInv, Idle

LEMMA LeftInit == Init => LeftInv
<1> SUFFICES ASSUME Init PROVE LeftInv
  OBVIOUS
<1>1. part = 1 /\ line = 1 /\ pending[1] = <<>>
  BY DEF Init
<1>2. Stopped /\ First47 /\ Second47 /\ Starting /\ ~ForSecond
  BY <1>1 DEF Stopped, First47, Second47, Starting, ForSecond, In
<1>3. Asking
  BY <1>1 DEF Asking, In, Knocks, Rates
<1> QED  BY <1>2, <1>3 DEF LeftInv

\* NothingLeft: with prompt devices and no key pressed no answer of the set-up
\* is left to the interrupt handlers, which would take it for a key or a movement.
THEOREM NothingIsLeft == Spec => []NothingLeft
<1>1. Ps2Inv /\ Ps2Inv' /\ LeftInv /\ [Next]_vars => LeftInv'
  BY LeftStep, LeftStutter
<1>2. Ps2Inv /\ LeftInv => NothingLeft
  <2> SUFFICES ASSUME Ps2Inv, LeftInv, Done, keys = 0, ~late
               PROVE  ~full /\ \A s \in 0 .. 2 : pending[s] = <<>>
    BY DEF NothingLeft
  <2>1. part = 24 /\ ValueTypes
    <3>1. part > 23
      BY Parts DEF Done
    <3> QED  BY <3>1 DEF Ps2Inv, TypeInv, PlaceType
  <2>2. Count <= 0
    BY <2>1 DEF LeftInv, Starting, Idle
  <2> QED  BY <2>1, <2>2, Counts
<1> QED  BY LeftInit, <1>1, <1>2, SetUp, PTL DEF Spec
=============================================================================
