------------------------------- MODULE Library ------------------------------
(***************************************************************************)
(* The kernel's functions that compute without waiting for anything, each  *)
(* called once with every argument the runs choose, and what their results *)
(* must be.                                                                *)
(***************************************************************************)
EXTENDS Format, Memory, Graphics, Tables

CONSTANTS
    Dividends, Divisors, Longs, \* 64-bit arguments
    BinaryPlaces,   \* of the reals
    MemSize,        \* the addresses of Memory's functions
    Reach,          \* the screen's coordinates, for lines
    Faults          \* how often a page faults

ASSUME LibraryAssumption ==
    /\ Dividends \subseteq Nat /\ Divisors \subseteq Nat \ {0} /\ Longs \subseteq 0 .. U64 - 1
    /\ BinaryPlaces \subseteq 0 .. ExactPlaces
    /\ MemSize \in Nat /\ Reach \subseteq Int /\ Faults \in Nat
    /\ Byte > 6     \* Repeats below are bytes

VARIABLES
    call,           \* [op, args]
    done, result

vars == <<call, done, result>>

-----------------------------------------------------------------------------
(* The calls.                                                              *)

\* A memory where every byte differs, and one with few values.
Distinct == [a \in 0 .. MemSize - 1 |-> a + 1]
Repeats  == [a \in 0 .. MemSize - 1 |-> (a * a) % 7]

\* What the BIOS may leave: a locked CRT controller, and the attribute
\* controller between an index and its value.
BiosCard(locked, index) ==
    [misc |-> 103, seq |-> <<0, 3, 0, 2>> @@ (0 :> 3),
     crtc |-> [r \in 0 .. 24 |-> IF r = 17 /\ locked THEN 142 ELSE r],
     gc |-> [r \in 0 .. 8 |-> IF r = 5 THEN 16 ELSE IF r = 6 THEN 14 ELSE 0],
     ac |-> [index |-> index, on |-> TRUE, regs |-> [r \in 0 .. 20 |-> 0]],
     screen |-> <<0, 0>>, chained |-> FALSE]
TextRegs ==
    [misc |-> 103, seq |-> [r \in 0 .. 4 |-> r + 1], crtc |-> [r \in 0 .. 24 |-> 2 * r + 100],
     gc |-> [r \in 0 .. 8 |-> r + 7], ac |-> [r \in 0 .. 20 |-> r + 21]]

Called(op, args) == call = [op |-> op, args |-> args]

\* A real of p places whose whole part is an i64; the mantissa has bits above
\* the lowest 32 or not.
Real(neg, n, p, high) ==
    [neg |-> neg, n |-> n, d |-> Power(2, p), mantissa |-> high * U32 + n, exponent |-> 7]

PrintCalls ==
    \/ \E A \in Dividends, B \in Divisors : Called("div64_slow", <<A, B>>)
    \/ \E num \in 0 .. U32 - 1, op \in {"writeInt", "writeHex_bytes", "writeBinary"} :
           Called(op, num)
    \/ \E num \in Longs : Called("writeInt64", num)
    \/ \E p \in BinaryPlaces, n \in Dividends, neg \in BOOLEAN, high \in {0, 1} :
           /\ n < (U64 \div 2) * Power(2, p)
           /\ Called("writeReal", Real(neg, n, p, high))
    \/ \E name \in 1 .. 24, line \in 1 .. U32 \div 2 - 1 : Called("trace", <<name, line>>)

MemoryCalls ==
    \/ \E op \in {"kmemcpy", "kmemmove"}, d, s, n \in 0 .. MemSize \div 2 :
           Called(op, <<d, s, n>>)
    \/ \E a, n \in 0 .. MemSize \div 2, c \in 0 .. Byte + 1 : Called("search", <<a, c, n>>)
    \/ \E a, b, n \in 0 .. MemSize \div 2 : Called("kmemcmp", <<a, b, n>>)

CardCalls ==
    \/ \E w \in DOMAIN WidthRegs \cup {640}, h \in DOMAIN HeightRegs \cup {350},
          chain4, locked \in BOOLEAN, index \in {-1, 5} :
           Called("init_graph_vga", <<w, h, chain4, BiosCard(locked, index)>>)
    \/ \E locked \in BOOLEAN, index \in {-1, 5}, op \in {"write_regs", "write_font"} :
           Called(op, BiosCard(locked, index))

DrawingCalls ==
    \/ \E x, y \in Reach : Called("line_fast", << <<5, 4>>, <<x, y>> >>)
    \/ \E x, y \in Reach : Called("polygon", << <<x, y>>, <<7, 5>>, <<1, 4>> >>)
    \/ \E xs \in [1 .. 4 -> {0, 310, 320, 600}], ys \in [1 .. 4 -> {0, 200, 400}] :
           Called("PointerRect", <<xs, ys>>)
    \/ \E index \in {0, 15, 16, 58, 254, 255} : Called("vga_clear", index)

TableCalls ==
    \/ \E tss \in B20 .. 2 * B20 - TssSize - 1 : Called("gdt_install", tss)
    \/ \E v \in 0 .. 47, ring \in {0, 3} : Called("isrs_install", <<v, ring>>)
    \/ \E a \in 0 .. Entries * Entries * Page - 1 : Called("init_page_directory", a)
    \/ \E from \in 0 .. 2 * Page, size \in 0 .. 2 * Page : Called("idpaging", <<from, size>>)
    \/ \E faults \in 0 .. Faults : Called("handlers", faults)

Init ==
    /\ PrintCalls \/ MemoryCalls \/ CardCalls \/ DrawingCalls \/ TableCalls
    /\ done = FALSE /\ result = "none"

-----------------------------------------------------------------------------
(* The calls' results.                                                     *)

\* The handlers after so many page faults.
Faulted[n \in Nat] == IF n = 0 THEN Installed ELSE fault_handler(Faulted[n - 1], 14)

Stubs == [v \in 0 .. 47 |-> B20 + 7 * v]

Formatted(op, args) ==
    CASE op = "div64_slow" -> div64_slow(args[1], args[2])
      [] op = "writeInt"   -> writeInt(args)
      [] op = "writeHex_bytes" -> writeHex_bytes(args, HexDigits)
      [] op = "writeBinary" -> writeBinary(args, 4 * HexDigits)
      [] op = "writeInt64" -> writeInt64(args)
      [] op = "writeReal"  -> writeReal(args)
      [] op = "trace"      -> trace([i \in 1 .. args[1] |-> 102], args[2], <<109>>)

Compute(op, args) ==
    CASE op = "kmemcpy"    -> kmemcpy(Distinct, args[1], args[2], args[3])
      [] op = "kmemmove"   -> kmemmove(Distinct, args[1], args[2], args[3])
      [] op = "search"     -> [chr |-> kmemchr(Repeats, args[1], args[2], args[3]),
                               rchr |-> kmemrchr(Repeats, args[1], args[2], args[3]),
                               set |-> kmemset(Repeats, args[1], args[2], args[3])]
      [] op = "kmemcmp"    -> kmemcmp(Repeats, args[1], args[2], args[3])
      [] op = "init_graph_vga" -> init_graph_vga(args[4], args[1], args[2], args[3])
      [] op = "write_regs" -> write_regs(args, TextRegs)
      [] op = "write_font" -> write_font(args, 8)
      [] op = "line_fast"  -> line_fast(args[1], args[2])
      [] op = "polygon"    -> polygon(args)
      [] op = "PointerRect" -> PointerRect(args[1], args[2])
      [] op = "vga_clear"  -> vga_clear([screen |-> <<320, 200>>],
                                  set_palette([i \in 0 .. 255 |-> <<0, 0, 0>>],
                                              args, 255, 20, 20))
      [] op = "gdt_install" -> gdt_install(args)
      [] op = "isrs_install" -> [idt |-> isrs_install(Stubs),
                                 frame |-> Stub(Pushed(args[1], args[2]), args[1])]
      [] op = "init_page_directory" -> init_page_directory
      [] op = "idpaging"   -> idpaging([i \in 0 .. 3 |->
                                  [frame |-> 0, present |-> FALSE, rw |-> TRUE]],
                                  args[1] \div Page, args[1], args[2])
      [] op = "handlers"   -> Faulted[args]

PrintOps == {"div64_slow", "writeInt", "writeHex_bytes", "writeBinary", "writeInt64",
             "writeReal", "trace"}

Return ==
    /\ ~done
    /\ done' = TRUE
    /\ result' = IF call.op \in PrintOps THEN Formatted(call.op, call.args)
                                         ELSE Compute(call.op, call.args)
    /\ UNCHANGED call

Next == Return
Spec == Init /\ [][Next]_vars

-----------------------------------------------------------------------------
(* Properties.                                                             *)

Returned(op) == done /\ call.op = op

\* A real above the largest int is printed as 1.m * 2^e, with 32 bits of its
\* mantissa.  Any other has a sign if it is below zero, its whole part, and its
\* fraction behind the point.
RealPrinted(chars, real) ==
    LET tail == <<42, 2, 94>> \o writeInt(real.exponent)
        low == real.mantissa % U32
        digits == SubSeq(chars, 3, Len(chars) - Len(tail))
        signed == real.neg /\ real.n # 0
        dot == CHOOSE i \in 1 .. Len(chars) : chars[i] = Point
        whole == SubSeq(chars, IF signed THEN 2 ELSE 1, dot - 1)
    IN  IF ~real.neg /\ real.n > (U32 \div 2 - 1) * real.d
        THEN /\ chars = (<<1, Point>> \o digits) \o tail
             /\ Decimal(digits, low) <=> LongExact(low)
        ELSE /\ chars[1] = Minus <=> signed
             /\ Decimal(whole, real.n \div real.d) <=> LongExact(real.n \div real.d)
             /\ FractionExact(SubSeq(chars, dot + 1, Len(chars)), real.n % real.d, real.d)

\* Numbers are printed as they are, but for these.  div64_slow stops doubling
\* the divisor at half the dividend, and is wrong exactly when that half,
\* rounded down, is the divisor times a power of two: 20 comes out of
\* writeUInt64 as 15, and so do the whole parts of reals and the mantissas.  A
\* mantissa loses its bits above the 32nd, and -0.0 has no sign.  trace's
\* messages line up whatever the file and the line, as far as these leave room.
PrintingExact ==
    /\ Returned("div64_slow") => DivisionExact(result, call.args[1], call.args[2])
    /\ Returned("writeInt") => IntExact(result, call.args, U32)
    /\ Returned("writeHex_bytes") => Value(SubSeq(result, 3, Len(result)), 16) = call.args
    /\ Returned("writeBinary") => Value(SubSeq(result, 3, Len(result)), 2) = call.args
    /\ Returned("writeInt64") =>
           (IntExact(result, call.args, U64)
                <=> LongExact(Magnitude(Signed(call.args, U64))))
    /\ Returned("writeReal") => RealPrinted(result, call.args)
    /\ Returned("trace") =>
           LET prefix == call.args[1] + 4 + Len(writeInt(call.args[2]))
           IN  Len(result) = 1 + IF prefix <= 26 THEN 26 ELSE prefix

\* kmemmove moves its bytes as if through a buffer, whichever way the two
\* ranges overlap and are aligned; kmemcpy does unless the destination starts
\* inside the source.  The searches find the first or the last byte there is,
\* by words or not, and kmemset sets its bytes and no others.
MemoryExact ==
    LET d == call.args[1]  s == call.args[2]  n == call.args[3]
        found == { a \in d .. d + n - 1 : Repeats[a] = s % Byte }
    IN  /\ Returned("kmemmove") => result = Move(Distinct, d, s, n)
        /\ Returned("kmemcpy") =>
               (result = Move(Distinct, d, s, n) <=> ~(d \in s + 1 .. s + n - 1))
        /\ Returned("search") =>
               /\ result.rchr = IF found = {} THEN -1 ELSE Max(found)
               /\ result.chr = IF found = {} THEN -1 ELSE Min(found)
               /\ \A a \in DOMAIN Repeats :
                      result.set[a] = IF a \in d .. d + n - 1 THEN s % Byte ELSE Repeats[a]
        /\ Returned("kmemcmp") =>
               (result = 0 <=> \A i \in 0 .. n - 1 : Repeats[d + i] = Repeats[s + i])

\* What the registers of the card say, as the card reads them: its 256 colour
\* modes draw four pixels for each of the eight dots the registers count.
Shows(crtc, width, height) ==
    LET lines == crtc[18] + 256 * Bit(crtc[7], 2) + 512 * Bit(crtc[7], 64) + 1
        retrace == crtc[16] + 256 * Bit(crtc[7], 4) + 512 * Bit(crtc[7], 128)
        total == crtc[6] + 256 * Bit(crtc[7], 1) + 512 * Bit(crtc[7], 32) + 2
    IN  /\ 4 * (crtc[1] + 1) = width /\ 8 * crtc[19] = width
        /\ crtc[1] < crtc[4] /\ crtc[4] < crtc[0] + 5
        /\ lines = height * ((crtc[9] % 32) + 1)
        /\ lines < retrace /\ retrace < total

\* The mode asked for is the mode the registers make, although registers 0 to
\* 7 may be locked and the attribute controller may await a value; a mode that
\* does not fit the window changes nothing.  write_regs loads every register
\* and leaves the two that lock others open.  write_font writes into plane 2
\* alone, 8 KB of it, and leaves every register as it found it.
CardExact ==
    /\ Returned("init_graph_vga") =>
           LET w == call.args[1]  h == call.args[2]  chain4 == call.args[3]
               before == call.args[4]
           IN  IF w = 640 \/ h = 350 \/ (chain4 /\ w * h > Window) THEN result = before
               ELSE /\ Shows(result.crtc, w, h)
                    /\ result.chained = chain4 /\ result.screen = <<w, h>>
                    /\ result.ac.on /\ result.ac.regs[16] = 65
                    /\ \A a \in 0 .. 15 : result.ac.regs[a] = a
    /\ Returned("write_regs") =>
           /\ result.ac.regs = TextRegs.ac /\ result.ac.on
           /\ \A r \in 0 .. 24 :
                  result.crtc[r] = CASE r = 3  -> With(TextRegs.crtc[3], 128)
                                     [] r = 17 -> TextRegs.crtc[17] % 128
                                     [] OTHER  -> TextRegs.crtc[r]
    /\ Returned("write_font") =>
           /\ result.after = call.args
           /\ result.during.seq[2] = 4 /\ Bit(result.during.gc[5], 16) = 0
           /\ result.written \subseteq 47104 * 16 .. 47104 * 16 + 8191
           /\ Cardinality(result.written) = 256 * 8

\* q is on the line from p1 to p2 to half a pixel of its shorter axis.
Near(q, p1, p2) ==
    LET d == [k \in {1, 2} |-> p2[k] - p1[k]]
        e == [k \in {1, 2} |-> q[k] - p1[k]]
        long == IF abs(d[1]) >= abs(d[2]) THEN 1 ELSE 2
    IN  2 * abs(e[3 - long] * d[long] - e[long] * d[3 - long]) <= abs(d[long])
Connected(points) ==
    \A i \in 1 .. Len(points) - 1 : \A k \in {1, 2} :
        abs(points[i + 1][k] - points[i][k]) <= 1

\* The card's window: 128 KB from vga_memory, behind which is its BIOS.
VideoMemory == 131072

\* A line runs from one end to the other without a gap and without leaving it
\* by more than half a pixel; a polygon closes.  The rectangle under the
\* pointer stays within the clamps if the mouse's handler changes nothing
\* between the reads of CLAMP, and within those of the handler, 600 and 400,
\* whatever it changes; these reach behind the card's window, and it is left
\* only if the mouse moves from above row 200 to row 399 or 400 between the last
\* test of y and its last read.  A colour set before vga_clear is lost to it,
\* but for 0 to 15 and 255.
DrawingExact ==
    /\ Returned("line_fast") =>
           LET p1 == call.args[1]  p2 == call.args[2]
           IN  /\ result[1] = p1 /\ Last(result) = p2 /\ Connected(result)
               /\ \A i \in 1 .. Len(result) : Near(result[i], p1, p2)
    /\ Returned("polygon") =>
           \A i \in 1 .. Len(result) : {result[i][1], Last(result[i])} =
               {call.args[i], call.args[IF i = Len(result) THEN 1 ELSE i + 1]}
    /\ Returned("PointerRect") =>
           LET still == \A v \in {1, 2} : \A i \in 2 .. 4 : call.args[v][i] = call.args[v][1]
           IN  /\ Max(result) < IF still THEN plot_pixel(330, 210) ELSE plot_pixel(610, 410)
               /\ Max(result) >= VideoMemory =>
                      call.args[2][2] < 200 /\ call.args[2][4] >= 399
    /\ Returned("vga_clear") =>
           /\ result.cleared = { plot_pixel(p[1], p[2]) : p \in (0 .. 319) \X (0 .. 199) }
           /\ result.palette[call.args] = <<63, 20, 20>> <=> call.args \notin 16 .. 254

\* The processor finds in the tables what the kernel put there: flat segments
\* for both rings, a task state segment that covers the task state while it
\* lies in the second megabyte, each stub behind its vector, its gate
\* closed to interrupts for hardware only, the fields of isr_stack_state on the stack
\* and the interrupted instruction on it at the end, the first addresses
\* mapped to themselves and no others.  get_physaddr is right for these only,
\* map_page's write is never mapped, and idpaging misses the end of a range
\* that crosses one page boundary more than its size counts.  A handler that
\* returns from a page fault has changed nothing, and installing it names
\* IRQ 14 after it; the IRQs with handlers keep their names.
TablesExact ==
    /\ Returned("gdt_install") =>
           /\ \A n \in 1 .. 4 : /\ Base(result[n]) = 0 /\ Limit(result[n]) = B32 - 1
                                /\ Ring(result[n]) = IF n <= 2 THEN 0 ELSE 3
           /\ IsCode(Selected(result, KernelCode)) /\ IsData(Selected(result, KernelData))
           /\ Base(Selected(result, TaskState)) = call.args
           /\ Limit(Selected(result, TaskState)) >= TssSize - 1
    /\ Returned("isrs_install") =>
           LET v == call.args[1]  ring == call.args[2]  gate == result.idt[v]
           IN  /\ gate.base_lo + gate.base_hi * B16 = Stubs[v]
               /\ Bit(gate.flags, 1) = 0 <=> v >= 32
               /\ Bit(gate.flags, 64) = 1 <=> v \in {3, 4, 5}
               /\ v # 17 =>
                      /\ Reverse(result.frame) = isr_stack_state(ring)
                      /\ Last(StubEnd(result.frame)) = "eip"
    /\ Returned("init_page_directory") =>
           LET a == call.args
           IN  /\ Translated(result, a) = IF a < Entries * Page THEN a ELSE Fault
               /\ get_physaddr(result, a) = Translated(result, a) <=> a < Entries * Page
               /\ map_page(result, a) = Fault
    /\ Returned("idpaging") =>
           LET from == call.args[1]  size == call.args[2]
               mapped == { a \in 0 .. 4 * Page - 1 : result[a \div Page].present }
           IN  /\ \A a \in mapped : result[a \div Page].frame = a \div Page
               /\ from .. from + size - 1 \subseteq mapped
                      <=> size = 0 \/ (from % Page) + size <= Page * ((size + Page - 1) \div Page)
    /\ Returned("handlers") =>
           /\ result = [Installed EXCEPT !.isr_counts[14] = call.args]
           /\ \A i \in 0 .. 15 : result.irq_routines[i] # "none" =>
                  result.irq_names[i] = result.irq_routines[i]
           /\ result.irq_names[14] = "page fault"

=============================================================================
