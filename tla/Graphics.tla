------------------------------ MODULE Graphics ------------------------------
(***************************************************************************)
(* vga.c: the switch to a graphics mode, the font loader's and the text    *)
(* mode's register writes, and the drawing functions.  The card is         *)
(* [misc, crtc, seq, gc, ac]; its register files are functions, and the    *)
(* attribute controller's port takes an index and a value in turns.        *)
(***************************************************************************)
EXTENDS Integers, SequencesExt

-----------------------------------------------------------------------------
(* The card, as far as these functions use it.  Bits by their weight.      *)

Bit(v, w)     == (v \div w) % 2
With(v, w)    == IF Bit(v, w) = 1 THEN v ELSE v + w
Without(v, w) == IF Bit(v, w) = 1 THEN v - w ELSE v

\* Registers 0 to 7 of the CRT controller are read-only while bit 7 of
\* register 17 is set.
WriteCrtc(crtc, w) ==
    IF w[1] <= 7 /\ crtc[17] >= 128 THEN crtc ELSE [crtc EXCEPT ![w[1]] = w[2]]
WriteAll(crtc, writes) == FoldLeft(WriteCrtc, crtc, writes)
Pairs(index, values) == [i \in 1 .. Len(index) |-> <<index[i], values[i]>>]

\* Port 0x3C0: bit 5 of an index turns the display on.
WriteAc(ac, v) ==
    IF ac.index = -1 THEN [ac EXCEPT !.index = v % 32, !.on = Bit(v, 32) = 1]
    ELSE [ac EXCEPT !.regs[ac.index] = v, !.index = -1]

-----------------------------------------------------------------------------
(* init_graph_vga.                                                         *)

RCom == 99
MiscWidth  == (256 :> 0) @@ (320 :> 0) @@ (360 :> 4) @@ (376 :> 4) @@ (400 :> 4)
MiscHeight ==
    [h \in {200, 224, 240, 256, 270, 300, 360, 400, 480, 564, 600} |->
        IF h \in {200, 360, 400} THEN 0 ELSE 128]

hor_regs == <<0, 1, 2, 3, 4, 5, 19>>
WidthRegs ==
       (256 :> <<95, 63, 64, 130, 74, 154, 32>>)
    @@ (320 :> <<95, 79, 80, 130, 84, 128, 40>>)
    @@ (360 :> <<107, 89, 90, 142, 94, 138, 45>>)
    @@ (376 :> <<110, 93, 94, 145, 98, 143, 47>>)
    @@ (400 :> <<112, 99, 100, 146, 101, 130, 50>>)

ver_regs == <<6, 7, 9, 16, 17, 18, 21, 22>>
HeightRegs ==
       (200 :> <<191, 31, 65, 156, 142, 143, 150, 185>>)
    @@ (224 :> <<11, 62, 65, 218, 156, 191, 199, 4>>)
    @@ (240 :> <<13, 62, 65, 234, 172, 223, 231, 6>>)
    @@ (256 :> <<35, 178, 97, 10, 172, 255, 7, 26>>)
    @@ (270 :> <<48, 240, 97, 32, 169, 27, 31, 47>>)
    @@ (300 :> <<112, 240, 97, 91, 140, 87, 88, 112>>)
    @@ (360 :> <<191, 31, 64, 136, 133, 103, 109, 186>>)
    @@ (400 :> <<191, 31, 64, 156, 142, 143, 150, 185>>)
    @@ (480 :> <<13, 62, 64, 234, 172, 223, 231, 6>>)
    @@ (564 :> <<98, 240, 96, 55, 137, 51, 60, 92>>)
    @@ (600 :> <<112, 240, 96, 91, 140, 87, 88, 112>>)

Window == 65536     \* the bytes of the frame buffer at 0xA0000

\* Registers 0 to 7 are left locked.
MutantUnlock == <<>>
\* outpw(0x3d4, 0x0e11)
Unlock == << <<17, 14>> >>

ModeCrtc(width, height, chain4) ==
    Unlock \o Pairs(hor_regs, WidthRegs[width]) \o Pairs(ver_regs, HeightRegs[height])
    \o << <<8, 0>>, <<20, IF chain4 THEN 64 ELSE 0>>, <<23, IF chain4 THEN 163 ELSE 227>> >>

\* After inp(0x3da): the mode, the panning, the 16 colours, the display.
ModeAc == <<48, 65, 51, 0>> \o FlattenSeq([a \in 1 .. 16 |-> <<a - 1, a - 1>>]) \o <<32>>

Supported(width, height, chain4) ==
    /\ width \in DOMAIN WidthRegs /\ height \in DOMAIN HeightRegs
    /\ chain4 => width * height <= Window

\* The card after the call; vga_screen_width and the others are kept beside it.
init_graph_vga(card, width, height, chain4) ==
    IF ~Supported(width, height, chain4) THEN card
    ELSE [card EXCEPT
            !.misc = RCom + MiscWidth[width] + MiscHeight[height],
            !.crtc = WriteAll(card.crtc, ModeCrtc(width, height, chain4)),
            !.seq  = [card.seq EXCEPT ![4] = IF chain4 THEN 14 ELSE 6, ![1] = 1, ![2] = 15],
            !.gc   = [card.gc EXCEPT ![5] = 64, ![6] = 5],
            !.ac   = FoldLeft(WriteAc, [card.ac EXCEPT !.index = -1], ModeAc),
            !.screen = <<width, height>>, !.chained = chain4]

-----------------------------------------------------------------------------
(* Text mode and its font.                                                 *)

\* regs is [misc, seq, crtc, gc, ac]: the values written to the card in order.
write_regs(card, regs) ==
    LET unlocked == WriteAll(card.crtc, << <<17, Without(card.crtc[17], 128)>> >>)
        crtc == [regs.crtc EXCEPT ![3] = With(@, 128), ![17] = Without(@, 128)]
        write(ac, i) == WriteAc(WriteAc([ac EXCEPT !.index = -1], i), regs.ac[i])
    IN  [card EXCEPT
            !.misc = regs.misc, !.seq = regs.seq, !.gc = regs.gc,
            !.crtc = WriteAll(unlocked, [i \in 1 .. 25 |-> <<i - 1, crtc[i - 1]>>]),
            !.ac   = WriteAc([FoldLeft(write, card.ac, [i \in 1 .. 21 |-> i - 1])
                                 EXCEPT !.index = -1], 32)]

get_fb_seg(card) ==
    LET seg == (card.gc[6] \div 4) % 4
    IN  CASE seg \in {0, 1} -> 40960 [] seg = 2 -> 45056 [] seg = 3 -> 47104

set_plane(card, p) ==
    [card EXCEPT !.gc = [@ EXCEPT ![4] = p % 4], !.seq = [@ EXCEPT ![2] = 2 ^ (p % 4)]]

\* The registers set for the font: flat addressing, plane 2.
FontCard(card) ==
    set_plane([card EXCEPT !.seq = [@ EXCEPT ![4] = With(@, 4)],
                           !.gc  = [@ EXCEPT ![5] = Without(@, 16), ![6] = Without(@, 2)]], 2)

Restored(card, saved) ==
    [card EXCEPT !.seq = [@ EXCEPT ![2] = saved.seq[2], ![4] = saved.seq[4]],
                 !.gc  = [@ EXCEPT ![4] = saved.gc[4], ![5] = saved.gc[5], ![6] = saved.gc[6]]]

\* The card in the loop, where the loop writes, and the card after it.
write_font(card, font_height) ==
    LET during == FontCard(card)
    IN  [during |-> during,
         written |-> { get_fb_seg(during) * 16 + i * 32 + j :
                           i \in 0 .. 255, j \in 0 .. font_height - 1 },
         after |-> Restored(during, card)]

-----------------------------------------------------------------------------
(* Drawing: offsets in vga_memory.                                         *)

plot_pixel(x, y) == y * 256 + y * 64 + x

\* The palette has six bits for each of red, green and blue.
Colour(r, g, b) == <<r % 64, g % 64, b % 64>>
set_palette(palette, index, r, g, b) == [palette EXCEPT ![index] = Colour(r, g, b)]

\* The bytes cleared, and the palette after it.
vga_clear(card, palette) ==
    [cleared |-> 0 .. card.screen[1] * card.screen[2] - 1,
     palette |-> [i \in 0 .. 255 |->
         IF i \in 16 .. 254 THEN Colour(16 * (i % 16), 16 * (i \div 4), 16 * (i \div 16))
         ELSE palette[i]]]

\* vga_tests: a colour, the screen in it, every pixel, and a triangle.

abs(val) == IF val < 0 THEN -val ELSE val
sgn(val) == IF val < 0 THEN -1 ELSE IF val > 0 THEN 1 ELSE 0

\* A turn forgets what the error is over by.
MutantStepped(s, major, minor, long, sign) ==
    LET acc  == s.acc + minor
        turn == acc >= major
    IN  [acc |-> IF turn THEN 0 ELSE acc,
         at  |-> [k \in {1, 2} |-> s.at[k] + IF k = long \/ turn THEN sign[k] ELSE 0]]

\* One step along the longer axis; acc is x or y, the error of the other.
Stepped(s, major, minor, long, sign) ==
    LET acc  == s.acc + minor
        turn == acc >= major
    IN  [acc |-> IF turn THEN acc - major ELSE acc,
         at  |-> [k \in {1, 2} |-> s.at[k] + IF k = long \/ turn THEN sign[k] ELSE 0]]

\* The points from p1 on, in the order they are drawn: drawn[i] is the loop
\* after i rounds.
line_fast(p1, p2) ==
    LET d     == [k \in {1, 2} |-> p2[k] - p1[k]]
        long  == IF abs(d[1]) >= abs(d[2]) THEN 1 ELSE 2
        major == abs(d[long])
        sign  == [k \in {1, 2} |-> sgn(d[k])]
        drawn[i \in 0 .. major] ==
            IF i = 0 THEN [acc |-> major \div 2, at |-> p1]
            ELSE Stepped(drawn[i - 1], major, abs(d[3 - long]), long, sign)
    IN  [i \in 1 .. major + 1 |-> drawn[i - 1].at]

\* Each vertex to the next, and the first to the last.
polygon(vertices) ==
    LET n == Len(vertices)
    IN  [i \in 1 .. n |-> IF i < n THEN line_fast(vertices[i], vertices[i + 1])
                                   ELSE line_fast(vertices[1], vertices[n])]

fillrect(xoff, yoff) == { plot_pixel(xoff + x, yoff + y) : x \in 0 .. 9, y \in 0 .. 9 }

\* CLAMP(mouse_get_x(), 0, high) calls the function up to four times, and the
\* mouse's handler may run between two of them: r holds what the calls return.
Clamp(r, high) ==
    LET tested == IF r[1] < 0 THEN 0 ELSE r[2]
        taken  == IF r[3] < 0 THEN 0 ELSE r[4]
    IN  IF tested < high THEN taken ELSE high

\* One round of the main loop: the offsets of the rectangle under the mouse.
PointerRect(xs, ys) == fillrect(Clamp(xs, 320), Clamp(ys, 200))

=============================================================================
