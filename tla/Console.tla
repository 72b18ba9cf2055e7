------------------------------ MODULE Console -------------------------------
(***************************************************************************)
(* The text console of scrn.c.  kmain and the interrupt handlers print     *)
(* through the same kputch, which keeps its cursor in the globals csr_x    *)
(* and csr_y without a lock.  kmain's kputch is split at every access to   *)
(* them, in the order of the makefile's -O0 build; a handler's kputch runs *)
(* between two of these steps and is one step itself, because handlers do  *)
(* not nest (Interrupts!OneFrame).                                         *)
(*                                                                         *)
(* The screen's contents are left out: the properties are about where the  *)
(* console writes and where the two cursors are.  So is the other counter  *)
(* of kputch, cursor, which only kwritef's padding reads.                  *)
(***************************************************************************)
EXTENDS Integers

CONSTANTS
    Columns, Rows,  \* 80 and 25
    TabStop,        \* 8
    Base,           \* 256: the cursor's address is written byte by byte
    Wide            \* 65536: csr_x is a u16

\* What kputch tells apart.  kmain and the handlers print all of them: the trace
\* of kmain has tabs, and it prints the bytes of the drive's names as they are.
Chars == {"print", "newline", "return", "tab", "backspace", "other"}

ASSUME SizeAssumption ==
    /\ {Columns, Rows, TabStop, Base, Wide} \subseteq Nat \ {0}
    /\ Columns % TabStop = 0 /\ Wide % TabStop = 0
    /\ Wide > 2 * Columns

VARIABLES
    csr_x, csr_y,   \* the software cursor
    pc, reg,        \* kmain's place in kputch and the value in its registers
    lines,          \* temp of kscroll
    index, crtc,    \* the CRT controller's index, and its cursor's two bytes
    reach,          \* history: the cells written since kmain's last kputch
                    \* began lie below this one
    raced,          \* history: a handler moved the cursor to the margin between
                    \* the test and the decrement of that kputch
    disturbed       \* history: a handler printed during the last move_csr

vars == <<csr_x, csr_y, pc, reg, lines, index, crtc, reach, raced, disturbed>>

Larger(a, b) == IF a > b THEN a ELSE b
Cell(x, y) == y * Columns + x
Bytes(cell) == [high |-> (cell \div Base) % Base, low |-> cell % Base]

Init ==
    /\ csr_x = 0 /\ csr_y = 0
    /\ pc = "idle" /\ reg = 0 /\ lines = 0
    /\ index = "low" /\ crtc = Bytes(0)
    /\ reach = 0 /\ raced = FALSE
    /\ disturbed = FALSE

\* csr_x + 1, the next tab stop, and csr_x - 1, in 16 bits.
NextColumn(x) == (x + 1) % Wide
NextTab(x) == (((x + TabStop) \div TabStop) * TabStop) % Wide
Before(x) == (x - 1) % Wide

-----------------------------------------------------------------------------
(* A handler's kputch.                                                     *)

\* The position after the character itself.
Placed(c) ==
    CASE c = "print"     -> <<NextColumn(csr_x), csr_y>>
      [] c = "newline"   -> <<0, csr_y + 1>>
      [] c = "return"    -> <<0, csr_y>>
      [] c = "tab"       -> <<NextTab(csr_x), csr_y>>
      [] c = "backspace" -> <<IF csr_x # 0 THEN Before(csr_x) ELSE 0, csr_y>>
      [] OTHER           -> <<csr_x, csr_y>>

Wrapped(p) == IF p[1] >= Columns THEN <<0, p[2] + 1>> ELSE p

\* The row kscroll blanks, and where it leaves the cursor.
BlankedRow(y) == Rows - (y - Rows + 1)
Scrolled(p) == IF p[2] >= Rows THEN <<p[1], Rows - 1>> ELSE p

HandlerKputch(c) ==
    LET p == Wrapped(Placed(c))
        q == Scrolled(p)
    IN  /\ csr_x' = q[1] /\ csr_y' = q[2]
        /\ index' = "low" /\ crtc' = Bytes(Cell(q[1], q[2]))
        /\ reach' = Larger(IF c = "print" THEN Larger(reach, Cell(csr_x, csr_y) + 1)
                                          ELSE reach,
                           IF p[2] >= Rows THEN Cell(0, BlankedRow(p[2]) + 1) ELSE 0)
        /\ raced' = IF pc = "load_dec" THEN q[1] = 0 ELSE raced
        /\ disturbed' = (disturbed \/ pc # "idle")
        /\ UNCHANGED <<pc, reg, lines>>

-----------------------------------------------------------------------------
(* kmain's kputch.                                                         *)

At(here, there) == pc = here /\ pc' = there
cursorVars == <<csr_x, csr_y>>
cardVars   == <<index, crtc>>

historyVars == <<reach, raced, disturbed>>

\* The branches of kputch.
Branch(c) ==
    CASE c = "print"     -> "row"
      [] c = "newline"   -> "return"
      [] c = "return"    -> "return_only"
      [] c = "tab"       -> "load_tab"
      [] c = "backspace" -> "test_x"
      [] OTHER           -> "margin"

Kputch(c) ==
    /\ At("idle", Branch(c))
    /\ reach' = 0 /\ raced' = FALSE
    /\ UNCHANGED <<cursorVars, reg, lines, cardVars, disturbed>>

\* if(csr_x != 0) --csr_x, whose load comes after the test's
Backspace ==
    /\ \/ At("test_x", IF csr_x # 0 THEN "load_dec" ELSE "margin") /\ UNCHANGED reg
       \/ At("load_dec", "store_x") /\ reg' = Before(csr_x)
    /\ UNCHANGED <<cursorVars, lines, cardVars, historyVars>>

\* csr_x = (csr_x + 8) & ~(8 - 1)
Tab ==
    /\ At("load_tab", "store_x")
    /\ reg' = NextTab(csr_x)
    /\ UNCHANGED <<cursorVars, lines, cardVars, historyVars>>

\* where = textmemptr + (csr_y * 80 + csr_x)
Locate ==
    /\ \/ At("row", "column") /\ reg' = Cell(0, csr_y)
       \/ At("column", "store") /\ reg' = reg + csr_x
    /\ UNCHANGED <<cursorVars, lines, cardVars, historyVars>>

\* *where = c | att
StoreChar ==
    /\ At("store", "load_x")
    /\ reach' = Larger(reach, reg + 1)
    /\ UNCHANGED <<cursorVars, reg, lines, cardVars, raced, disturbed>>

\* ++csr_x, and the store of every csr_x that is computed
Advance ==
    /\ \/ At("load_x", "store_x") /\ reg' = NextColumn(csr_x) /\ UNCHANGED csr_x
       \/ At("store_x", "margin") /\ csr_x' = reg /\ UNCHANGED reg
    /\ UNCHANGED <<csr_y, lines, cardVars, historyVars>>

\* csr_x = 0, for '\n', '\r' and at the right margin
CarriageReturn ==
    /\ \/ At("return", "load_y")
       \/ At("return_only", "margin")
       \/ At("wrap", "load_y_wrap")
    /\ csr_x' = 0
    /\ UNCHANGED <<csr_y, reg, lines, cardVars, historyVars>>

\* csr_y++
LineFeed ==
    /\ \/ /\ At("load_y", "store_y") \/ At("load_y_wrap", "store_y_wrap")
          /\ reg' = csr_y + 1 /\ UNCHANGED csr_y
       \/ /\ At("store_y", "margin") \/ At("store_y_wrap", "scroll")
          /\ csr_y' = reg /\ UNCHANGED reg
    /\ UNCHANGED <<csr_x, lines, cardVars, historyVars>>

MutantMargin ==
    /\ At("margin", IF csr_x > Columns THEN "wrap" ELSE "scroll")
    /\ UNCHANGED <<cursorVars, reg, lines, cardVars, historyVars>>

\* if(csr_x >= 80)
Margin ==
    /\ At("margin", IF csr_x >= Columns THEN "wrap" ELSE "scroll")
    /\ UNCHANGED <<cursorVars, reg, lines, cardVars, historyVars>>

MutantTestRow ==
    /\ \/ At("scroll", IF csr_y > Rows THEN "lines" ELSE "address") /\ UNCHANGED lines
       \/ At("lines", "copy") /\ lines' = csr_y - Rows + 1
    /\ UNCHANGED <<cursorVars, reg, cardVars, historyVars>>

\* if(csr_y >= 25) ..., temp = csr_y - 25 + 1
TestRow ==
    /\ \/ At("scroll", IF csr_y >= Rows THEN "lines" ELSE "address") /\ UNCHANGED lines
       \/ At("lines", "copy") /\ lines' = csr_y - Rows + 1
    /\ UNCHANGED <<cursorVars, reg, cardVars, historyVars>>

\* kmemcpyb moves the rows from lines on up, kmemsetw blanks the one after them.
MoveRows ==
    /\ At("copy", "bottom")
    /\ reach' = Larger(reach, Cell(0, Rows - lines + 1))
    /\ UNCHANGED <<cursorVars, reg, lines, cardVars, raced, disturbed>>

\* csr_y = 25 - 1
Bottom ==
    /\ At("bottom", "address")
    /\ csr_y' = Rows - 1
    /\ UNCHANGED <<csr_x, reg, lines, cardVars, historyVars>>

kscroll == TestRow \/ MoveRows \/ Bottom

\* temp = csr_y * 80 + csr_x
Address ==
    /\ \/ At("address", "address_x") /\ reg' = Cell(0, csr_y) /\ disturbed' = FALSE
       \/ At("address_x", "index_high") /\ reg' = reg + csr_x /\ UNCHANGED disturbed
    /\ UNCHANGED <<cursorVars, lines, cardVars, reach, raced>>

\* The low byte is written without selecting its register again.
MutantSetCursor ==
    /\ \/ At("index_high", "high") /\ index' = "high" /\ UNCHANGED crtc
       \/ At("high", "low") /\ crtc' = [crtc EXCEPT ![index] = Bytes(reg).high]
          /\ UNCHANGED index
       \/ At("low", "idle") /\ crtc' = [crtc EXCEPT ![index] = Bytes(reg).low]
          /\ UNCHANGED index
    /\ UNCHANGED <<cursorVars, reg, lines, historyVars>>

\* outb(0x3D4, 14), outb(0x3D5, temp >> 8), outb(0x3D4, 15), outb(0x3D5, temp)
SetCursor ==
    /\ \/ At("index_high", "high") /\ index' = "high" /\ UNCHANGED crtc
       \/ At("high", "index_low") /\ crtc' = [crtc EXCEPT ![index] = Bytes(reg).high]
          /\ UNCHANGED index
       \/ At("index_low", "low") /\ index' = "low" /\ UNCHANGED crtc
       \/ At("low", "idle") /\ crtc' = [crtc EXCEPT ![index] = Bytes(reg).low]
          /\ UNCHANGED index
    /\ UNCHANGED <<cursorVars, reg, lines, historyVars>>

move_csr == Address \/ SetCursor

Next ==
    \/ \E c \in Chars : Kputch(c)
    \/ Backspace \/ Tab
    \/ Locate \/ StoreChar \/ Advance \/ CarriageReturn \/ LineFeed \/ Margin
    \/ kscroll \/ move_csr
    \/ \E c \in Chars : HandlerKputch(c)

Spec == Init /\ [][Next]_vars

-----------------------------------------------------------------------------
(* Properties.                                                             *)

Limit == IF raced THEN Cell(Wide - 1, Rows - 1) + 1 ELSE Cell(0, Rows + 1)

\* Whatever the handlers print between two steps of kmain's kputch, every
\* character and every blanked row lies in the 25 rows or the one below them:
\* 4160 bytes of the 32 KB at 0xB8000, although a handler finds csr_y and
\* csr_x beyond the screen, and kmain scrolls by the row the handler left.  The
\* exception is the backspace of kmain that a handler overtakes: csr_x, of which
\* the comment at its declaration says "shouldn't ever be neg.", is then 65535
\* until kmain's test of the margin, and a handler may print a character
\* in that column, above the text memory but below the kernel.
InTextMemory == reach <= Limit

\* Between two of kmain's kputch the cursor is on the screen, after an overtaken
\* backspace too, and never more than one row or column beyond it for a handler
\* to find but in the steps after such a backspace.
CursorBounded ==
    /\ csr_y \in 0 .. Rows
    /\ \/ csr_x \in 0 .. Columns
       \/ csr_x = Wide - 1 /\ raced /\ pc \in {"margin", "wrap"}
    /\ pc = "idle" => csr_x < Columns /\ csr_y < Rows

\* The comment above move_csr: the hardware cursor is "under the last character
\* pressed".  It is, unless a handler printed while kmain was in move_csr;
\* the next undisturbed kputch puts it right.
HardwareCursor == pc = "idle" /\ ~disturbed => crtc = Bytes(Cell(csr_x, csr_y))

=============================================================================
