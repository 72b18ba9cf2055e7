--------------------------- MODULE Console_proofs ---------------------------
(***************************************************************************)
(* Proofs about Console, for every size of the screen: the inductive       *)
(* invariant says at which places of kputch the cursor may be beyond the   *)
(* screen, and what the register and temp of kscroll hold there.           *)
(***************************************************************************)
EXTENDS Console, TLAPS

Places == {"idle", "return_only", "load_tab", "test_x", "load_dec", "row", "column", "store", "load_x", "store_x", "return", "load_y",
           "store_y", "margin", "wrap", "load_y_wrap", "store_y_wrap", "scroll", "lines",
           "copy", "bottom", "address", "address_x", "index_high", "high", "index_low",
           "low"}

TypeInv ==
    /\ csr_x \in 0 .. Columns \cup {Wide - 1} /\ csr_y \in 0 .. Rows
    /\ pc \in Places /\ reg \in Nat /\ lines \in Int /\ reach \in Nat
    /\ raced \in BOOLEAN /\ disturbed \in BOOLEAN

\* Where the cursor may be one column, or one row, beyond the screen, and where
\* an overtaken backspace has it below zero; after the test of the row it stays
\* in the last row or below.
BeyondInv ==
    /\ csr_x >= Columns => pc \in {"margin", "wrap"} /\ csr_y < Rows
    /\ csr_x = Wide - 1 => raced
    /\ pc = "test_x" => ~raced
    /\ pc = "load_dec" => (csr_x = 0 => raced) /\ reach <= Cell(0, Rows + 1)
    /\ csr_y = Rows => pc \in {"margin", "scroll", "lines", "copy", "bottom"}
    /\ pc \in {"lines", "copy", "bottom"} => csr_y >= Rows - 1

\* What kmain has in its register, whatever the handlers did since it was loaded.
RegInv ==
    /\ pc = "column" => reg <= Cell(0, Rows - 1)
    /\ pc = "store" => reg < Cell(0, Rows)
    /\ pc = "store_x" => reg <= Columns \/ (reg = Wide - 1 /\ raced)
    /\ pc \in {"store_y", "store_y_wrap"} => reg <= Rows
    /\ pc = "copy" => lines \in {0, 1}

IInv == TypeInv /\ BeyondInv /\ RegInv /\ InTextMemory

-----------------------------------------------------------------------------
(* The arithmetic of cells.                                                *)

LEMMA CellBounds ==
    /\ Cell(0, Rows) \in Nat /\ Cell(0, Rows - 1) \in Nat /\ Cell(0, Rows + 1) \in Nat
    /\ Cell(0, Rows - 1) + Columns = Cell(0, Rows)
    /\ Cell(0, Rows) + Columns = Cell(0, Rows + 1)
    /\ \A x \in Nat, y \in 0 .. Rows :
           /\ Cell(x, y) \in Nat /\ Cell(x, y) = Cell(0, y) + x
           /\ Cell(0, y) <= Cell(0, Rows)
           /\ y < Rows => Cell(0, y) <= Cell(0, Rows - 1)
  <1>1. /\ Columns \in Nat /\ Rows \in Nat /\ Rows # 0
    BY SizeAssumption
  <1>2. \A y, z, c \in Nat : y <= z => y * c \in Nat /\ y * c <= z * c
    OBVIOUS
  <1>3. \A y, c \in Nat : (y + 1) * c = y * c + c
    OBVIOUS
  <1>4. /\ (Rows - 1) * Columns \in Nat
        /\ (Rows - 1) * Columns + Columns = Rows * Columns
        /\ Rows * Columns \in Nat /\ Rows * Columns + Columns = (Rows + 1) * Columns
    <2>1. Rows - 1 \in Nat
      BY <1>1
    <2>2. (Rows - 1) + 1 = Rows
      BY <1>1
    <2> QED BY <1>1, <1>2, <1>3, <2>1, <2>2
  <1>5. ASSUME NEW x \in Nat, NEW y \in 0 .. Rows
        PROVE  /\ y * Columns \in Nat /\ y * Columns <= Rows * Columns
               /\ y < Rows => y * Columns <= (Rows - 1) * Columns
    <2>1. Rows - 1 \in Nat /\ y \in Nat /\ y <= Rows /\ (y < Rows => y <= Rows - 1)
      BY <1>1
    <2> QED BY <1>1, <1>2, <2>1
  <1> QED BY <1>1, <1>4, <1>5 DEF Cell

\* The cells of the screen, those of a column too many, and the one that is
\* reached from a column below zero.
LEMMA LimitBounds ==
    /\ Cell(Wide - 1, Rows - 1) = Cell(0, Rows - 1) + Wide - 1
    /\ Cell(0, Rows + 1) <= Cell(Wide - 1, Rows - 1) + 1
    /\ Limit \in Nat /\ Cell(0, Rows + 1) <= Limit
    /\ raced => Limit = Cell(Wide - 1, Rows - 1) + 1
  <1>1. /\ Columns \in Nat \ {0} /\ Rows \in Nat \ {0} /\ Wide \in Nat /\ Wide > 2 * Columns
    BY SizeAssumption
  <1>2. Cell(Wide - 1, Rows - 1) = Cell(0, Rows - 1) + Wide - 1
    <2>1. Wide - 1 \in Nat /\ Rows - 1 \in 0 .. Rows
      BY <1>1
    <2>2. /\ Cell(Wide - 1, Rows - 1) = Cell(0, Rows - 1) + (Wide - 1)
          /\ Cell(0, Rows - 1) \in Nat
      BY <2>1, CellBounds
    <2> QED BY <1>1, <2>2
  <1>3. /\ Cell(0, Rows + 1) \in Nat /\ Cell(0, Rows - 1) \in Nat
        /\ Cell(0, Rows + 1) = Cell(0, Rows - 1) + Columns + Columns
    BY <1>1, CellBounds
  <1>4. /\ Cell(Wide - 1, Rows - 1) + 1 \in Nat
        /\ Cell(0, Rows + 1) <= Cell(Wide - 1, Rows - 1) + 1
    BY <1>1, <1>2, <1>3
  <1> QED BY <1>2, <1>3, <1>4 DEF Limit

LEMMA CellAt ==
    ASSUME NEW x \in Nat, NEW y \in 0 .. Rows
    PROVE  /\ Cell(x, y) \in Nat /\ Cell(0, y) \in Nat /\ Cell(x, y) = Cell(0, y) + x
           /\ Cell(0, y) <= Cell(0, Rows)
           /\ y < Rows => Cell(0, y) <= Cell(0, Rows - 1)
  <1>1. Cell(x, y) \in Nat /\ Cell(x, y) = Cell(0, y) + x
    BY CellBounds
  <1>2. /\ Cell(0, y) \in Nat /\ Cell(0, y) <= Cell(0, Rows)
        /\ y < Rows => Cell(0, y) <= Cell(0, Rows - 1)
    BY CellBounds
  <1> QED BY <1>1, <1>2

LEMMA OnScreen ==
    ASSUME csr_x \in 0 .. Columns, csr_y \in 0 .. Rows, csr_x = Columns => csr_y < Rows
    PROVE  Cell(csr_x, csr_y) \in Nat /\ Cell(csr_x, csr_y) + 1 <= Cell(0, Rows + 1)
  <1>1. Columns \in Nat \ {0} /\ Rows \in Nat \ {0}
    BY SizeAssumption
  <1>2. /\ Cell(csr_x, csr_y) \in Nat /\ Cell(0, csr_y) \in Nat
        /\ Cell(csr_x, csr_y) = Cell(0, csr_y) + csr_x
        /\ Cell(0, csr_y) <= Cell(0, Rows)
        /\ csr_y < Rows => Cell(0, csr_y) <= Cell(0, Rows - 1)
    <2>1. csr_x \in Nat
      BY <1>1
    <2> QED BY <2>1, CellAt
  <1> QED BY <1>1, <1>2, CellBounds

-----------------------------------------------------------------------------
(* The columns, in the width of csr_x.                                     *)

LEMMA Small ==
    /\ Columns \in Nat \ {0} /\ Rows \in Nat \ {0} /\ TabStop \in Nat \ {0}
    /\ Wide \in Nat \ {0} /\ Columns < Wide - 1 /\ Wide > 2 * Columns
  BY SizeAssumption

\* The first tab stop after a column of the screen is at most one column beyond it.
LEMMA TabStops == \A x \in 0 .. Columns - 1 : ((x + TabStop) \div TabStop) * TabStop \in 0 .. Columns
  <1>2. \A a, b \in Nat, t \in Nat \ {0} : a < b => a * t + t <= b * t
    <2> SUFFICES ASSUME NEW a \in Nat, NEW b \in Nat, NEW t \in Nat \ {0}, a < b
                 PROVE  a * t + t <= b * t
      OBVIOUS
    <2>1. PICK d \in Nat : b = a + 1 + d
      <3>1. b - a - 1 \in Nat /\ b = a + 1 + (b - a - 1)
        OBVIOUS
      <3> QED BY <3>1
    <2>2. b * t = a * t + t + d * t /\ d * t \in Nat /\ a * t \in Nat
      BY <2>1
    <2> QED BY <2>2
  <1>3. \A a, t \in Nat : a * t \in Nat
    OBVIOUS
  <1> SUFFICES ASSUME NEW x \in 0 .. Columns - 1
               PROVE  ((x + TabStop) \div TabStop) * TabStop \in 0 .. Columns
    OBVIOUS
  <1> DEFINE k == Columns \div TabStop
             j == (x + TabStop) \div TabStop
  <1>4. k \in Nat /\ Columns = k * TabStop
    <2>1. TabStop \in Nat \ {0} /\ Columns \in Nat /\ Columns % TabStop = 0
      BY SizeAssumption
    <2> QED BY <2>1
  <1>5. j \in Nat /\ j * TabStop <= x + TabStop /\ x + TabStop < Columns + TabStop
    <2>1. TabStop \in Nat \ {0} /\ x + TabStop \in Nat /\ x < Columns /\ Columns \in Nat
      BY Small
    <2>2. j \in Nat /\ j * TabStop <= x + TabStop
      BY <2>1
    <2> QED BY <2>1, <2>2
  <1>6. j <= k
    <2>1. SUFFICES ASSUME k < j PROVE FALSE
      BY <1>4, <1>5
    <2>2. k * TabStop + TabStop <= j * TabStop
      BY <1>2, <1>4, <1>5, <2>1, Small
    <2> QED BY <1>3, <1>4, <1>5, <2>2, Small
  <1>7. j * TabStop <= k * TabStop
    <2>1. j < k => j * TabStop + TabStop <= k * TabStop
      BY <1>2, <1>4, <1>5, Small
    <2> QED BY <1>3, <1>4, <1>5, <1>6, <2>1, Small
  <1> QED BY <1>3, <1>4, <1>5, <1>7, Small

\* What kputch makes of a column of the screen.
LEMMA Columnwise ==
    ASSUME NEW x \in 0 .. Columns - 1
    PROVE  /\ NextColumn(x) \in 0 .. Columns
           /\ NextTab(x) \in 0 .. Columns
           /\ x # 0 => Before(x) \in 0 .. Columns - 1
           /\ x = 0 => Before(x) = Wide - 1
  <1>1. \A m \in 0 .. Wide - 1 : m % Wide = m
    BY Small
  <1>2. NextColumn(x) = x + 1
    BY <1>1, Small DEF NextColumn
  <1>3. NextTab(x) = ((x + TabStop) \div TabStop) * TabStop
    BY <1>1, TabStops, Small DEF NextTab
  <1>4. x # 0 => Before(x) = x - 1
    BY <1>1, Small DEF Before
  <1>5. x = 0 => Before(x) = Wide - 1
    <2>1. (0 - 1) % Wide = Wide - 1
      BY Small
    <2> QED BY <2>1 DEF Before
  <1> QED BY <1>2, <1>3, <1>4, <1>5, TabStops, Small

-----------------------------------------------------------------------------
(* The handlers.                                                           *)

\* And of any column a handler may find.
LEMMA ColumnType ==
    \A x \in Nat : NextColumn(x) \in Nat /\ NextTab(x) \in Nat /\ Before(x) \in Nat
  <1>1. \A m \in Int : m % Wide \in Nat
    BY Small
  <1>2. \A m \in Nat, t \in Nat \ {0} : m \div t \in Nat
    OBVIOUS
  <1>3. \A m, t \in Nat : m * t \in Nat
    OBVIOUS
  <1> QED BY <1>1, <1>2, <1>3, Small DEF NextColumn, NextTab, Before

\* Where a handler's kputch puts the cursor before it scrolls.
LEMMA PlacedType ==
    ASSUME csr_x \in Nat, csr_y \in 0 .. Rows, NEW c \in Chars
    PROVE  LET p == Wrapped(Placed(c))
           IN  /\ p[1] \in 0 .. Columns - 1 /\ p[2] \in Nat
               /\ csr_y <= p[2] /\ p[2] <= csr_y + 1
  <1> DEFINE q == Placed(c)
  <1>1. Columns \in Nat \ {0} /\ Rows \in Nat \ {0}
    BY SizeAssumption
  <1>2. /\ q[1] \in Nat /\ q[2] \in Nat
        /\ \/ q[2] = csr_y
           \/ q[1] = 0 /\ q[2] = csr_y + 1
    <2>1. CASE c = "print"
      BY <1>1, <2>1, ColumnType DEF Placed
    <2>2. CASE c = "newline"
      BY <1>1, <2>2 DEF Placed
    <2>3. CASE c = "tab"
      BY <1>1, <2>3, ColumnType DEF Placed
    <2>4. CASE c = "backspace"
      BY <1>1, <2>4, ColumnType DEF Placed
    <2>5. CASE c = "other"
      BY <1>1, <2>5 DEF Placed
    <2>6. CASE c = "return"
      BY <1>1, <2>6 DEF Placed
    <2> QED BY <2>1, <2>2, <2>3, <2>4, <2>5, <2>6 DEF Chars
  <1> HIDE DEF q
  <1>3. CASE q[1] >= Columns
    <2>1. Wrapped(q) = <<0, q[2] + 1>> /\ q[2] = csr_y
      BY <1>1, <1>2, <1>3 DEF Wrapped
    <2> QED BY <1>1, <1>2, <2>1 DEF q
  <1>4. CASE q[1] < Columns
    <2>1. Wrapped(q) = q
      BY <1>1, <1>2, <1>4 DEF Wrapped
    <2> QED BY <1>1, <1>2, <1>4, <2>1 DEF q
  <1> QED BY <1>1, <1>2, <1>3, <1>4

LEMMA HandlerStep ==
    ASSUME IInv, NEW c \in Chars, HandlerKputch(c)
    PROVE  IInv'
  <1> DEFINE p == Wrapped(Placed(c))
             q == Scrolled(p)
  <1>1. Columns \in Nat \ {0} /\ Rows \in Nat \ {0} /\ Wide \in Nat \ {0} /\ Columns < Wide
    BY Small
  <1>2. /\ p[1] \in 0 .. Columns - 1 /\ p[2] \in Nat
        /\ csr_y <= p[2] /\ p[2] <= csr_y + 1
    BY <1>1, PlacedType DEF IInv, TypeInv
  <1>3. /\ csr_x' = q[1] /\ csr_y' = q[2]
        /\ reach' = Larger(IF c = "print" THEN Larger(reach, Cell(csr_x, csr_y) + 1)
                                          ELSE reach,
                           IF p[2] >= Rows THEN Cell(0, BlankedRow(p[2]) + 1) ELSE 0)
        /\ raced' = IF pc = "load_dec" THEN q[1] = 0 ELSE raced
        /\ disturbed' = (disturbed \/ pc # "idle")
        /\ UNCHANGED <<pc, reg, lines>>
    BY DEF HandlerKputch
  <1> HIDE DEF p
  <1>4. /\ q[1] \in 0 .. Columns - 1 /\ q[2] \in 0 .. Rows - 1
        /\ csr_y >= Rows - 1 => q[2] >= Rows - 1
    BY <1>1, <1>2 DEF Scrolled, IInv, TypeInv
  <1> HIDE DEF q
  <1>5. /\ csr_x' \in 0 .. Columns - 1
        /\ csr_y' \in 0 .. Rows /\ csr_y' # Rows
        /\ csr_y >= Rows - 1 => csr_y' >= Rows - 1
    BY <1>1, <1>3, <1>4
  <1>6. Cell(csr_x, csr_y) \in Nat /\ Cell(csr_x, csr_y) + 1 <= Limit
    <2>1. /\ csr_x <= Columns \/ csr_x = Wide - 1
          /\ csr_x >= Columns => csr_y < Rows
          /\ csr_x = Wide - 1 => raced
          /\ csr_x \in Nat /\ csr_y \in 0 .. Rows
      BY <1>1 DEF IInv, TypeInv, BeyondInv
    <2>2. CASE csr_x <= Columns
      <3>1. Cell(csr_x, csr_y) \in Nat /\ Cell(csr_x, csr_y) + 1 <= Cell(0, Rows + 1)
        BY <1>1, <2>1, <2>2, OnScreen
      <3> QED BY <3>1, LimitBounds, CellBounds
    <2>3. CASE csr_x = Wide - 1
      <3>1. /\ Cell(csr_x, csr_y) \in Nat /\ Cell(0, csr_y) \in Nat
            /\ Cell(csr_x, csr_y) = Cell(0, csr_y) + csr_x
            /\ Cell(0, csr_y) <= Cell(0, Rows - 1)
        <4>1. csr_y < Rows
          BY <1>1, <2>1, <2>3
        <4> QED BY <2>1, <4>1, CellAt
      <3>2. Cell(0, Rows - 1) \in Nat
        BY CellBounds
      <3> QED BY <1>1, <2>1, <2>3, <3>1, <3>2, LimitBounds
    <2> QED BY <2>1, <2>2, <2>3
  <1>7. p[2] >= Rows => /\ Cell(0, BlankedRow(p[2]) + 1) \in Nat
                        /\ Cell(0, BlankedRow(p[2]) + 1) <= Cell(0, Rows + 1)
    <2>1. SUFFICES ASSUME p[2] >= Rows
                   PROVE  /\ Cell(0, BlankedRow(p[2]) + 1) \in Nat
                          /\ Cell(0, BlankedRow(p[2]) + 1) <= Cell(0, Rows + 1)
      OBVIOUS
    <2>2. BlankedRow(p[2]) + 1 \in 0 .. Rows
      BY <1>1, <1>2, <2>1 DEF BlankedRow, IInv, TypeInv
    <2> QED BY <1>1, <2>2, CellBounds
  <1>8. raced' \in BOOLEAN
    BY <1>3 DEF IInv, TypeInv
  <1>9. Cell(0, Rows + 1)' = Cell(0, Rows + 1) /\ Cell(0, Rows + 1)' <= Limit'
    <2>1. Cell(0, Rows + 1) <= Cell(Wide - 1, Rows - 1) + 1 /\ Cell(0, Rows + 1) \in Nat
      BY LimitBounds, CellBounds
    <2> QED BY <2>1 DEF Limit, Cell
  <1>10. pc = "load_dec" => reach <= Cell(0, Rows + 1)
    BY DEF IInv, BeyondInv
  <1>11. /\ reach' \in Nat /\ reach' <= Limit'
         /\ pc = "load_dec" => reach' <= Cell(0, Rows + 1)'
    <2>1. CASE pc = "load_dec"
      <3>1. Cell(csr_x, csr_y) + 1 <= Cell(0, Rows + 1)
        BY <1>1, <2>1, OnScreen DEF IInv, TypeInv, BeyondInv
      <3>2. reach' \in Nat /\ reach' <= Cell(0, Rows + 1)
        BY <1>3, <1>6, <1>7, <1>10, <2>1, <3>1, CellBounds DEF Larger, IInv, TypeInv
      <3>3. Limit' \in Nat
        <4>1. Cell(0, Rows + 1) \in Nat /\ Cell(0, Rows - 1) \in Nat
          BY CellBounds
        <4>2. Cell(Wide - 1, Rows - 1) + 1 \in Nat
          BY <1>1, <4>1, LimitBounds
        <4> QED BY <4>1, <4>2 DEF Limit, Cell
      <3> QED BY <1>9, <3>2, <3>3, CellBounds
    <2>2. CASE pc # "load_dec"
      <3>1. Limit' = Limit
        BY <1>3, <2>2 DEF Limit, Cell
      <3>2. reach \in Nat /\ reach <= Limit /\ Limit \in Nat
        BY LimitBounds DEF IInv, TypeInv, InTextMemory
      <3>3. Cell(0, Rows + 1) \in Nat /\ Cell(0, Rows + 1) <= Limit
        BY CellBounds, LimitBounds
      <3> QED BY <1>3, <1>6, <1>7, <2>2, <3>1, <3>2, <3>3 DEF Larger
    <2> QED BY <2>1, <2>2
  <1>12. TypeInv' /\ InTextMemory'
    BY <1>1, <1>3, <1>5, <1>8, <1>11 DEF TypeInv, InTextMemory, Limit, IInv
  <1>13. BeyondInv'
    <2>1. csr_x' < Columns /\ csr_x' # Wide - 1
      BY <1>1, <1>5
    <2>2. pc = "load_dec" /\ csr_x' = 0 => raced'
      BY <1>3
    <2>3. pc = "test_x" => ~raced'
      BY <1>3 DEF IInv, BeyondInv
    <2> QED BY <1>1, <1>3, <1>5, <1>11, <2>1, <2>2, <2>3 DEF BeyondInv, IInv
  <1>14. RegInv'
    BY <1>3 DEF RegInv, IInv, Cell
  <1> QED BY <1>12, <1>13, <1>14 DEF IInv

-----------------------------------------------------------------------------
(* kmain.                                                                  *)

LEMMA MainStep ==
    ASSUME IInv,
           \/ \E c \in Chars : Kputch(c)
           \/ Backspace \/ Tab
           \/ Locate \/ StoreChar \/ Advance \/ CarriageReturn \/ LineFeed \/ Margin
           \/ kscroll \/ move_csr
    PROVE  IInv'
  <1>1. Columns \in Nat \ {0} /\ Rows \in Nat \ {0} /\ Wide \in Nat \ {0} /\ Columns < Wide - 1
    BY Small
  <1> DEFINE row(y) == Cell(0, y)
  <1>2. /\ row(Rows) \in Nat /\ row(Rows - 1) \in Nat /\ row(Rows + 1) \in Nat
        /\ row(Rows - 1) + Columns = row(Rows) /\ row(Rows) + Columns = row(Rows + 1)
    BY CellBounds
  <1>3. /\ row(csr_y) \in Nat
        /\ csr_y < Rows => row(csr_y) <= row(Rows - 1)
    BY CellBounds DEF IInv, TypeInv
  <1>4. UNCHANGED <<reach, raced>> => InTextMemory'
    BY DEF IInv, InTextMemory, Limit, Cell
  <1>17. Limit \in Nat /\ row(Rows + 1) <= Limit
    BY LimitBounds
  <1>5. ASSUME NEW c \in Chars, Kputch(c)
        PROVE  IInv'
    <2>1. /\ pc = "idle" /\ reach' = 0 /\ raced' = FALSE /\ UNCHANGED <<csr_x, csr_y, reg, lines, disturbed>>
          /\ pc' \in {"row", "return", "return_only", "load_tab", "test_x", "margin"}
      BY <1>5 DEF Kputch, At, Branch, cursorVars
    <2>2. TypeInv'
      BY <2>1 DEF IInv, TypeInv, Places
    <2>3. BeyondInv'
      BY <1>1, <2>1 DEF IInv, TypeInv, BeyondInv
    <2>4. RegInv'
      BY <2>1 DEF RegInv
    <2>5. InTextMemory'
      <3>1. Cell(0, Rows + 1) \in Nat
        BY CellBounds
      <3> QED BY <2>1, <3>1 DEF InTextMemory, Limit, Cell
    <2> QED BY <2>2, <2>3, <2>4, <2>5 DEF IInv
  <1>18. CASE Backspace
    <2>1. csr_x \in 0 .. Columns - 1
      BY <1>1, <1>18 DEF Backspace, At, IInv, TypeInv, BeyondInv
    <2>2. pc = "load_dec" => \/ reg' \in 0 .. Columns - 1
                             \/ reg' = Wide - 1 /\ raced
      BY <1>18, <2>1, Columnwise DEF Backspace, At, IInv, BeyondInv
    <2>3. TypeInv' /\ InTextMemory'
      BY <1>1, <1>4, <1>18, <2>2
         DEF Backspace, At, cursorVars, cardVars, historyVars, IInv, TypeInv, Places
    <2>4. BeyondInv'
      BY <1>18 DEF Backspace, At, cursorVars, cardVars, historyVars, IInv, BeyondInv, InTextMemory, Limit, Cell
    <2>5. RegInv'
      BY <1>1, <1>18, <2>2 DEF Backspace, At, cursorVars, cardVars, historyVars, RegInv, Cell
    <2> QED BY <2>3, <2>4, <2>5 DEF IInv
  <1>19. CASE Tab
    <2>1. csr_x \in 0 .. Columns - 1
      BY <1>1, <1>19 DEF Tab, At, IInv, TypeInv, BeyondInv
    <2>2. reg' \in 0 .. Columns
      BY <1>19, <2>1, Columnwise DEF Tab
    <2>3. TypeInv'
      BY <1>1, <1>19, <2>2 DEF Tab, At, cursorVars, cardVars, historyVars, IInv, TypeInv, Places
    <2>4. BeyondInv'
      BY <1>1, <1>19, <2>2 DEF Tab, At, cursorVars, cardVars, historyVars, IInv, BeyondInv, RegInv, TypeInv
    <2>5. RegInv'
      BY <1>1, <1>19, <2>2 DEF Tab, At, cursorVars, cardVars, historyVars, IInv, RegInv
    <2>6. InTextMemory'
      BY <1>4, <1>19, <2>2 DEF Tab, cursorVars, cardVars, historyVars
    <2> QED BY <2>3, <2>4, <2>5, <2>6 DEF IInv
  <1>6. CASE Locate
    <2>1. TypeInv' /\ RegInv'
      BY <1>1, <1>2, <1>3, <1>6
         DEF Locate, At, cursorVars, cardVars, historyVars, IInv, TypeInv, Places, BeyondInv, RegInv
    <2>2. BeyondInv'
      BY <1>6 DEF Locate, At, cursorVars, cardVars, historyVars, IInv, BeyondInv
    <2> QED BY <1>4, <1>6, <2>1, <2>2 DEF Locate, historyVars, IInv
  <1>7. CASE StoreChar
    <2>1. reach' = Larger(reach, reg + 1) /\ reg + 1 <= row(Rows + 1)
      BY <1>1, <1>2, <1>7 DEF StoreChar, At, IInv, TypeInv, RegInv
    <2> QED BY <1>1, <1>2, <1>7, <2>1
            DEF StoreChar, At, cursorVars, cardVars, Larger, IInv, TypeInv, Places, BeyondInv, RegInv,
                InTextMemory, Limit, Cell
  <1>8. CASE Advance
    <2>1. pc = "load_x" => reg' \in 0 .. Columns
      <3>1. pc = "load_x" => csr_x \in 0 .. Columns - 1
        BY <1>1 DEF IInv, TypeInv, BeyondInv
      <3> QED BY <1>8, <3>1, Columnwise DEF Advance, At
    <2>3. TypeInv'
      BY <1>1, <1>8, <2>1 DEF Advance, At, cardVars, historyVars, IInv, TypeInv, Places, RegInv
    <2>4. BeyondInv'
      BY <1>1, <1>8, <2>1 DEF Advance, At, cardVars, historyVars, IInv, BeyondInv, RegInv, TypeInv
    <2>5. RegInv'
      BY <1>1, <1>8, <2>1 DEF Advance, At, cardVars, historyVars, IInv, RegInv
    <2>6. InTextMemory'
      BY <1>4, <1>8, <2>1 DEF Advance, cardVars, historyVars
    <2> QED BY <2>3, <2>4, <2>5, <2>6 DEF IInv
  <1>9. CASE CarriageReturn
    BY <1>1, <1>4, <1>9
       DEF CarriageReturn, At, cardVars, historyVars, IInv, TypeInv, Places, BeyondInv, RegInv
  <1>10. CASE LineFeed
    BY <1>1, <1>4, <1>10
       DEF LineFeed, At, cardVars, historyVars, IInv, TypeInv, Places, BeyondInv, RegInv
  <1>11. CASE Margin
    BY <1>1, <1>4, <1>11
       DEF Margin, At, cursorVars, cardVars, historyVars, IInv, TypeInv, Places, BeyondInv, RegInv
  <1>12. CASE TestRow
    BY <1>1, <1>4, <1>12
       DEF TestRow, At, cursorVars, cardVars, historyVars, IInv, TypeInv, Places, BeyondInv, RegInv
  <1>13. CASE MoveRows
    <2>1. Rows - lines + 1 \in {Rows, Rows + 1}
      BY <1>1, <1>13 DEF MoveRows, At, IInv, RegInv
    <2>2. row(Rows - lines + 1) \in Nat /\ row(Rows - lines + 1) <= row(Rows + 1)
      BY <1>1, <1>2, <2>1
    <2>3. reach' = Larger(reach, row(Rows - lines + 1)) /\ UNCHANGED raced
      BY <1>13 DEF MoveRows
    <2>4. Limit' = Limit
      BY <2>3 DEF Limit, Cell
    <2>5. reach' \in Nat /\ InTextMemory'
      BY <1>2, <1>17, <2>2, <2>3, <2>4 DEF Larger, IInv, TypeInv, InTextMemory
    <2> QED BY <1>1, <1>13, <2>5
            DEF MoveRows, At, cursorVars, cardVars, IInv, TypeInv, Places, BeyondInv, RegInv
  <1>14. CASE Bottom
    BY <1>1, <1>4, <1>14
       DEF Bottom, At, cardVars, historyVars, IInv, TypeInv, Places, BeyondInv, RegInv
  <1>15. CASE Address
    <2>1. TypeInv'
      <3>1. reg' \in Nat
        BY <1>1, <1>3, <1>15 DEF Address, IInv, TypeInv
      <3>2. pc' \in Places /\ disturbed' \in BOOLEAN
        BY <1>15 DEF Address, At, Places, IInv, TypeInv
      <3> QED BY <1>15, <3>1, <3>2 DEF Address, cursorVars, cardVars, historyVars, IInv, TypeInv
    <2>2. BeyondInv' /\ RegInv'
      BY <1>15 DEF Address, At, cursorVars, cardVars, historyVars, IInv, BeyondInv, RegInv
    <2> QED BY <1>4, <1>15, <2>1, <2>2 DEF Address, IInv
  <1>16. CASE SetCursor
    BY <1>1, <1>4, <1>16
       DEF SetCursor, At, cursorVars, historyVars, IInv, TypeInv, Places, BeyondInv, RegInv
  <1> QED BY <1>5, <1>6, <1>7, <1>8, <1>9, <1>10, <1>11, <1>12, <1>13, <1>14, <1>15, <1>16,
             <1>18, <1>19
          DEF kscroll, move_csr

-----------------------------------------------------------------------------
(* The theorems.                                                           *)

LEMMA Inductive == Spec => []IInv
  <1>1. Init => IInv
    <2> SUFFICES ASSUME Init PROVE IInv
      OBVIOUS
    <2>1. Columns \in Nat \ {0} /\ Rows \in Nat \ {0}
      BY SizeAssumption
    <2>2. Limit \in Nat
      BY LimitBounds
    <2>3. /\ csr_x = 0 /\ csr_y = 0 /\ pc = "idle" /\ reg = 0 /\ lines = 0
          /\ reach = 0 /\ raced = FALSE /\ disturbed = FALSE
      BY DEF Init
    <2>4. TypeInv /\ InTextMemory
      <3>1. disturbed \in BOOLEAN /\ raced \in BOOLEAN
        BY <2>3
      <3>2. /\ csr_x \in 0 .. Columns \cup {Wide - 1} /\ csr_y \in 0 .. Rows /\ pc \in Places
            /\ reg \in Nat /\ lines \in Int
        BY <2>1, <2>3 DEF Places
      <3>3. reach \in Nat /\ reach <= Limit
        BY <2>2, <2>3
      <3> QED BY <3>1, <3>2, <3>3 DEF TypeInv, InTextMemory
    <2>5. BeyondInv /\ RegInv
      BY <2>1, <2>3, Small DEF BeyondInv, RegInv
    <2> QED BY <2>4, <2>5 DEF IInv
  <1>2. IInv /\ [Next]_vars => IInv'
    <2> SUFFICES ASSUME IInv, [Next]_vars PROVE IInv'
      OBVIOUS
    <2>1. CASE UNCHANGED vars
      BY <2>1 DEF vars, IInv, TypeInv, BeyondInv, RegInv, InTextMemory, Limit, Cell
    <2>2. CASE \E c \in Chars : HandlerKputch(c)
      BY <2>2, HandlerStep
    <2> QED BY <2>1, <2>2, MainStep DEF Next
  <1> QED BY <1>1, <1>2, PTL DEF Spec

\* Whatever kmain and the handlers print and between whichever steps, both write
\* to the rows of the screen and the one below them only, except for the column
\* below zero that a handler may write to while kmain finishes a backspace the
\* handlers overtook, and that one lies below the kernel.
THEOREM StaysInTextMemory == Spec => []InTextMemory
  <1>1. IInv => InTextMemory
    BY DEF IInv
  <1> QED BY <1>1, Inductive, PTL

\* A handler never finds the cursor more than one column or one row beyond the
\* screen, or below column zero before the margin's test of a backspace it
\* overtook; between two of kmain's kputch the cursor is on the screen.
THEOREM CursorStaysBounded == Spec => []CursorBounded
  <1>1. IInv => CursorBounded
    BY Small DEF IInv, TypeInv, BeyondInv, CursorBounded
  <1> QED BY <1>1, Inductive, PTL

-----------------------------------------------------------------------------
(* The hardware cursor.                                                    *)

\* While no handler has printed since kmain began to move the cursor: what
\* the register holds, and which of the two bytes the card already has.
CardInv ==
    /\ pc \in Places /\ disturbed \in BOOLEAN
    /\ crtc = [high |-> crtc.high, low |-> crtc.low]
    /\ ~disturbed =>
        /\ pc = "address_x" => reg = Cell(0, csr_y)
        /\ pc \in {"index_high", "high", "index_low", "low"} => reg = Cell(csr_x, csr_y)
        /\ pc = "high" => index = "high"
        /\ pc = "low" => index = "low"
        /\ pc \in {"index_low", "low"} => crtc.high = Bytes(reg).high
        /\ pc = "idle" => crtc = Bytes(Cell(csr_x, csr_y))

LEMMA CardInductive == Spec => []CardInv
  <1>1. Init => CardInv
    <2> SUFFICES ASSUME Init PROVE CardInv
      OBVIOUS
    <2>1. Cell(0, 0) = 0
      BY SizeAssumption DEF Cell
    <2>2. /\ csr_x = 0 /\ csr_y = 0 /\ pc = "idle" /\ crtc = Bytes(0) /\ disturbed = FALSE
      BY DEF Init
    <2>3. pc \in Places /\ crtc = [high |-> crtc.high, low |-> crtc.low]
      BY <2>2 DEF Places, Bytes
    <2> QED BY <2>1, <2>2, <2>3 DEF CardInv
  <1>2. ASSUME IInv, CardInv, [Next]_vars
        PROVE  CardInv'
    <2>1. CASE UNCHANGED vars
      BY <1>2, <2>1 DEF vars, CardInv, Cell, Bytes
    <2>2. ASSUME NEW c \in Chars, HandlerKputch(c)
          PROVE  CardInv'
      <3>1. /\ crtc' = Bytes(Cell(csr_x', csr_y')) /\ pc' = pc /\ reg' = reg
            /\ disturbed' = (disturbed \/ pc # "idle")
        BY <2>2 DEF HandlerKputch
      <3> QED BY <1>2, <3>1 DEF CardInv, Bytes, Places
    <2>3. ASSUME NEW c \in Chars, Kputch(c)
          PROVE  CardInv'
      BY <1>2, <2>3 DEF Kputch, At, Branch, cursorVars, cardVars, CardInv, Places
    <2>4. CASE Backspace \/ Tab \/ Locate \/ StoreChar \/ Advance \/ CarriageReturn \/ LineFeed \/ Margin \/ kscroll
      <3>1. pc' \in {"load_dec", "column", "store", "load_x", "store_x", "load_y", "store_y", "margin",
                     "wrap", "load_y_wrap", "store_y_wrap", "scroll", "lines", "copy", "bottom",
                     "address"}
        BY <2>4 DEF Backspace, Tab, Locate, StoreChar, Advance, CarriageReturn, LineFeed, Margin, kscroll,
                    TestRow, MoveRows, Bottom, At
      <3>2. UNCHANGED <<crtc, disturbed>>
        BY <2>4 DEF Backspace, Tab, Locate, StoreChar, Advance, CarriageReturn, LineFeed, Margin, kscroll,
                    TestRow, MoveRows, Bottom, cardVars, historyVars
      <3> QED BY <1>2, <3>1, <3>2 DEF CardInv, Places
    <2>5. CASE Address
      <3>1. Cell(csr_x, csr_y) = Cell(0, csr_y) + csr_x
        <4>1. csr_x \in Nat /\ csr_y \in 0 .. Rows
          BY <1>2, Small DEF IInv, TypeInv
        <4> QED BY <4>1, CellAt
      <3>2. UNCHANGED <<csr_x, csr_y, crtc>> /\ pc' \in {"address_x", "index_high"}
        BY <2>5 DEF Address, At, cursorVars, cardVars
      <3>3. /\ pc' = "address_x" => reg' = Cell(0, csr_y) /\ disturbed' = FALSE
            /\ pc' = "index_high" => reg' = reg + csr_x /\ disturbed' = disturbed
                                      /\ pc = "address_x"
        BY <2>5 DEF Address, At
      <3>4. pc' \in Places /\ disturbed' \in BOOLEAN
        BY <1>2, <3>2, <3>3 DEF Places, CardInv
      <3>5. crtc' = [high |-> crtc'.high, low |-> crtc'.low]
        BY <1>2, <3>2 DEF CardInv
      <3>6. pc' = "address_x" => reg' = Cell(0, csr_y')
        BY <3>2, <3>3
      <3>7. pc' = "index_high" /\ ~disturbed' => reg' = Cell(csr_x', csr_y')
        BY <1>2, <3>1, <3>2, <3>3 DEF CardInv
      <3> QED BY <3>2, <3>4, <3>5, <3>6, <3>7 DEF CardInv
    <2>6. CASE SetCursor
      BY <1>2, <2>6 DEF SetCursor, At, cursorVars, historyVars, CardInv, Places, Bytes
    <2> QED BY <1>2, <2>1, <2>2, <2>3, <2>4, <2>5, <2>6 DEF Next, move_csr
  <1> QED BY <1>1, <1>2, Inductive, PTL DEF Spec

\* After a kputch of kmain that no handler disturbed in move_csr, the card shows
\* the cursor where the console will write next.
THEOREM HardwareCursorFollows == Spec => []HardwareCursor
  <1>1. CardInv => HardwareCursor
    BY DEF CardInv, HardwareCursor
  <1> QED BY <1>1, CardInductive, PTL

=============================================================================
