--------------------------- MODULE Library_proofs ---------------------------
(***************************************************************************)
(* Proofs about the functions that wait for nothing, for every width of    *)
(* the tables' fields, every size of a page table, of the memory and of a  *)
(* word, every number printed and every point of the screen.  Loops are    *)
(* recursive functions in the modules: Induction below is what their       *)
(* proofs use.                                                             *)
(***************************************************************************)
EXTENDS Library, TLAPS, WellFoundedInduction, SequenceTheorems

-----------------------------------------------------------------------------
(* Arithmetic.                                                             *)

LEMMA DivMod ==
    \A a \in Nat, m \in Nat \ {0} :
        a \div m \in Nat /\ a % m \in 0 .. m - 1 /\ a = (a \div m) * m + (a % m)
  OBVIOUS

LEMMA DivNat ==
    \A a \in Nat, m \in Nat \ {0} : a \div m \in Nat /\ a % m \in Nat /\ a % m < m
  OBVIOUS

LEMMA Times == \A a, b \in Nat : a * b \in Nat
  OBVIOUS

LEMMA TimesMono == \A a, b, m \in Nat : a <= b => a * m <= b * m
  OBVIOUS

LEMMA TimesPositive == \A a, b \in Nat \ {0} : a * b \in Nat \ {0} /\ a <= a * b /\ b <= a * b
  OBVIOUS

LEMMA Quotient ==
    ASSUME NEW q \in Nat, NEW r \in Nat, NEW m \in Nat \ {0}, r < m
    PROVE  (q * m + r) \div m = q /\ (q * m + r) % m = r
<1> DEFINE a == q * m + r
<1> DEFINE p == a \div m
<1>0. a \in Nat
  BY Times
<1>1. p \in Nat /\ a % m \in 0 .. m - 1 /\ a = p * m + (a % m)
  BY <1>0, DivMod
<1>2. ~(p + 1 <= q)
  <2>1. SUFFICES ASSUME p + 1 <= q PROVE FALSE
    OBVIOUS
  <2>2. (p + 1) * m <= q * m
    BY <2>1, <1>1, TimesMono
  <2>3. p * m + m <= q * m
    BY <2>2, <1>1
  <2> QED  BY <2>3, <1>1
<1>3. ~(q + 1 <= p)
  <2>1. SUFFICES ASSUME q + 1 <= p PROVE FALSE
    OBVIOUS
  <2>2. (q + 1) * m <= p * m
    BY <2>1, <1>1, TimesMono
  <2>3. q * m + m <= p * m
    BY <2>2, <1>1
  <2> QED  BY <2>3, <1>1
<1>4. p = q
  BY <1>1, <1>2, <1>3
<1> QED  BY <1>1, <1>4

LEMMA Regroup ==
    ASSUME NEW p \in Int, NEW m \in Int, NEW k \in Int, NEW u \in Int, NEW v \in Int, NEW q,
           q = p * k + u
    PROVE  q * m + v = p * (m * k) + ((u * m) + v)
<1>1. q * m = (p * k) * m + u * m
  OBVIOUS
<1>2. (p * k) * m = p * (m * k)
  OBVIOUS
<1>3. p * (m * k) \in Int /\ u * m \in Int
  OBVIOUS
<1> QED  BY <1>1, <1>2, <1>3

\* Dividing twice is dividing by the product.
LEMMA Twice ==
    ASSUME NEW a \in Nat, NEW m \in Nat \ {0}, NEW k \in Nat \ {0}
    PROVE  /\ a \div (m * k) = (a \div m) \div k
           /\ a % (m * k) = (((a \div m) % k) * m) + (a % m)
<1> DEFINE q == a \div m
<1> DEFINE p == q \div k
<1>1. q \in Nat /\ a % m \in 0 .. m - 1 /\ a = q * m + (a % m)
  BY DivMod
<1>2. p \in Nat /\ q % k \in 0 .. k - 1 /\ q = p * k + (q % k)
  BY <1>1, DivMod
<1> DEFINE r == ((q % k) * m) + (a % m)
<1>3. a = p * (m * k) + r
  <2>1. q % k \in Int /\ a % m \in Int /\ p \in Int /\ m \in Int /\ k \in Int
    BY <1>1, <1>2
  <2>2. q = p * k + (q % k) /\ a = q * m + (a % m)
    BY <1>1, <1>2
  <2> HIDE DEF p, q
  <2>3. q * m + (a % m) = p * (m * k) + (((q % k) * m) + (a % m))
    BY <2>1, <2>2, Regroup
  <2> QED  BY <2>2, <2>3
<1>4. r \in Nat /\ r < m * k
  <2> DEFINE h == (q % k) * m
  <2>1. h <= (k - 1) * m
    BY <1>2, TimesMono
  <2>2. (k - 1) * m = m * k - m /\ m * k \in Nat
    OBVIOUS
  <2>3. h \in Nat
    BY <1>2, Times
  <2> HIDE DEF h
  <2>4. h + (a % m) \in Nat /\ h + (a % m) < m * k
    BY <2>1, <2>2, <2>3, <1>1
  <2> QED  BY <2>4 DEF h
<1>5. m * k \in Nat \ {0}
  BY TimesPositive
<1> HIDE DEF p, q, r
<1>6. (p * (m * k) + r) \div (m * k) = p /\ (p * (m * k) + r) % (m * k) = r
  BY <1>2, <1>4, <1>5, Quotient
<1> QED  BY <1>3, <1>6 DEF p, q, r

LEMMA QuotientBound ==
    ASSUME NEW a \in Nat, NEW m \in Nat \ {0}, NEW k \in Nat, a < m * k
    PROVE  a \div m < k
<1> DEFINE q == a \div m
<1>1. q \in Nat /\ a % m \in 0 .. m - 1 /\ a = q * m + (a % m)
  BY DivMod
<1> HIDE DEF q
<1>2. SUFFICES ASSUME k <= q PROVE FALSE
  BY <1>1 DEF q
<1>3. k * m <= q * m /\ k * m = m * k
  BY <1>1, <1>2, TimesMono
<1> QED  BY <1>1, <1>3, Times

LEMMA Small ==
    ASSUME NEW a \in Nat, NEW m \in Nat \ {0}, a < m
    PROVE  a \div m = 0 /\ a % m = a
<1>1. (0 * m + a) \div m = 0 /\ (0 * m + a) % m = a
  BY Quotient
<1> QED  BY <1>1

-----------------------------------------------------------------------------
(* Induction, from the least element of a set of numbers.                  *)

LEMMA LeastOf ==
    ASSUME NEW U \in SUBSET Nat, U # {}
    PROVE  \E x \in U : \A y \in U : x <= y
<1>1. IsWellFoundedOn(OpToRel(<, Nat), Nat)
  BY NatLessThanWellFounded
<1>2. PICK x \in U : \A y \in U : ~(<<y, x>> \in OpToRel(<, Nat))
  BY <1>1, WFMin
<1>3. \A y \in U : ~(y < x)
  BY <1>2 DEF OpToRel
<1> QED  BY <1>3

LEMMA Induction ==
    ASSUME NEW T, 0 \in T, \A n \in Nat : n \in T => n + 1 \in T
    PROVE  Nat \subseteq T
<1> DEFINE U == Nat \ T
<1>1. SUFFICES ASSUME U # {} PROVE FALSE
  OBVIOUS
<1>2. PICK x \in U : \A y \in U : x <= y
  BY <1>1, LeastOf
<1>3. x # 0 /\ x - 1 \in Nat /\ x - 1 \in T
  BY <1>2
<1>4. (x - 1) + 1 \in T
  BY <1>3
<1> QED  BY <1>2, <1>4

\* A loop does the same whenever its start and its step are the same.
Alike(f, h, n) ==
    /\ f[0] = h[0]
    /\ \A i \in 1 .. n : f[i - 1] = h[i - 1] => f[i] = h[i]

LEMMA Unique ==
    ASSUME NEW n \in Nat, NEW f, NEW h, Alike(f, h, n)
    PROVE  \A i \in 0 .. n : f[i] = h[i]
<1> DEFINE T == { i \in Nat : i <= n => f[i] = h[i] }
<1>1. 0 \in T
  BY DEF Alike
<1>2. ASSUME NEW i \in Nat, i \in T PROVE i + 1 \in T
  <2>1. SUFFICES ASSUME i + 1 <= n PROVE f[i + 1] = h[i + 1]
    OBVIOUS
  <2>2. f[i] = h[i]
    BY <1>2, <2>1
  <2>3. i + 1 \in 1 .. n /\ (i + 1) - 1 = i
    BY <2>1
  <2> QED  BY <2>2, <2>3 DEF Alike
<1> HIDE DEF T
<1>3. Nat \subseteq T
  BY <1>1, <1>2, Induction
<1> QED  BY <1>3 DEF T

-----------------------------------------------------------------------------
(* The calls and their results.                                            *)

Answer(op, args) == IF op \in PrintOps THEN Formatted(op, args) ELSE Compute(op, args)

\* Something was called, and what comes back is the function's value.
LInv ==
    /\ PrintCalls \/ MemoryCalls \/ CardCalls \/ DrawingCalls \/ TableCalls
    /\ done \in BOOLEAN
    /\ done => result = Answer(call.op, call.args)

LEMMA LInvHolds == Spec => []LInv
<1>1. Init => LInv
  BY DEF Init, LInv
<1>2. LInv /\ [Next]_vars => LInv'
  <2>1. SUFFICES ASSUME LInv, [Next]_vars PROVE LInv'
    OBVIOUS
  <2>2. call' = call
    BY <2>1 DEF Next, Return, vars
  <2>3. /\ PrintCalls => PrintCalls'
        /\ MemoryCalls => MemoryCalls'
        /\ CardCalls => CardCalls'
        /\ DrawingCalls => DrawingCalls'
        /\ TableCalls => TableCalls'
    <3>1. PrintCalls => PrintCalls'
      BY <2>2 DEF PrintCalls, Called
    <3>2. MemoryCalls => MemoryCalls'
      BY <2>2 DEF MemoryCalls, Called
    <3>3. CardCalls => CardCalls'
      BY <2>2 DEF CardCalls, Called
    <3>4. DrawingCalls => DrawingCalls'
      BY <2>2 DEF DrawingCalls, Called
    <3>5. TableCalls => TableCalls'
      BY <2>2 DEF TableCalls, Called
    <3> QED  BY <3>1, <3>2, <3>3, <3>4, <3>5
  <2>4. CASE Return
    <3>1. done' = TRUE /\ result' = Answer(call.op, call.args)
      BY <2>4 DEF Return, Answer
    <3> QED  BY <2>1, <2>2, <2>3, <3>1 DEF LInv
  <2>5. CASE UNCHANGED vars
    BY <2>1, <2>3, <2>5 DEF LInv, vars
  <2> QED  BY <2>1, <2>4, <2>5 DEF Next
<1> QED  BY <1>1, <1>2, PTL DEF Spec

MemoryOps == {"kmemcpy", "kmemmove", "search", "kmemcmp"}
CardOps == {"init_graph_vga", "write_regs", "write_font"}
DrawingOps == {"line_fast", "polygon", "PointerRect", "vga_clear"}
TableOps == {"gdt_install", "isrs_install", "init_page_directory", "idpaging", "handlers"}

\* Which of the calls it was is seen from its name.
LEMMA CallIs ==
    ASSUME LInv, done
    PROVE  /\ call.op \in PrintOps => PrintCalls /\ result = Formatted(call.op, call.args)
           /\ call.op \in MemoryOps => MemoryCalls /\ result = Compute(call.op, call.args)
           /\ call.op \in DrawingOps => DrawingCalls /\ result = Compute(call.op, call.args)
           /\ call.op \in TableOps => TableCalls /\ result = Compute(call.op, call.args)
<1>1. PrintCalls => call.op \in PrintOps
  BY DEF PrintCalls, Called, PrintOps
<1>2. MemoryCalls => call.op \in MemoryOps
  BY DEF MemoryCalls, Called, MemoryOps
<1>3. CardCalls => call.op \in CardOps
  BY DEF CardCalls, Called, CardOps
<1>4. DrawingCalls => call.op \in DrawingOps
  BY DEF DrawingCalls, Called, DrawingOps
<1>5. TableCalls => call.op \in TableOps
  BY DEF TableCalls, Called, TableOps
<1>6. \A op : /\ op \in PrintOps =>
                    op \notin MemoryOps /\ op \notin CardOps /\ op \notin DrawingOps /\ op \notin TableOps
              /\ op \in MemoryOps =>
                    op \notin PrintOps /\ op \notin CardOps /\ op \notin DrawingOps /\ op \notin TableOps
              /\ op \in DrawingOps =>
                    op \notin PrintOps /\ op \notin CardOps /\ op \notin MemoryOps /\ op \notin TableOps
              /\ op \in TableOps =>
                    op \notin PrintOps /\ op \notin CardOps /\ op \notin DrawingOps /\ op \notin MemoryOps
  BY DEF PrintOps, MemoryOps, CardOps, DrawingOps, TableOps
<1>7. PrintCalls \/ MemoryCalls \/ CardCalls \/ DrawingCalls \/ TableCalls
  BY DEF LInv
<1>8. result = Answer(call.op, call.args)
  BY DEF LInv
<1> QED  BY <1>1, <1>2, <1>3, <1>4, <1>5, <1>6, <1>7, <1>8 DEF Answer

LEMMA TableCall ==
    ASSUME LInv, done, call.op \in TableOps
    PROVE  /\ result = Compute(call.op, call.args)
           /\ TableCalls
  BY CallIs

-----------------------------------------------------------------------------
(* Segments.                                                               *)

LEMMA Widths ==
    /\ Nibble \in Nat \ {0, 1, 2} /\ Entries \in Nat \ {0, 1} /\ Page \in Nat \ {0}
    /\ B8 \in Nat \ {0} /\ B12 \in Nat \ {0} /\ B16 \in Nat \ {0} /\ B20 \in Nat \ {0}
    /\ B24 \in Nat \ {0} /\ B32 \in Nat \ {0}
    /\ B16 = B12 * Nibble /\ B20 = B16 * Nibble /\ B24 = B16 * B8
    /\ B32 = B24 * B8 /\ B32 = B16 * B16 /\ B32 = B20 * B12
    /\ 27 <= B12 /\ 9 <= B8
<1>1. PICK n \in Nat : n = Nibble /\ n >= 3
  BY TablesAssumption
<1>2. Entries \in Nat \ {0, 1} /\ Page \in Nat \ {0}
  BY TablesAssumption
<1>3. PICK a \in Nat \ {0} : a = n * n /\ a >= 9 /\ a = B8
  <2>1. n * n \in Nat /\ n * n >= 3 * n
    BY <1>1, TimesMono
  <2> QED  BY <1>1, <2>1 DEF B8
<1>4. PICK b \in Nat \ {0} : b = a * n /\ b >= 27 /\ b = B12
  <2>1. a * n \in Nat /\ a * n >= 9 * n
    BY <1>1, <1>3, TimesMono
  <2> QED  BY <1>1, <1>3, <2>1 DEF B12
<1>5. PICK c \in Nat \ {0} : c = a * a /\ c = B16
  BY <1>3, TimesPositive DEF B16
<1>6. PICK d \in Nat \ {0} : d = c * n /\ d = B20
  BY <1>5, <1>1, TimesPositive DEF B20
<1>7. PICK e \in Nat \ {0} : e = c * a /\ e = B24
  BY <1>5, <1>3, TimesPositive DEF B24
<1>8. PICK f \in Nat \ {0} : f = c * c /\ f = B32
  BY <1>5, TimesPositive DEF B32
<1>9. c = b * n
  BY <1>1, <1>3, <1>4, <1>5
<1>10. f = e * a
  BY <1>3, <1>5, <1>7, <1>8
<1>11. f = d * b
  BY <1>5, <1>9, <1>6, <1>8
<1> QED  BY <1>1, <1>2, <1>3, <1>4, <1>5, <1>6, <1>7, <1>8, <1>9, <1>10, <1>11

\* The processor gets the base and the limit that were set, as far as they go.
LEMMA Descriptor ==
    ASSUME NEW base \in 0 .. B32 - 1, NEW limit \in Nat, NEW access, NEW flags
    PROVE  LET e == gdt_set_gate(base, limit, access, flags)
           IN  /\ Base(e) = base /\ e.access = access /\ e.flags = flags
               /\ e.limit_low + e.limit_high * B16 = limit % B20
<1> DEFINE q == (base \div B16) % B8
<1> DEFINE h == base \div B24
<1>1. base \in Nat /\ base < B24 * B8
  BY Widths
<1>2. base \div B24 = (base \div B16) \div B8 /\ base % B24 = q * B16 + (base % B16)
  <2>1. B16 \in Nat \ {0} /\ B8 \in Nat \ {0} /\ B24 = B16 * B8
    BY Widths
  <2>2. /\ base \div (B16 * B8) = (base \div B16) \div B8
        /\ base % (B16 * B8) = q * B16 + (base % B16)
    BY <1>1, <2>1, Twice
  <2> QED  BY <2>1, <2>2
<1>3. h \in Nat /\ h < B8 /\ base = h * B24 + (base % B24)
  BY <1>1, QuotientBound, DivMod, Widths
<1>4. h % B8 = h
  BY <1>3, Small, Widths
<1>5. Base(gdt_set_gate(base, limit, access, flags)) = (base % B16) + q * B16 + (h % B8) * B24
  BY DEF Base, gdt_set_gate
<1>6. (base % B16) + q * B16 + h * B24 = base
  <2>0. B16 \in Nat \ {0} /\ B8 \in Nat \ {0}
    BY Widths
  <2>1. base % B16 \in Nat /\ q \in Nat /\ h \in Nat
    <3>1. base \div B16 \in Nat /\ base % B16 \in Nat
      BY <1>1, <2>0, DivNat
    <3>2. (base \div B16) % B8 \in Nat
      BY <3>1, <2>0, DivNat
    <3> QED  BY <3>1, <3>2, <1>3
  <2>2. q * B16 \in Nat /\ h * B24 \in Nat
    BY <2>1, Times, Widths
  <2> HIDE DEF q, h
  <2> QED  BY <1>2, <1>3, <2>1, <2>2
<1>7. limit % B20 = ((limit \div B16) % Nibble) * B16 + (limit % B16)
  BY Twice, Widths
<1>8. ((limit \div B16) % Nibble) * B16 \in Nat /\ limit % B16 \in Nat
  <2>1. B16 \in Nat \ {0} /\ Nibble \in Nat \ {0}
    BY Widths
  <2>2. limit \div B16 \in Nat /\ limit % B16 \in Nat
    BY <2>1, DivNat
  <2>3. (limit \div B16) % Nibble \in Nat
    BY <2>1, <2>2, DivNat
  <2> QED  BY <2>1, <2>2, <2>3, Times
<1>9. (limit % B16) + ((limit \div B16) % Nibble) * B16 = limit % B20
  BY <1>7, <1>8
<1> HIDE DEF q, h
<1> QED  BY <1>4, <1>5, <1>6, <1>9 DEF gdt_set_gate

LEMMA FlatSegment ==
    ASSUME NEW access
    PROVE  LET e == gdt_set_gate(0, B32 - 1, access, 12)
           IN  Base(e) = 0 /\ Limit(e) = B32 - 1 /\ e.access = access
<1> DEFINE e == gdt_set_gate(0, B32 - 1, access, 12)
<1>1. B32 - 1 \in Nat /\ 0 \in 0 .. B32 - 1
  BY Widths
<1>2. Base(e) = 0 /\ e.access = access /\ e.flags = 12 /\ e.limit_low + e.limit_high * B16 = (B32 - 1) % B20
  BY <1>1, Descriptor
<1>3. (B32 - 1) % B20 = B20 - 1
  <2>1. B12 - 1 \in Nat /\ B20 - 1 \in Nat /\ B20 - 1 < B20
    BY Widths
  <2>2. ((B12 - 1) * B20 + (B20 - 1)) % B20 = B20 - 1
    <3>1. PICK q \in Nat, m \in Nat \ {0} : q = B12 - 1 /\ m = B20
      BY <2>1, Widths
    <3>2. m - 1 \in Nat /\ m - 1 < m
      OBVIOUS
    <3>3. (q * m + (m - 1)) % m = m - 1
      BY <3>2, Quotient
    <3> QED  BY <3>1, <3>3
  <2>3. (B12 - 1) * B20 = B20 * B12 - B20
    BY Widths
  <2> QED  BY <2>2, <2>3, Widths
<1> HIDE DEF e
<1>4. Limit(e) = ((B20 - 1) + 1) * B12 - 1
  BY <1>2, <1>3 DEF Limit
<1> QED  BY <1>2, <1>4, Widths DEF e

LEMMA Segments ==
    ASSUME NEW tss \in B20 .. 2 * B20 - TssSize - 1
    PROVE  LET gdt == gdt_install(tss)
           IN  /\ \A n \in 1 .. 4 : /\ Base(gdt[n]) = 0 /\ Limit(gdt[n]) = B32 - 1
                                    /\ Ring(gdt[n]) = IF n <= 2 THEN 0 ELSE 3
               /\ IsCode(Selected(gdt, KernelCode)) /\ IsData(Selected(gdt, KernelData))
               /\ Base(Selected(gdt, TaskState)) = tss
               /\ Limit(Selected(gdt, TaskState)) >= TssSize - 1
<1> DEFINE gdt == gdt_install(tss)
<1> DEFINE flat(access) == gdt_set_gate(0, B32 - 1, access, 12)
<1>1. gdt[1] = flat(154) /\ gdt[2] = flat(146) /\ gdt[3] = flat(250) /\ gdt[4] = flat(242)
  BY DEF gdt_install
<1>2. gdt[5] = write_tss(tss)
  BY DEF gdt_install
<1> HIDE DEF gdt, flat
<1>3. \A access : Base(flat(access)) = 0 /\ Limit(flat(access)) = B32 - 1 /\ flat(access).access = access
  BY FlatSegment DEF flat
<1>4. \A n \in 1 .. 4 : Base(gdt[n]) = 0 /\ Limit(gdt[n]) = B32 - 1
  BY <1>1, <1>3
<1>5. Ring(gdt[1]) = 0 /\ Ring(gdt[2]) = 0 /\ Ring(gdt[3]) = 3 /\ Ring(gdt[4]) = 3
  BY <1>1, <1>3 DEF Ring
<1>6. Selected(gdt, KernelCode) = gdt[1] /\ Selected(gdt, KernelData) = gdt[2] /\ Selected(gdt, TaskState) = gdt[5]
  BY DEF Selected, KernelCode, KernelData, TaskState
<1>7. IsCode(gdt[1]) /\ IsData(gdt[2])
  BY <1>1, <1>3 DEF IsCode, IsData
<1>8. Base(gdt[5]) = tss /\ Limit(gdt[5]) >= TssSize - 1
  <2>1. PICK b \in Nat \ {0}, t \in Nat \ {0} : b = B20 /\ t = TssSize
    BY TablesAssumption, Widths
  <2>2. tss \in Nat /\ tss < 2 * B20 /\ tss + TssSize \in Nat
    BY <2>1
  <2>3. 2 * B20 <= B32
    <3>1. 2 * B20 <= B12 * B20
      BY TimesMono, Widths
    <3> QED  BY <3>1, Widths
  <2>4. tss \in 0 .. B32 - 1
    BY <2>2, <2>3, <2>1, Widths
  <2>5. /\ Base(gdt[5]) = tss /\ gdt[5].flags = 0
        /\ gdt[5].limit_low + gdt[5].limit_high * B16 = (tss + TssSize) % B20
    BY <2>2, <2>4, <1>2, Descriptor DEF write_tss
  <2>6. (tss + TssSize) % B20 = tss + TssSize - B20
    <3>1. tss + t - b \in Nat /\ tss + t - b < b /\ 1 \in Nat
      BY <2>1
    <3>2. (1 * b + (tss + t - b)) % b = tss + t - b
      BY <3>1, <2>1, Quotient
    <3>3. 1 * b + (tss + t - b) = tss + t
      BY <2>1
    <3> QED  BY <3>2, <3>3, <2>1
  <2>7. Limit(gdt[5]) = tss + TssSize - B20
    BY <2>5, <2>6 DEF Limit
  <2> QED  BY <2>5, <2>7, <2>1
<1>9. \A n \in 1 .. 4 : Ring(gdt[n]) = IF n <= 2 THEN 0 ELSE 3
  BY <1>5
<1> QED  BY <1>4, <1>6, <1>7, <1>8, <1>9 DEF gdt

-----------------------------------------------------------------------------
(* Gates and frames.                                                       *)

LEMMA Gates ==
    ASSUME NEW v \in 0 .. 47
    PROVE  LET gate == isrs_install(Stubs)[v]
           IN  /\ gate.base_lo + gate.base_hi * B16 = Stubs[v]
               /\ Bit(gate.flags, 1) = 0 <=> v >= 32
               /\ Bit(gate.flags, 64) = 1 <=> v \in {3, 4, 5}
<1> DEFINE gate == isrs_install(Stubs)[v]
<1> DEFINE flags == IF v \in {3, 4, 5} THEN 239 ELSE IF v <= 31 THEN 143 ELSE 142
<1>1. gate = idt_set_gate(Stubs[v], KernelCode, flags)
  BY DEF isrs_install
<1>2. Stubs[v] = B20 + 7 * v
  BY DEF Stubs
<1>3. PICK a \in Nat : a = B20 + 7 * v
  BY Widths
<1>4. a < B16 * B16
  <2>1. 27 * B20 <= B12 * B20
    BY TimesMono, Widths
  <2>2. 243 <= B20
    <3>1. 27 * Nibble <= B12 * Nibble /\ 81 <= 27 * Nibble
      BY TimesMono, Widths
    <3>2. 81 * Nibble <= B16 * Nibble /\ 243 <= 81 * Nibble
      BY <3>1, TimesMono, Widths
    <3> QED  BY <3>2, Widths
  <2> QED  BY <1>3, <2>1, <2>2, Widths
<1>5. (a % B16) + ((a \div B16) % B16) * B16 = a
  <2>1. B16 \in Nat \ {0}
    BY Widths
  <2>2. a \div B16 \in Nat /\ a \div B16 < B16
    BY <1>4, <2>1, QuotientBound, DivNat
  <2>3. (a \div B16) % B16 = a \div B16
    BY <2>2, <2>1, Small
  <2>4. a % B16 \in Nat /\ (a \div B16) * B16 \in Nat /\ a = (a \div B16) * B16 + (a % B16)
    BY <2>1, <2>2, DivNat, DivMod, Times
  <2> QED  BY <2>3, <2>4
<1>6. gate.base_lo = a % B16 /\ gate.base_hi = (a \div B16) % B16 /\ gate.flags = flags
  BY <1>1, <1>2, <1>3 DEF idt_set_gate
<1> HIDE DEF gate
<1>7. Bit(flags, 1) = 0 <=> v >= 32
  BY DEF Bit
<1>8. Bit(flags, 64) = 1 <=> v \in {3, 4, 5}
  BY DEF Bit
<1> QED  BY <1>2, <1>3, <1>5, <1>6, <1>7, <1>8 DEF gate

\* What the processor pushes without an error code.
Core(ring) == (IF ring = 3 THEN <<"ss", "useresp">> ELSE <<>>) \o <<"eflags", "cs", "eip">>

Registers == <<"eax", "ecx", "edx", "ebx", "esp", "ebp", "esi", "edi">>
Selectors == <<"ds", "es", "fs", "gs">>

\* What isr_stack_state names.
Items == {"ss", "useresp", "eflags", "cs", "eip", "err_code", "int_no", "eax", "ecx", "edx",
          "ebx", "esp", "ebp", "esi", "edi", "ds", "es", "fs", "gs"}

LEMMA Join ==
    ASSUME NEW S, NEW s \in Seq(S), NEW t \in Seq(S)
    PROVE  /\ s \o t \in Seq(S) /\ Len(s) \in Nat /\ Len(t) \in Nat
           /\ Len(s \o t) = Len(s) + Len(t)
           /\ \A i \in 1 .. Len(s) : (s \o t)[i] = s[i]
           /\ \A j \in 1 .. Len(t) : (s \o t)[Len(s) + j] = t[j]
<1>1. /\ s \o t \in Seq(S) /\ Len(s \o t) = Len(s) + Len(t)
      /\ \A i \in 1 .. Len(s) + Len(t) :
             (s \o t)[i] = IF i <= Len(s) THEN s[i] ELSE t[i - Len(s)]
  BY ConcatProperties
<1>2. PICK m \in Nat, n \in Nat : m = Len(s) /\ n = Len(t)
  OBVIOUS
<1>3. \A i \in 1 .. m + n : (s \o t)[i] = IF i <= m THEN s[i] ELSE t[i - m]
  BY <1>1, <1>2
<1>4. ASSUME NEW i \in 1 .. m PROVE (s \o t)[i] = s[i]
  <2>1. i \in 1 .. m + n /\ i <= m
    OBVIOUS
  <2> QED  BY <1>3, <2>1
<1>5. ASSUME NEW j \in 1 .. n PROVE (s \o t)[m + j] = t[j]
  <2>1. m + j \in 1 .. m + n /\ ~(m + j <= m) /\ (m + j) - m = j
    OBVIOUS
  <2> QED  BY <1>3, <2>1
<1> QED  BY <1>1, <1>2, <1>4, <1>5

SameItems(s, t) == Len(s) = Len(t) /\ \A i \in 1 .. Len(s) : s[i] = t[i]

LEMMA SameSeq == \A S : \A s, t \in Seq(S) : SameItems(s, t) => s = t
  BY SeqEqual DEF SameItems

LEMMA CoreIs ==
    /\ Core(0) = <<"eflags", "cs", "eip">>
    /\ Core(3) = <<"ss", "useresp", "eflags", "cs", "eip">>
<1> DEFINE s == <<"ss", "useresp">>
<1> DEFINE t == <<"eflags", "cs", "eip">>
<1> DEFINE u == <<"ss", "useresp", "eflags", "cs", "eip">>
<1>1. s \in Seq(Items) /\ t \in Seq(Items) /\ u \in Seq(Items)
  BY DEF Items
<1>2. /\ Len(s) = 2 /\ Len(t) = 3 /\ Len(u) = 5
      /\ s[1] = u[1] /\ s[2] = u[2] /\ t[1] = u[3] /\ t[2] = u[4] /\ t[3] = u[5]
  OBVIOUS
<1>3. Core(0) = <<>> \o t /\ Core(3) = s \o t
  BY DEF Core
<1> HIDE DEF s, t, u
<1>4. <<>> \o t = t
  BY <1>1, ConcatEmptySeq
<1>5. /\ s \o t \in Seq(Items) /\ Len(s \o t) = 2 + 3
      /\ \A i \in 1 .. 2 : (s \o t)[i] = s[i]
      /\ \A j \in 1 .. 3 : (s \o t)[2 + j] = t[j]
  <2>1. Len(s) = 2 /\ Len(t) = 3
    BY <1>2
  <2>2. /\ s \o t \in Seq(Items) /\ Len(s \o t) = Len(s) + Len(t)
        /\ \A i \in 1 .. Len(s) : (s \o t)[i] = s[i]
        /\ \A j \in 1 .. Len(t) : (s \o t)[Len(s) + j] = t[j]
    BY <1>1, Join
  <2> QED  BY <2>1, <2>2
<1>6. (s \o t)[2 + 1] = t[1] /\ (s \o t)[2 + 2] = t[2] /\ (s \o t)[2 + 3] = t[3]
  BY <1>5
<1>7. \A i \in 1 .. 5 : (s \o t)[i] = u[i]
  BY <1>2, <1>5, <1>6
<1>8. s \o t = u
  <2>1. SameItems(s \o t, u)
    BY <1>2, <1>5, <1>7 DEF SameItems
  <2> QED  BY <1>1, <1>5, <2>1, SameSeq
<1> QED  BY <1>3, <1>4, <1>8 DEF t, u

\* What is above the core, and where it lies.
Framed(c) == (((c \o <<"err_code">>) \o <<"int_no">>) \o Registers) \o Selectors
Layout(f, c, k) ==
    /\ f \in Seq(Items) /\ Len(f) = k + 14
    /\ \A i \in 1 .. k : f[i] = c[i]
    /\ f[k + 1] = "err_code" /\ f[k + 2] = "int_no"
    /\ \A i \in 1 .. 8 : f[k + 2 + i] = Registers[i]
    /\ \A i \in 1 .. 4 : f[k + 10 + i] = Selectors[i]

LEMMA FrameIs ==
    ASSUME NEW v \in (0 .. 47) \ {17}, NEW ring
    PROVE  Core(ring) \in Seq(Items) /\ Stub(Pushed(v, ring), v) = Framed(Core(ring))
<1> DEFINE e == <<"err_code">>
<1> DEFINE c == Core(ring)
<1>1. c \in Seq(Items) /\ e \in Seq(Items)
  <2> DEFINE s == IF ring = 3 THEN <<"ss", "useresp">> ELSE <<>>
  <2> DEFINE t == <<"eflags", "cs", "eip">>
  <2>1. s \in Seq(Items) /\ t \in Seq(Items) /\ e \in Seq(Items)
    <3>1. <<>> \in Seq(Items) /\ <<"ss", "useresp">> \in Seq(Items)
      BY DEF Items
    <3>2. t \in Seq(Items) /\ e \in Seq(Items)
      BY DEF Items
    <3> QED  BY <3>1, <3>2
  <2>2. c = s \o t
    BY DEF Core
  <2> HIDE DEF s, t, c, e
  <2>3. s \o t \in Seq(Items)
    BY <2>1, ConcatProperties
  <2> QED  BY <2>1, <2>2, <2>3
<1>2. Pushed(v, ring) = c \o (IF v \in ErrorCode THEN e ELSE <<>>)
  BY DEF Pushed, Core
<1> DEFINE x == IF v <= 31 /\ (v = 8 \/ v \in 10 .. 14) THEN <<>> ELSE e
<1>3. Stub(Pushed(v, ring), v) =
          (((Pushed(v, ring) \o x) \o <<"int_no">>) \o Registers) \o Selectors
  BY DEF Stub, Registers, Selectors
<1> HIDE DEF c, e
<1>4. Pushed(v, ring) \o x = c \o e
  <2>1. CASE v \in ErrorCode
    <3>1. Pushed(v, ring) = c \o e /\ x = <<>>
      BY <1>2, <2>1 DEF ErrorCode
    <3>2. (c \o e) \o <<>> = c \o e
      <4>1. c \o e \in Seq(Items)
        BY <1>1, ConcatProperties
      <4> QED  BY <4>1, ConcatEmptySeq
    <3> QED  BY <3>1, <3>2
  <2>2. CASE v \notin ErrorCode
    <3>1. Pushed(v, ring) = c \o <<>> /\ x = e
      BY <1>2, <2>2 DEF ErrorCode
    <3>2. c \o <<>> = c
      BY <1>1, ConcatEmptySeq
    <3> QED  BY <3>1, <3>2
  <2> QED  BY <2>1, <2>2
<1> HIDE DEF x
<1> QED  BY <1>1, <1>3, <1>4 DEF c, e, Framed

LEMMA FrameItems ==
    ASSUME NEW k \in Nat, NEW c \in Seq(Items), Len(c) = k
    PROVE  Layout(Framed(c), c, k)
<1> DEFINE e == <<"err_code">>
<1> DEFINE n == <<"int_no">>
<1>1. /\ e \in Seq(Items) /\ n \in Seq(Items)
      /\ Len(e) = 1 /\ Len(n) = 1 /\ e[1] = "err_code" /\ n[1] = "int_no"
  BY DEF Items
<1>2. Registers \in Seq(Items) /\ Len(Registers) = 8
  BY DEF Items, Registers
<1>3. Selectors \in Seq(Items) /\ Len(Selectors) = 4
  BY DEF Items, Selectors
<1> HIDE DEF e, n
<1> DEFINE a == c \o e
<1> DEFINE b == a \o n
<1> DEFINE d == b \o Registers
<1> DEFINE f == d \o Selectors
<1>4. a \in Seq(Items) /\ Len(a) = k + 1 /\ (\A i \in 1 .. k : a[i] = c[i]) /\ a[k + 1] = "err_code"
  <2>1. /\ a \in Seq(Items) /\ Len(a) = Len(c) + Len(e)
        /\ \A i \in 1 .. Len(c) : a[i] = c[i]
        /\ \A j \in 1 .. Len(e) : a[Len(c) + j] = e[j]
    BY <1>1, Join
  <2>2. 1 \in 1 .. Len(e)
    BY <1>1
  <2> HIDE DEF a
  <2> QED  BY <2>1, <2>2, <1>1
<1> HIDE DEF a
<1>5. /\ b \in Seq(Items) /\ Len(b) = k + 2 /\ (\A i \in 1 .. k + 1 : b[i] = a[i])
      /\ b[k + 2] = "int_no"
  <2>1. /\ b \in Seq(Items) /\ Len(b) = Len(a) + Len(n)
        /\ \A i \in 1 .. Len(a) : b[i] = a[i]
        /\ \A j \in 1 .. Len(n) : b[Len(a) + j] = n[j]
    <3>1. a \in Seq(Items) /\ n \in Seq(Items)
      BY <1>1, <1>4
    <3> QED  BY <3>1, Join
  <2>2. 1 \in 1 .. Len(n)
    BY <1>1
  <2> HIDE DEF b
  <2>3. b[(k + 1) + 1] = n[1] /\ (k + 1) + 1 = k + 2
    BY <2>1, <2>2, <1>4
  <2> QED  BY <2>1, <2>3, <1>1, <1>4
<1> HIDE DEF b
<1>6. /\ d \in Seq(Items) /\ Len(d) = k + 10 /\ (\A i \in 1 .. k + 2 : d[i] = b[i])
      /\ \A i \in 1 .. 8 : d[k + 2 + i] = Registers[i]
  <2>1. /\ d \in Seq(Items) /\ Len(d) = Len(b) + Len(Registers)
        /\ \A i \in 1 .. Len(b) : d[i] = b[i]
        /\ \A j \in 1 .. Len(Registers) : d[Len(b) + j] = Registers[j]
    <3>1. b \in Seq(Items) /\ Registers \in Seq(Items)
      BY <1>2, <1>5
    <3> QED  BY <3>1, Join
  <2> HIDE DEF d
  <2> QED  BY <2>1, <1>2, <1>5
<1> HIDE DEF d
<1>7. /\ f \in Seq(Items) /\ Len(f) = k + 14 /\ (\A i \in 1 .. k + 10 : f[i] = d[i])
      /\ \A i \in 1 .. 4 : f[k + 10 + i] = Selectors[i]
  <2>1. /\ f \in Seq(Items) /\ Len(f) = Len(d) + Len(Selectors)
        /\ \A i \in 1 .. Len(d) : f[i] = d[i]
        /\ \A j \in 1 .. Len(Selectors) : f[Len(d) + j] = Selectors[j]
    <3>1. d \in Seq(Items) /\ Selectors \in Seq(Items)
      BY <1>3, <1>6
    <3> QED  BY <3>1, Join
  <2> HIDE DEF f
  <2> QED  BY <2>1, <1>3, <1>6
<1> HIDE DEF f
<1>8. ASSUME NEW i \in 1 .. k PROVE f[i] = c[i]
  <2>1. i \in 1 .. k + 10 /\ i \in 1 .. k + 2 /\ i \in 1 .. k + 1
    OBVIOUS
  <2>2. f[i] = d[i] /\ d[i] = b[i]
    BY <2>1, <1>6, <1>7
  <2>3. b[i] = a[i] /\ a[i] = c[i]
    BY <2>1, <1>4, <1>5
  <2> QED  BY <2>2, <2>3
<1>9. f[k + 1] = "err_code" /\ f[k + 2] = "int_no"
  <2>1. k + 1 \in 1 .. k + 10 /\ k + 1 \in 1 .. k + 2 /\ k + 1 \in 1 .. k + 1
    OBVIOUS
  <2>2. k + 2 \in 1 .. k + 10 /\ k + 2 \in 1 .. k + 2
    OBVIOUS
  <2> QED  BY <2>1, <2>2, <1>4, <1>5, <1>6, <1>7
<1>10. ASSUME NEW i \in 1 .. 8 PROVE f[k + 2 + i] = Registers[i]
  <2>1. k + 2 + i \in 1 .. k + 10
    OBVIOUS
  <2> QED  BY <2>1, <1>6, <1>7
<1>11. Layout(f, c, k)
  BY <1>7, <1>8, <1>9, <1>10 DEF Layout
<1> QED  BY <1>11 DEF f, d, b, a, e, n, Framed

\* The other names of the frame, from the top of the stack.
Saved == <<"gs", "fs", "es", "ds", "edi", "esi", "ebp", "esp", "ebx", "edx", "ecx", "eax",
           "int_no", "err_code", "eip", "cs", "eflags">>

LEMMA StateIs ==
    /\ isr_stack_state(0) \in Seq(Items) /\ isr_stack_state(0) = Saved
    /\ isr_stack_state(3) \in Seq(Items) /\ Len(isr_stack_state(3)) = 19
    /\ \A i \in 1 .. 17 : isr_stack_state(3)[i] = Saved[i]
    /\ isr_stack_state(3)[18] = "useresp" /\ isr_stack_state(3)[19] = "ss"
<1> DEFINE t == <<"useresp", "ss">>
<1> DEFINE s == Saved
<1>1. s \in Seq(Items) /\ Len(s) = 17
  BY DEF Items, Saved
<1>2. t \in Seq(Items) /\ Len(t) = 2 /\ t[1] = "useresp" /\ t[2] = "ss"
  BY DEF Items
<1>3. isr_stack_state(0) = s \o <<>> /\ isr_stack_state(3) = s \o t
  BY DEF isr_stack_state, Saved
<1> HIDE DEF s, t
<1>4. s \o <<>> = s
  BY <1>1, ConcatEmptySeq
<1>5. /\ s \o t \in Seq(Items) /\ Len(s \o t) = Len(s) + Len(t)
      /\ \A i \in 1 .. Len(s) : (s \o t)[i] = s[i]
      /\ \A j \in 1 .. Len(t) : (s \o t)[Len(s) + j] = t[j]
  <2>1. s \in Seq(Items) /\ t \in Seq(Items)
    BY <1>1, <1>2
  <2> QED  BY <2>1, Join
<1> DEFINE u == s \o t
<1>6. u = isr_stack_state(3)
  BY <1>3
<1> HIDE DEF u
<1>7. u \in Seq(Items) /\ Len(u) = 19 /\ (\A i \in 1 .. 17 : u[i] = s[i]) /\ u[18] = t[1] /\ u[19] = t[2]
  <2>1. /\ u \in Seq(Items) /\ Len(u) = 17 + 2
        /\ \A i \in 1 .. 17 : u[i] = s[i]
        /\ \A j \in 1 .. 2 : u[17 + j] = t[j]
    BY <1>5, <1>1, <1>2 DEF u
  <2>2. u[17 + 1] = t[1] /\ u[17 + 2] = t[2]
    BY <2>1
  <2> QED  BY <2>1, <2>2
<1> QED  BY <1>1, <1>2, <1>3, <1>4, <1>6, <1>7 DEF s

LEMMA Frames ==
    ASSUME NEW v \in (0 .. 47) \ {17}, NEW ring \in {0, 3}
    PROVE  LET frame == Stub(Pushed(v, ring), v)
           IN  Reverse(frame) = isr_stack_state(ring) /\ Last(StubEnd(frame)) = "eip"
<1> DEFINE c == Core(ring)
<1>0. PICK k \in {3, 5} : k = IF ring = 3 THEN 5 ELSE 3
  OBVIOUS
<1> DEFINE f == Stub(Pushed(v, ring), v)
<1>1. c \in Seq(Items) /\ f = Framed(c)
  BY FrameIs
<1>2. k \in Nat /\ Len(c) = k /\ c[k] = "eip" /\ c[k - 1] = "cs" /\ c[k - 2] = "eflags"
  BY <1>0, CoreIs
<1>3. ring = 3 => c[1] = "ss" /\ c[2] = "useresp"
  BY CoreIs
<1> HIDE DEF c, f
<1>4. /\ f \in Seq(Items) /\ Len(f) = k + 14
      /\ \A i \in 1 .. k : f[i] = c[i]
      /\ f[k + 1] = "err_code" /\ f[k + 2] = "int_no"
      /\ \A i \in 1 .. 8 : f[k + 2 + i] = Registers[i]
      /\ \A i \in 1 .. 4 : f[k + 10 + i] = Selectors[i]
  <2>1. Layout(f, c, k)
    BY <1>1, <1>2, FrameItems
  <2> QED  BY <2>1 DEF Layout
<1>5. Last(StubEnd(f)) = "eip"
  <2>1. StubEnd(f) = SubSeq(f, 1, k) /\ 1 <= k
    <3>1. Len(f) - 4 - 8 - 2 = k
      BY <1>2, <1>4
    <3>2. 1 <= k
      OBVIOUS
    <3> QED  BY <3>1, <3>2 DEF StubEnd
  <2> DEFINE e == SubSeq(f, 1, k)
  <2>2. \A i \in 1 .. k : f[i] \in Items
    <3>1. \A i \in 1 .. k + 14 : f[i] \in Items
      BY <1>4, <1>2
    <3> QED  BY <3>1, <1>2
  <2>3. Len(e) = k /\ \A i \in 1 .. k : e[i] = f[i]
    <3>1. /\ Len(e) = IF 1 <= k THEN k - 1 + 1 ELSE 0
          /\ \A i \in 1 .. k - 1 + 1 : e[i] = f[1 + i - 1]
      BY <2>2, <1>2, SubSeqProperties
    <3> HIDE DEF e
    <3> QED  BY <3>1, <2>1, <1>2
  <2> HIDE DEF e
  <2>4. e[k] = c[k]
    BY <2>3, <2>1, <1>2, <1>4
  <2> QED  BY <2>1, <2>3, <2>4, <1>2 DEF Last, e
<1>6. Reverse(f) = isr_stack_state(ring)
  <2>1. /\ f[k] = "eip" /\ f[k - 1] = "cs" /\ f[k - 2] = "eflags"
        /\ f[k + 1] = "err_code" /\ f[k + 2] = "int_no"
    <3>1. k \in 1 .. k /\ k - 1 \in 1 .. k /\ k - 2 \in 1 .. k
      OBVIOUS
    <3> QED  BY <3>1, <1>2, <1>4
  <2>2. /\ f[k + 3] = "eax" /\ f[k + 4] = "ecx" /\ f[k + 5] = "edx" /\ f[k + 6] = "ebx"
        /\ f[k + 7] = "esp" /\ f[k + 8] = "ebp" /\ f[k + 9] = "esi" /\ f[k + 10] = "edi"
    BY <1>4 DEF Registers
  <2>3. f[k + 11] = "ds" /\ f[k + 12] = "es" /\ f[k + 13] = "fs" /\ f[k + 14] = "gs"
    BY <1>4 DEF Selectors
  <2>4. ring = 3 => f[1] = "ss" /\ f[2] = "useresp"
    <3>1. 1 \in 1 .. k /\ 2 \in 1 .. k
      OBVIOUS
    <3>2. f[1] = c[1] /\ f[2] = c[2]
      BY <3>1, <1>4
    <3> QED  BY <3>2, <1>3
  <2> DEFINE r == Reverse(f)
  <2>5. r = [i \in 1 .. k + 14 |-> f[k + 14 - i + 1]]
    BY <1>4 DEF Reverse
  <2>6. r \in Seq(Items) /\ Len(r) = k + 14
    <3>1. \A i \in 1 .. k + 14 : f[i] \in Items
      BY <1>4, <1>2
    <3>2. \A i \in 1 .. k + 14 : k + 14 - i + 1 \in 1 .. k + 14
      BY <1>2
    <3> QED  BY <3>1, <3>2, <2>5, <1>2
  <2>7. ASSUME NEW i \in 1 .. 17 PROVE r[i] = Saved[i]
    <3>1. r[i] = f[k + 15 - i]
      BY <2>5
    <3> QED  BY <3>1, <2>1, <2>2, <2>3 DEF Saved
  <2>8. ring = 3 => r[18] = "useresp" /\ r[19] = "ss"
    BY <2>4, <2>5, <1>0
  <2> HIDE DEF r
  <2>9. CASE ring = 0
    <3>1. Saved \in Seq(Items) /\ Len(r) = 17 /\ isr_stack_state(ring) = Saved
      BY <2>9, <2>6, <1>0, StateIs
    <3>0. Len(Saved) = 17
      BY DEF Saved
    <3>2. r = Saved
      <4>1. SameItems(r, Saved)
        BY <3>0, <3>1, <2>7 DEF SameItems
      <4> QED  BY <4>1, <3>1, <2>6, SameSeq
    <3> QED  BY <3>1, <3>2 DEF r
  <2>10. CASE ring = 3
    <3> DEFINE u == isr_stack_state(3)
    <3>1. /\ u \in Seq(Items) /\ Len(u) = 19 /\ u[18] = "useresp" /\ u[19] = "ss"
          /\ \A i \in 1 .. 17 : u[i] = Saved[i]
      BY StateIs
    <3> HIDE DEF u
    <3>2. Len(r) = 19 /\ \A i \in 1 .. 19 : r[i] = u[i]
      <4>1. \A i \in 1 .. 19 : i \in 1 .. 17 \/ i = 18 \/ i = 19
        OBVIOUS
      <4>2. Len(r) = 19
        BY <2>6, <2>10, <1>0
      <4>3. \A i \in 1 .. 17 : r[i] = Saved[i]
        BY <2>7
      <4> QED  BY <4>1, <4>2, <4>3, <3>1, <2>8, <2>10
    <3>3. r = u
      <4>1. SameItems(r, u)
        BY <3>1, <3>2 DEF SameItems
      <4> QED  BY <4>1, <3>1, <2>6, SameSeq
    <3> QED  BY <3>3, <2>10 DEF r, u
  <2> QED  BY <2>9, <2>10
<1> QED  BY <1>5, <1>6 DEF f

-----------------------------------------------------------------------------
(* Pages.                                                                  *)

LEMMA QuotientLess ==
    ASSUME NEW a \in Nat, NEW m \in Nat \ {0}, NEW k \in Nat
    PROVE  a \div m < k <=> a < m * k
<1>1. ASSUME a \div m < k PROVE a < m * k
  <2> DEFINE q == a \div m
  <2>1. q \in Nat /\ a % m \in Nat /\ a % m < m /\ a = q * m + (a % m)
    BY DivMod, DivNat
  <2>2. q + 1 <= k
    BY <1>1, <2>1
  <2> HIDE DEF q
  <2>3. (q + 1) * m <= k * m /\ k * m = m * k
    BY <2>1, <2>2, TimesMono
  <2>4. (q + 1) * m = q * m + m
    BY <2>1
  <2>5. q * m \in Nat /\ m * k \in Nat
    BY <2>1, Times
  <2> QED  BY <2>1, <2>3, <2>4, <2>5
<1> QED  BY <1>1, QuotientBound

LEMMA QuotientShift ==
    ASSUME NEW q \in Nat, NEW b \in Nat, NEW m \in Nat \ {0}
    PROVE  (q * m + b) \div m = q + (b \div m) /\ (q * m + b) % m = b % m
<1> DEFINE p == b \div m
<1> DEFINE r == b % m
<1>1. p \in Nat /\ r \in Nat /\ r < m /\ b = p * m + r
  BY DivMod, DivNat
<1> HIDE DEF p, r
<1>2. (q + p) * m = q * m + p * m /\ q * m \in Nat /\ p * m \in Nat
  BY <1>1
<1>3. q * m + b = (q + p) * m + r
  BY <1>1, <1>2
<1>4. ((q + p) * m + r) \div m = q + p /\ ((q + p) * m + r) % m = r
  BY <1>1, Quotient
<1> QED  BY <1>3, <1>4 DEF p, r

LEMMA PageMap ==
    ASSUME NEW a \in 0 .. Entries * Entries * Page - 1
    PROVE  LET p == init_page_directory
           IN  /\ Translated(p, a) = IF a < Entries * Page THEN a ELSE Fault
               /\ get_physaddr(p, a) = Translated(p, a) <=> a < Entries * Page
               /\ map_page(p, a) = Fault
<1> DEFINE p == init_page_directory
<1>1. PICK E \in Nat \ {0}, P \in Nat \ {0}, EP \in Nat \ {0} :
          E = Entries /\ P = Page /\ EP = E * P /\ E >= 2 /\ P = 4 * E
  <2>1. Entries \in Nat \ {0, 1} /\ Page = 4 * Entries /\ Page \in Nat \ {0}
    BY TablesAssumption, Widths
  <2>2. Entries * Page \in Nat \ {0}
    BY <2>1, TimesPositive
  <2> QED  BY <2>1, <2>2
<1>2. a \in Nat /\ a < EP * E
  <2>1. Entries * Entries * Page = (E * P) * E
    BY <1>1
  <2> QED  BY <2>1, <1>1
<1> DEFINE pd == pdindex(a)
<1> DEFINE pt == ptindex(a)
<1>3. pd \in Nat /\ pd < E /\ (pd = 0 <=> a < EP)
  <2>1. pd = a \div EP
    BY <1>1 DEF pdindex
  <2>2. a \div EP < E <=> a < EP * E
    BY <1>1, <1>2, QuotientLess
  <2>3. a \div EP < 1 <=> a < EP * 1
    BY <1>1, <1>2, QuotientLess
  <2>4. a \div EP \in Nat
    BY <1>1, <1>2, DivNat
  <2> QED  BY <2>1, <2>2, <2>3, <2>4, <1>1, <1>2
<1>4. pt = (a \div P) % E /\ pt \in Nat /\ pt < E /\ a \div P \in Nat /\ a % P \in Nat
  <2>1. a \div P \in Nat /\ a % P \in Nat
    BY <1>1, <1>2, DivNat
  <2>2. (a \div P) % E \in Nat /\ (a \div P) % E < E
    BY <1>1, <2>1, DivNat
  <2> QED  BY <2>1, <2>2, <1>1 DEF ptindex
<1>5. a < EP => pt * P + (a % P) = a
  <2>1. SUFFICES ASSUME a < EP PROVE pt * P + (a % P) = a
    OBVIOUS
  <2>2. EP = P * E
    BY <1>1
  <2>3. a \div P < E
    BY <2>1, <2>2, <1>1, <1>2, QuotientLess
  <2>4. pt = a \div P
    BY <1>1, <1>4, <2>3, Small
  <2>5. a = (a \div P) * P + (a % P)
    BY <1>1, <1>2, DivMod
  <2> QED  BY <2>4, <2>5
<1>6. /\ \A i \in 0 .. E - 1 : p.table[i].present /\ p.table[i].frame = i
      /\ \A i \in 0 .. E - 1 : p.directory[i].present <=> i = 0
  BY <1>1 DEF init_page_directory
<1> HIDE DEF p, pd, pt
<1>7. pd \in 0 .. E - 1 /\ pt \in 0 .. E - 1
  BY <1>1, <1>3, <1>4
<1>8. Translated(p, a) = IF a < EP THEN pt * P + (a % P) ELSE Fault
  BY <1>1, <1>3, <1>6, <1>7 DEF Translated, pd, pt
<1>9. get_physaddr(p, a) = pt * P + (a % P)
  BY <1>1, <1>6, <1>7 DEF get_physaddr, pt
<1>10. pt * P + (a % P) # Fault
  <2>1. pt * P \in Nat
    BY <1>1, <1>4, Times
  <2> QED  BY <2>1, <1>4 DEF Fault
<1>11. map_page(p, a) = Fault
  <2> DEFINE r == P * pd + 4 * pt
  <2> DEFINE b == (E - 1) * EP + r
  <2>1. r \in Nat /\ r < EP
    <3>1. pd * P <= (E - 1) * P
      BY <1>1, <1>3, TimesMono
    <3>2. (E - 1) * P = EP - P /\ pd * P = P * pd /\ pd * P \in Nat
      BY <1>1, <1>3
    <3>3. 4 * pt <= P - 4
      BY <1>1, <1>4
    <3> QED  BY <3>1, <3>2, <3>3, <1>1, <1>4
  <2>2. Entries * (Entries - 1) * Page + Page * pdindex(a) + 4 * ptindex(a) = b
    <3>1. Entries * (Entries - 1) * Page = (E - 1) * EP
      <4>1. E * (E - 1) * P = (E - 1) * (E * P)
        BY <1>1
      <4> QED  BY <4>1, <1>1
    <3>2. (E - 1) * EP \in Nat /\ P * pd \in Nat /\ 4 * pt \in Nat
      BY <1>1, <1>3, <1>4, Times
    <3> QED  BY <3>1, <3>2, <1>1 DEF pd, pt
  <2> HIDE DEF r
  <2>3. b \div EP = E - 1
    BY <2>1, <1>1, Quotient
  <2> HIDE DEF b
  <2>4. map_page(p, a) = Translated(p, b)
    BY <2>2 DEF map_page
  <2>5. pdindex(b) = E - 1
    BY <2>3, <1>1 DEF pdindex
  <2>6. E - 1 \in 0 .. E - 1 /\ E - 1 # 0
    BY <1>1
  <2> QED  BY <2>4, <2>5, <2>6, <1>6 DEF Translated
<1> QED  BY <1>1, <1>5, <1>8, <1>9, <1>10, <1>11 DEF p

LEMMA IdPaging ==
    ASSUME NEW from \in 0 .. 2 * Page, NEW size \in 0 .. 2 * Page
    PROVE  LET table == idpaging([i \in 0 .. 3 |->
                                     [frame |-> 0, present |-> FALSE, rw |-> TRUE]],
                                 from \div Page, from, size)
               mapped == { a \in 0 .. 4 * Page - 1 : table[a \div Page].present }
           IN  /\ \A a \in mapped : table[a \div Page].frame = a \div Page
               /\ from .. from + size - 1 \subseteq mapped
                      <=> size = 0 \/ (from % Page) + size <= Page * ((size + Page - 1) \div Page)
<1> DEFINE empty == [i \in 0 .. 3 |-> [frame |-> 0, present |-> FALSE, rw |-> TRUE]]
<1> DEFINE table == idpaging(empty, from \div Page, from, size)
<1> DEFINE mapped == { a \in 0 .. 4 * Page - 1 : table[a \div Page].present }
<1>1. PICK P \in Nat \ {0} : P = Page
  BY Widths
<1>2. from \in Nat /\ size \in Nat /\ from <= 2 * P /\ size <= 2 * P
  BY <1>1
<1>3. PICK first \in Nat, rest \in Nat :
          first = from \div P /\ rest = from % P /\ rest < P /\ from = first * P + rest
  BY <1>1, <1>2, DivMod, DivNat
<1>4. PICK pages \in Nat : pages = (size + P - 1) \div P
  <2>1. size + P - 1 \in Nat
    BY <1>1, <1>2
  <2> QED  BY <2>1, <1>1, DivNat
<1>5. \A i \in 0 .. 3 : /\ table[i].present <=> i \in first .. first + pages - 1
                        /\ i \in first .. first + pages - 1 => table[i].frame = i
  <2>1. table = [i \in 0 .. 3 |-> IF i \in first .. first + pages - 1
                     THEN [frame |-> first + i - first, present |-> TRUE, rw |-> FALSE]
                     ELSE empty[i]]
    BY <1>1, <1>3, <1>4 DEF idpaging
  <2> HIDE DEF table
  <2> QED  BY <2>1, <1>3, <1>4
<1> HIDE DEF table, empty
<1>6. \A a \in 0 .. 4 * P - 1 : a \div P \in 0 .. 3
  <2> SUFFICES ASSUME NEW a \in 0 .. 4 * P - 1 PROVE a \div P \in 0 .. 3
    OBVIOUS
  <2>1. a \in Nat /\ a < P * 4
    BY <1>1
  <2>2. a \div P \in Nat /\ a \div P < 4
    BY <2>1, <1>1, QuotientLess, DivNat
  <2> QED  BY <2>2
<1>7. \A a \in mapped : table[a \div Page].frame = a \div Page
  BY <1>1, <1>5, <1>6
<1>8. \A a \in 0 .. 4 * P - 1 : a \in mapped <=> (first <= a \div P /\ a \div P < first + pages)
  <2>1. SUFFICES ASSUME NEW a \in 0 .. 4 * P - 1
                 PROVE  a \in mapped <=> (first <= a \div P /\ a \div P < first + pages)
    OBVIOUS
  <2>2. a \div P \in 0 .. 3
    BY <1>6
  <2> DEFINE i == a \div P
  <2> HIDE DEF i
  <2>3. a \in mapped <=> table[i].present
    BY <1>1 DEF i
  <2>4. i \in 0 .. 3
    BY <2>2 DEF i
  <2> QED  BY <2>3, <2>4, <1>5, <1>3, <1>4 DEF i
<1> HIDE DEF mapped
<1>9. ASSUME NEW a \in Nat, from <= a
      PROVE  (first <= a \div P /\ a \div P < first + pages) <=> a - from + rest < P * pages
  <2> DEFINE b == a - from + rest
  <2>1. b \in Nat /\ a = first * P + b
    <3>1. PICK c \in Nat : c = first * P
      BY <1>1, <1>3, Times
    <3>2. from = c + rest
      BY <3>1, <1>3
    <3>3. b \in Nat /\ a = c + b
      BY <3>1, <3>2, <1>2, <1>3, <1>9
    <3> QED  BY <3>1, <3>3
  <2> HIDE DEF b
  <2>2. a \div P = first + (b \div P)
    <3>1. (first * P + b) \div P = first + (b \div P)
      BY <2>1, QuotientShift
    <3> QED  BY <2>1, <3>1
  <2>3. b \div P \in Nat /\ (b \div P < pages <=> b < P * pages)
    BY <2>1, <1>1, <1>4, QuotientLess, DivNat
  <2> QED  BY <2>2, <2>3, <1>3, <1>4 DEF b
<1>10. (from .. from + size - 1 \subseteq mapped) <=> (size = 0 \/ rest + size <= P * pages)
  <2>0. P * pages \in Nat
    BY <1>1, <1>4, Times
  <2>1. CASE size = 0
    BY <2>1, <1>2
  <2>2. CASE size # 0
    <3>1. \A a \in from .. from + size - 1 : a \in 0 .. 4 * P - 1 /\ a \in Nat /\ from <= a
      BY <1>2, <1>1
    <3>2. \A a \in from .. from + size - 1 : a \in mapped <=> a - from + rest < P * pages
      BY <3>1, <1>8, <1>9
    <3>3. from + size - 1 \in from .. from + size - 1
      BY <1>2, <2>2
    <3>4. ASSUME from .. from + size - 1 \subseteq mapped PROVE rest + size <= P * pages
      <4>1. (from + size - 1) - from + rest < P * pages
        BY <3>2, <3>3, <3>4
      <4> QED  BY <4>1, <2>0, <1>2, <1>3
    <3>5. ASSUME rest + size <= P * pages, NEW a \in from .. from + size - 1 PROVE a \in mapped
      <4>1. a - from + rest < P * pages
        BY <3>5, <2>0, <1>2, <1>3
      <4> QED  BY <4>1, <3>2
    <3> QED  BY <3>4, <3>5, <2>2
  <2> QED  BY <2>1, <2>2
<1> QED  BY <1>1, <1>3, <1>4, <1>7, <1>10 DEF mapped, table, empty

-----------------------------------------------------------------------------
(* Handlers, and the tables' property.                                     *)

Handlers(name) ==
    isr_install_handler(irq_install_handler(irq_install_handler(irq_install_handler(
        NoHandlers, 0, "timer"), 1, "keyboard"), 12, "mouse"), 14, name)

LEMMA HandlersAre ==
    ASSUME NEW name
    PROVE  LET h == Handlers(name)
           IN  /\ h \in [isr_routines : [0 .. 31 -> {"none", name}],
                         irq_routines : [0 .. 15 -> {"none", "timer", "keyboard", "mouse"}],
                         isr_names : [0 .. 31 -> {"none"}],
                         irq_names : [0 .. 15 -> {"none", "timer", "keyboard", "mouse", name}],
                         isr_counts : [0 .. 31 -> {0}]]
               /\ h.irq_names[14] = name
               /\ \A i \in 0 .. 15 : h.irq_routines[i] # "none" => h.irq_names[i] = h.irq_routines[i]
<1> DEFINE a == irq_install_handler(NoHandlers, 0, "timer")
<1> DEFINE b == irq_install_handler(a, 1, "keyboard")
<1> DEFINE c == irq_install_handler(b, 12, "mouse")
<1> DEFINE h == isr_install_handler(c, 14, name)
<1> DEFINE irqs == {"none", "timer", "keyboard", "mouse"}
<1> DEFINE H == [isr_routines : [0 .. 31 -> {"none", name}], irq_routines : [0 .. 15 -> irqs],
                 isr_names : [0 .. 31 -> {"none"}], irq_names : [0 .. 15 -> irqs \cup {name}],
                 isr_counts : [0 .. 31 -> {0}]]
<1> DEFINE Same(g) == \A i \in 0 .. 15 : g.irq_names[i] = g.irq_routines[i]
<1>1. NoHandlers \in H /\ Same(NoHandlers)
  BY DEF NoHandlers
<1>2. ASSUME NEW g \in H, Same(g), NEW irq \in 0 .. 15, NEW handler \in irqs
      PROVE  irq_install_handler(g, irq, handler) \in H /\ Same(irq_install_handler(g, irq, handler))
  <2> DEFINE r == irq_install_handler(g, irq, handler)
  <2>1. r \in H
    BY <1>2 DEF irq_install_handler
  <2>2. /\ r.irq_routines = [g.irq_routines EXCEPT ![irq] = handler]
        /\ r.irq_names = [g.irq_names EXCEPT ![irq] = handler]
    BY <1>2 DEF irq_install_handler
  <2>3. g.irq_routines \in [0 .. 15 -> irqs] /\ g.irq_names \in [0 .. 15 -> irqs \cup {name}]
    BY <1>2
  <2> HIDE DEF r, H
  <2>4. Same(r)
    BY <1>2, <2>2, <2>3
  <2> QED  BY <2>1, <2>4 DEF r
<1> HIDE DEF H, Same
<1>3. a \in H /\ Same(a)
  BY <1>1, <1>2
<1> HIDE DEF a
<1>4. b \in H /\ Same(b)
  BY <1>2, <1>3
<1> HIDE DEF b
<1>5. c \in H /\ Same(c)
  BY <1>2, <1>4
<1>6. c.irq_routines[14] = "none"
  <2>1. /\ c.irq_routines = [b.irq_routines EXCEPT ![12] = "mouse"]
        /\ b.irq_routines = [a.irq_routines EXCEPT ![1] = "keyboard"]
    BY <1>3, <1>4 DEF c, b, irq_install_handler, H
  <2>2. a.irq_routines = [NoHandlers.irq_routines EXCEPT ![0] = "timer"]
    BY <1>1 DEF a, irq_install_handler, H
  <2>3. NoHandlers.irq_routines = [i \in 0 .. 15 |-> "none"]
    BY DEF NoHandlers
  <2> HIDE DEF c
  <2>4. a.irq_routines \in [0 .. 15 -> irqs] /\ b.irq_routines \in [0 .. 15 -> irqs]
    BY <1>3, <1>4 DEF H
  <2>5. a.irq_routines[14] = "none"
    BY <2>2, <2>3
  <2>6. b.irq_routines[14] = "none"
    BY <2>1, <2>4, <2>5
  <2> QED  BY <2>1, <2>4, <2>6
<1> HIDE DEF c
<1>7. h \in H
  BY <1>5 DEF H, isr_install_handler
<1>8. h.irq_routines = c.irq_routines /\ h.irq_names = [c.irq_names EXCEPT ![14] = name]
  BY <1>5 DEF H, isr_install_handler
<1>9. c.irq_names \in [0 .. 15 -> irqs \cup {name}]
  BY <1>5 DEF H
<1> HIDE DEF h
<1>10. \A i \in 0 .. 15 : h.irq_routines[i] # "none" => h.irq_names[i] = h.irq_routines[i]
  BY <1>5, <1>6, <1>8, <1>9 DEF Same
<1>11. h.irq_names[14] = name
  BY <1>8, <1>9
<1>12. h = Handlers(name)
  BY DEF h, c, b, a, Handlers
<1> QED  BY <1>7, <1>10, <1>11, <1>12 DEF H

LEMMA FaultedIs ==
    \A n \in Nat : Faulted[n] = [Installed EXCEPT !.isr_counts[14] = n]
<1>1. PICK name, h : h = Handlers(name) /\ Installed = h
  BY DEF Installed, Handlers
<1>2. h.isr_counts \in [0 .. 31 -> {0}]
  BY <1>1, HandlersAre
<1>3. h = [isr_routines |-> h.isr_routines, irq_routines |-> h.irq_routines,
           isr_names |-> h.isr_names, irq_names |-> h.irq_names, isr_counts |-> h.isr_counts]
  BY <1>1, HandlersAre
<1> DEFINE g == [n \in Nat |-> [h EXCEPT !.isr_counts[14] = n]]
<1>4. g[0] = h
  BY <1>2, <1>3
<1>5. \A n \in Nat : fault_handler(g[n], 14) = g[n + 1]
  <2> SUFFICES ASSUME NEW n \in Nat PROVE fault_handler(g[n], 14) = g[n + 1]
    OBVIOUS
  <2> DEFINE r == [h EXCEPT !.isr_counts[14] = n]
  <2>1. g[n] = r /\ g[n + 1] = [h EXCEPT !.isr_counts[14] = n + 1]
    OBVIOUS
  <2> HIDE DEF g
  <2>2. fault_handler(r, 14) = [h EXCEPT !.isr_counts[14] = n + 1]
    <3> DEFINE k == h.isr_counts
    <3>1. k \in [0 .. 31 -> {0}]
      BY <1>2
    <3>2. r = [isr_routines |-> h.isr_routines, irq_routines |-> h.irq_routines,
               isr_names |-> h.isr_names, irq_names |-> h.irq_names,
               isr_counts |-> [k EXCEPT ![14] = n]]
      BY <1>3
    <3>3. [h EXCEPT !.isr_counts[14] = n + 1] =
              [isr_routines |-> h.isr_routines, irq_routines |-> h.irq_routines,
               isr_names |-> h.isr_names, irq_names |-> h.irq_names,
               isr_counts |-> [k EXCEPT ![14] = n + 1]]
      BY <1>3
    <3> HIDE DEF k
    <3>4. [[k EXCEPT ![14] = n] EXCEPT ![14] = n + 1] = [k EXCEPT ![14] = n + 1]
      BY <3>1
    <3>5. [k EXCEPT ![14] = n][14] = n
      BY <3>1
    <3> HIDE DEF r
    <3> DEFINE u == [k EXCEPT ![14] = n]
    <3>6. r.isr_counts = u
      BY <3>2
    <3> HIDE DEF u
    <3>7. fault_handler(r, 14) =
              [isr_routines |-> h.isr_routines, irq_routines |-> h.irq_routines,
               isr_names |-> h.isr_names, irq_names |-> h.irq_names,
               isr_counts |-> [u EXCEPT ![14] = u[14] + 1]]
      BY <3>2, <3>6 DEF fault_handler
    <3>8. [u EXCEPT ![14] = u[14] + 1] = [k EXCEPT ![14] = n + 1]
      BY <3>4, <3>5 DEF u
    <3> QED  BY <3>3, <3>7, <3>8
  <2> QED  BY <2>1, <2>2
<1>6. g = [n \in Nat |-> IF n = 0 THEN h ELSE fault_handler(g[n - 1], 14)]
  <2>1. ASSUME NEW n \in Nat PROVE g[n] = IF n = 0 THEN h ELSE fault_handler(g[n - 1], 14)
    <3>1. n # 0 => n - 1 \in Nat /\ (n - 1) + 1 = n
      OBVIOUS
    <3> HIDE DEF g
    <3> QED  BY <1>4, <1>5, <3>1
  <2>2. g = [n \in Nat |-> g[n]]
    OBVIOUS
  <2> HIDE DEF g
  <2> QED  BY <2>1, <2>2
<1> HIDE DEF g
<1>7. Faulted = [n \in Nat |-> IF n = 0 THEN h ELSE fault_handler(Faulted[n - 1], 14)]
  <2>1. Faulted = CHOOSE f : f = [n \in Nat |-> IF n = 0 THEN h ELSE fault_handler(f[n - 1], 14)]
    BY <1>1 DEF Faulted
  <2> QED  BY <2>1, <1>6
<1>8. ASSUME NEW n \in Nat PROVE Faulted[n] = g[n]
  <2>1. Faulted[0] = g[0]
    BY <1>7, <1>4
  <2>2. ASSUME NEW i \in 1 .. n, Faulted[i - 1] = g[i - 1] PROVE Faulted[i] = g[i]
    <3>1. i \in Nat /\ i # 0
      OBVIOUS
    <3>2. Faulted[i] = fault_handler(Faulted[i - 1], 14) /\ g[i] = fault_handler(g[i - 1], 14)
      BY <3>1, <1>6, <1>7
    <3> QED  BY <3>2, <2>2
  <2>3. \A i \in 0 .. n : Faulted[i] = g[i]
    <3>1. Alike(Faulted, g, n)
      BY <2>1, <2>2 DEF Alike
    <3> QED  BY <3>1, Unique
  <2> QED  BY <2>3
<1> QED  BY <1>8, <1>1 DEF g

\* TablesExact holds for every width, every size of a table and every page.
THEOREM Tables_Exact == Spec => []TablesExact
<1>1. LInv => TablesExact
  <2> SUFFICES ASSUME LInv PROVE TablesExact
    OBVIOUS
  <2>1. CASE Returned("gdt_install")
    <3>1. TableCalls /\ result = Compute(call.op, call.args) /\ call.op = "gdt_install"
      BY <2>1, TableCall DEF Returned, TableOps
    <3>2. PICK tss \in B20 .. 2 * B20 - TssSize - 1 : call.args = tss
      BY <3>1 DEF TableCalls, Called
    <3>3. result = gdt_install(tss)
      BY <3>1, <3>2 DEF Compute
    <3> QED  BY <2>1, <3>2, <3>3, Segments DEF TablesExact, Returned
  <2>2. CASE Returned("isrs_install")
    <3>1. TableCalls /\ result = Compute(call.op, call.args) /\ call.op = "isrs_install"
      BY <2>2, TableCall DEF Returned, TableOps
    <3>2. PICK v \in 0 .. 47, ring \in {0, 3} : call.args = <<v, ring>>
      BY <3>1 DEF TableCalls, Called
    <3>3. result.idt = isrs_install(Stubs) /\ result.frame = Stub(Pushed(v, ring), v)
      BY <3>1, <3>2 DEF Compute
    <3>4. v # 17 => /\ Reverse(result.frame) = isr_stack_state(ring)
                    /\ Last(StubEnd(result.frame)) = "eip"
      BY <3>3, Frames
    <3>5. /\ result.idt[v].base_lo + result.idt[v].base_hi * B16 = Stubs[v]
          /\ Bit(result.idt[v].flags, 1) = 0 <=> v >= 32
          /\ Bit(result.idt[v].flags, 64) = 1 <=> v \in {3, 4, 5}
      BY <3>3, Gates
    <3>6. call.args[1] = v /\ call.args[2] = ring
      BY <3>2
    <3>7. /\ call.op # "gdt_install" /\ call.op # "init_page_directory"
          /\ call.op # "idpaging" /\ call.op # "handlers"
      BY <3>1
    <3> QED  BY <3>4, <3>5, <3>6, <3>7, Zenon DEF TablesExact, Returned
  <2>3. CASE Returned("init_page_directory")
    <3>1. TableCalls /\ result = Compute(call.op, call.args) /\ call.op = "init_page_directory"
      BY <2>3, TableCall DEF Returned, TableOps
    <3>2. call.args \in 0 .. Entries * Entries * Page - 1
      BY <3>1 DEF TableCalls, Called
    <3>3. result = init_page_directory
      BY <3>1 DEF Compute
    <3> QED  BY <2>3, <3>2, <3>3, PageMap DEF TablesExact, Returned
  <2>4. CASE Returned("idpaging")
    <3>1. TableCalls /\ result = Compute(call.op, call.args) /\ call.op = "idpaging"
      BY <2>4, TableCall DEF Returned, TableOps
    <3>2. PICK from \in 0 .. 2 * Page, size \in 0 .. 2 * Page : call.args = <<from, size>>
      BY <3>1 DEF TableCalls, Called
    <3>3. result = idpaging([i \in 0 .. 3 |-> [frame |-> 0, present |-> FALSE, rw |-> TRUE]],
                            from \div Page, from, size)
      BY <3>1, <3>2 DEF Compute
    <3> QED  BY <2>4, <3>2, <3>3, IdPaging DEF TablesExact, Returned
  <2>5. CASE Returned("handlers")
    <3>1. TableCalls /\ result = Compute(call.op, call.args) /\ call.op = "handlers"
      BY <2>5, TableCall DEF Returned, TableOps
    <3>2. PICK n \in Nat : call.args = n
      BY <3>1, LibraryAssumption DEF TableCalls, Called
    <3>3. result = [Installed EXCEPT !.isr_counts[14] = n]
      BY <3>1, <3>2, FaultedIs DEF Compute
    <3>4. result.irq_routines = Installed.irq_routines /\ result.irq_names = Installed.irq_names
      <4>1. PICK name, h : h = Handlers(name) /\ Installed = h
        BY DEF Installed, Handlers
      <4>2. h = [isr_routines |-> h.isr_routines, irq_routines |-> h.irq_routines,
                 isr_names |-> h.isr_names, irq_names |-> h.irq_names, isr_counts |-> h.isr_counts]
        BY <4>1, HandlersAre
      <4>3. result = [h EXCEPT !.isr_counts[14] = n]
        BY <3>3, <4>1
      <4>4. result.irq_routines = h.irq_routines /\ result.irq_names = h.irq_names
        BY <4>2, <4>3
      <4> QED  BY <4>1, <4>4
    <3>5. Installed.irq_names[14] = "page fault"
      BY HandlersAre, Zenon DEF Installed, Handlers
    <3>6. \A i \in 0 .. 15 : Installed.irq_routines[i] # "none" =>
              Installed.irq_names[i] = Installed.irq_routines[i]
      BY HandlersAre, Zenon DEF Installed, Handlers
    <3>7. result.irq_names[14] = "page fault"
      BY <3>4, <3>5, Zenon
    <3>8. \A i \in 0 .. 15 : result.irq_routines[i] # "none" =>
              result.irq_names[i] = result.irq_routines[i]
      BY <3>4, <3>6, Zenon
    <3>9. result = [Installed EXCEPT !.isr_counts[14] = call.args]
      BY <3>2, <3>3, Zenon
    <3>10. /\ call.op # "gdt_install" /\ call.op # "isrs_install"
           /\ call.op # "init_page_directory" /\ call.op # "idpaging"
      BY <3>1
    <3> QED  BY <3>7, <3>8, <3>9, <3>10, Zenon DEF TablesExact, Returned
  <2> QED  BY <2>1, <2>2, <2>3, <2>4, <2>5, Zenon DEF TablesExact, Returned
<1> QED  BY <1>1, LInvHolds, PTL

-----------------------------------------------------------------------------
(* Lines.  Along the longer axis a line takes one step each round; the     *)
(* other axis has turned as often as major goes into half of it and minor  *)
(* for every round.                                                        *)

Total(major, minor, i) == (major \div 2) + i * minor
Turns(major, minor, i) == Total(major, minor, i) \div major
Rest(major, minor, i)  == Total(major, minor, i) % major
At(p1, major, minor, long, sign, i) ==
    [k \in {1, 2} |-> p1[k] + sign[k] * (IF k = long THEN i ELSE Turns(major, minor, i))]
Round(p1, major, minor, long, sign, i) ==
    [acc |-> Rest(major, minor, i), at |-> At(p1, major, minor, long, sign, i)]

LEMMA TurnsStart ==
    ASSUME NEW major \in Nat \ {0}, NEW minor \in Nat
    PROVE  /\ Turns(major, minor, 0) = 0 /\ Rest(major, minor, 0) = major \div 2
           /\ Turns(major, minor, major) = minor
<1>1. PICK h \in Nat : h = major \div 2 /\ h < major
  OBVIOUS
<1>2. h \div major = 0 /\ h % major = h
  BY <1>1, Small
<1>3. Total(major, minor, 0) = h
  BY <1>1 DEF Total
<1>4. Turns(major, minor, major) = (minor * major + h) \div major
  <2>1. h + major * minor = minor * major + h
    BY <1>1
  <2> QED  BY <2>1, <1>1 DEF Turns, Total
<1>5. (minor * major + h) \div major = minor
  BY <1>1, Quotient
<1> QED  BY <1>1, <1>2, <1>3, <1>4, <1>5 DEF Turns, Rest

LEMMA TurnsNext ==
    ASSUME NEW major \in Nat \ {0}, NEW minor \in 0 .. major, NEW i \in Nat
    PROVE  /\ Turns(major, minor, i) \in Nat
           /\ Rest(major, minor, i) \in Nat /\ Rest(major, minor, i) < major
           /\ Rest(major, minor, i) + minor >= major =>
                  /\ Turns(major, minor, i + 1) = Turns(major, minor, i) + 1
                  /\ Rest(major, minor, i + 1) = Rest(major, minor, i) + minor - major
           /\ ~(Rest(major, minor, i) + minor >= major) =>
                  /\ Turns(major, minor, i + 1) = Turns(major, minor, i)
                  /\ Rest(major, minor, i + 1) = Rest(major, minor, i) + minor
<1> DEFINE t == Turns(major, minor, i)
<1> DEFINE r == Rest(major, minor, i)
<1> DEFINE u == Turns(major, minor, i + 1)
<1> DEFINE q == Rest(major, minor, i + 1)
<1>1. PICK a \in Nat : a = Total(major, minor, i)
  <2>1. i * minor \in Nat /\ major \div 2 \in Nat
    BY Times
  <2> QED  BY <2>1 DEF Total
<1>2. t = a \div major /\ r = a % major
  BY <1>1 DEF Turns, Rest
<1>3. t \in Nat /\ r \in Nat /\ r < major
  BY <1>2, DivNat
<1>4. a = t * major + r
  BY <1>2, DivMod
<1>5. Total(major, minor, i + 1) = a + minor
  <2>1. (i + 1) * minor = i * minor + minor /\ i * minor \in Nat /\ major \div 2 \in Nat
    BY Times
  <2> QED  BY <2>1, <1>1 DEF Total
<1>6. u = (a + minor) \div major /\ q = (a + minor) % major
  BY <1>5 DEF Turns, Rest
<1> HIDE DEF t, r, u, q
<1>7. PICK c \in Nat : c = t * major
  BY <1>3, Times
<1>8. (t + 1) * major = c + major
  <2>1. (t + 1) * major = t * major + major
    BY <1>3
  <2> QED  BY <2>1, <1>7
<1>9. ASSUME r + minor >= major PROVE u = t + 1 /\ q = r + minor - major
  <2> DEFINE v == r + minor - major
  <2>1. v \in Nat /\ v < major
    BY <1>3, <1>9
  <2>2. a + minor = (t + 1) * major + v
    BY <1>3, <1>4, <1>7, <1>8
  <2> HIDE DEF v
  <2>3. ((t + 1) * major + v) \div major = t + 1 /\ ((t + 1) * major + v) % major = v
    <3>1. PICK w \in Nat : w = t + 1
      BY <1>3
    <3>2. (w * major + v) \div major = w /\ (w * major + v) % major = v
      BY <2>1, Quotient
    <3> QED  BY <3>1, <3>2
  <2> QED  BY <1>6, <2>2, <2>3 DEF v
<1>10. ASSUME ~(r + minor >= major) PROVE u = t /\ q = r + minor
  <2> DEFINE v == r + minor
  <2>1. v \in Nat /\ v < major
    BY <1>3, <1>10
  <2>2. a + minor = t * major + v
    BY <1>3, <1>4, <1>7
  <2> HIDE DEF v
  <2>3. (t * major + v) \div major = t /\ (t * major + v) % major = v
    BY <1>3, <2>1, Quotient
  <2> QED  BY <1>6, <2>2, <2>3 DEF v
<1> QED  BY <1>3, <1>9, <1>10 DEF t, r, u, q

Signs == [{1, 2} -> {-1, 0, 1}]

LEMMA SteppedIs ==
    ASSUME NEW p1, p1[1] \in Int, p1[2] \in Int, NEW major \in Nat \ {0}, NEW minor \in 0 .. major,
           NEW long \in {1, 2}, NEW sign \in Signs, NEW i \in Nat
    PROVE  Stepped(Round(p1, major, minor, long, sign, i), major, minor, long, sign)
               = Round(p1, major, minor, long, sign, i + 1)
<1> DEFINE s == Round(p1, major, minor, long, sign, i)
<1>1. PICK r, t : r = Rest(major, minor, i) /\ t = Turns(major, minor, i)
  OBVIOUS
<1>2. PICK q, u : q = Rest(major, minor, i + 1) /\ u = Turns(major, minor, i + 1)
  OBVIOUS
<1>3. /\ t \in Nat /\ r \in Nat
      /\ r + minor >= major => u = t + 1 /\ q = r + minor - major
      /\ ~(r + minor >= major) => u = t /\ q = r + minor
  BY <1>1, <1>2, TurnsNext
<1> DEFINE w == [k \in {1, 2} |-> p1[k] + sign[k] * (IF k = long THEN i ELSE t)]
<1>4. s = [acc |-> r, at |-> w]
  BY <1>1 DEF Round, At
<1>5. Round(p1, major, minor, long, sign, i + 1) =
          [acc |-> q, at |-> [k \in {1, 2} |-> p1[k] + sign[k] * (IF k = long THEN i + 1 ELSE u)]]
  BY <1>2 DEF Round, At
<1> HIDE DEF s
<1> DEFINE turn == r + minor >= major
<1> DEFINE next(acc, at) ==
        [acc |-> IF acc + minor >= major THEN (acc + minor) - major ELSE acc + minor,
         at  |-> [k \in {1, 2} |-> at[k] + IF k = long \/ acc + minor >= major THEN sign[k] ELSE 0]]
<1>6. Stepped(s, major, minor, long, sign) = next(r, w)
  <2>1. Stepped(s, major, minor, long, sign) = next(s.acc, s.at)
    BY DEF Stepped
  <2>2. s.acc = r /\ s.at = w
    BY <1>4
  <2> HIDE DEF next, w
  <2> QED  BY <2>1, <2>2
<1>7. ASSUME NEW k \in {1, 2}
      PROVE  w[k] + (IF k = long \/ turn THEN sign[k] ELSE 0)
                 = p1[k] + sign[k] * (IF k = long THEN i + 1 ELSE u)
  <2>1. PICK x \in Int, g \in {-1, 0, 1} : x = p1[k] /\ g = sign[k]
    BY DEF Signs
  <2>2. w[k] = x + g * (IF k = long THEN i ELSE t)
    BY <2>1
  <2>3. x + g * (IF k = long THEN i ELSE t) + (IF k = long \/ turn THEN g ELSE 0)
            = x + g * (IF k = long THEN i + 1 ELSE u)
    <3>1. CASE k = long
      <4>1. g * (i + 1) = g * i + g /\ g * i \in Int
        BY <2>1
      <4> QED  BY <3>1, <4>1
    <3>2. CASE k # long /\ turn
      <4>1. g * (t + 1) = g * t + g /\ g * t \in Int
        BY <1>3
      <4> QED  BY <3>2, <4>1, <1>3
    <3>3. CASE k # long /\ ~turn
      <4>1. u = t /\ g * t \in Int
        BY <3>3, <1>3
      <4> QED  BY <3>3, <4>1
    <3> QED  BY <3>1, <3>2, <3>3
  <2> QED  BY <2>1, <2>2, <2>3
<1>8. q = IF turn THEN (r + minor) - major ELSE r + minor
  BY <1>3
<1>9. [k \in {1, 2} |-> w[k] + IF k = long \/ turn THEN sign[k] ELSE 0]
          = [k \in {1, 2} |-> p1[k] + sign[k] * (IF k = long THEN i + 1 ELSE u)]
  <2> HIDE DEF w, turn
  <2> QED  BY <1>7
<1>10. next(r, w) = [acc |-> q, at |-> [k \in {1, 2} |-> w[k] + IF k = long \/ turn THEN sign[k] ELSE 0]]
  <2> HIDE DEF w
  <2> QED  BY <1>8
<1> HIDE DEF next, w, turn
<1> QED  BY <1>5, <1>6, <1>9, <1>10 DEF s

Points == [{1, 2} -> Int]

LEMMA PointIs == \A x, y \in Int : <<x, y>> \in Points
<1> SUFFICES ASSUME NEW x \in Int, NEW y \in Int PROVE <<x, y>> \in Points
  OBVIOUS
<1>1. <<x, y>> = [k \in 1 .. 2 |-> IF k = 1 THEN x ELSE y] /\ 1 .. 2 = {1, 2}
  OBVIOUS
<1> QED  BY <1>1 DEF Points

\* What line_fast works with.
Delta(p1, p2) == [k \in {1, 2} |-> p2[k] - p1[k]]
Longer(p1, p2) == IF abs(Delta(p1, p2)[1]) >= abs(Delta(p1, p2)[2]) THEN 1 ELSE 2
Major(p1, p2) == abs(Delta(p1, p2)[Longer(p1, p2)])
Minor(p1, p2) == abs(Delta(p1, p2)[3 - Longer(p1, p2)])
Towards(p1, p2) == [k \in {1, 2} |-> sgn(Delta(p1, p2)[k])]

LEMMA LineData ==
    ASSUME NEW p1 \in Points, NEW p2 \in Points
    PROVE  /\ Longer(p1, p2) \in {1, 2} /\ Major(p1, p2) \in Nat /\ Minor(p1, p2) \in 0 .. Major(p1, p2)
           /\ Towards(p1, p2) \in Signs
           /\ \A k \in {1, 2} : p2[k] = p1[k] + Towards(p1, p2)[k] *
                  (IF k = Longer(p1, p2) THEN Major(p1, p2) ELSE Minor(p1, p2))
           /\ Major(p1, p2) = 0 => p1 = p2
<1>1. PICK x \in Int, y \in Int : x = p2[1] - p1[1] /\ y = p2[2] - p1[2]
  BY DEF Points
<1>2. Delta(p1, p2)[1] = x /\ Delta(p1, p2)[2] = y
  BY <1>1 DEF Delta
<1>3. \A v \in Int : abs(v) \in Nat /\ sgn(v) \in {-1, 0, 1} /\ sgn(v) * abs(v) = v /\ (abs(v) = 0 => v = 0)
  <2> SUFFICES ASSUME NEW v \in Int
               PROVE  abs(v) \in Nat /\ sgn(v) \in {-1, 0, 1} /\ sgn(v) * abs(v) = v /\ (abs(v) = 0 => v = 0)
    OBVIOUS
  <2>1. CASE v < 0
    BY <2>1 DEF abs, sgn
  <2>2. CASE v = 0
    BY <2>2 DEF abs, sgn
  <2>3. CASE v > 0
    BY <2>3 DEF abs, sgn
  <2> QED  BY <2>1, <2>2, <2>3
<1>4. Towards(p1, p2) = [k \in {1, 2} |-> IF k = 1 THEN sgn(x) ELSE sgn(y)]
  BY <1>2 DEF Towards
<1>5. CASE abs(x) >= abs(y)
  <2>1. Longer(p1, p2) = 1 /\ Major(p1, p2) = abs(x) /\ Minor(p1, p2) = abs(y)
    BY <1>2, <1>5 DEF Longer, Major, Minor
  <2>2. p2[1] = p1[1] + sgn(x) * abs(x) /\ p2[2] = p1[2] + sgn(y) * abs(y)
    BY <1>1, <1>3 DEF Points
  <2>3. abs(x) = 0 => p1[1] = p2[1] /\ p1[2] = p2[2]
    <3>1. abs(x) \in Nat /\ abs(y) \in Nat
      BY <1>3
    <3>2. abs(x) = 0 => abs(y) = 0
      BY <3>1, <1>5
    <3>3. abs(x) = 0 => x = 0 /\ y = 0
      BY <3>2, <1>3
    <3> QED  BY <3>3, <1>1 DEF Points
  <2>4. abs(x) = 0 => p1 = p2
    BY <2>3 DEF Points
  <2>5. Towards(p1, p2) \in Signs
    BY <1>3, <1>4 DEF Signs
  <2> QED  BY <1>3, <1>4, <1>5, <2>1, <2>2, <2>4, <2>5
<1>6. CASE ~(abs(x) >= abs(y))
  <2>1. Longer(p1, p2) = 2 /\ Major(p1, p2) = abs(y) /\ Minor(p1, p2) = abs(x)
    BY <1>2, <1>6 DEF Longer, Major, Minor
  <2>2. p2[1] = p1[1] + sgn(x) * abs(x) /\ p2[2] = p1[2] + sgn(y) * abs(y)
    BY <1>1, <1>3 DEF Points
  <2>3. abs(y) = 0 => p1[1] = p2[1] /\ p1[2] = p2[2]
    <3>1. abs(x) \in Nat /\ abs(y) \in Nat
      BY <1>3
    <3>2. abs(y) = 0 => abs(x) = 0
      BY <3>1, <1>6
    <3>3. abs(y) = 0 => x = 0 /\ y = 0
      BY <3>2, <1>3
    <3> QED  BY <3>3, <1>1 DEF Points
  <2>4. abs(y) = 0 => p1 = p2
    BY <2>3 DEF Points
  <2>5. Towards(p1, p2) \in Signs
    BY <1>3, <1>4 DEF Signs
  <2> QED  BY <1>3, <1>4, <1>6, <2>1, <2>2, <2>4, <2>5
<1> QED  BY <1>3, <1>5, <1>6

\* The points, in closed form.
LEMMA LineIs ==
    ASSUME NEW p1 \in Points, NEW p2 \in Points
    PROVE  LET major == Major(p1, p2)
               point(i) == IF i = 0 THEN p1
                           ELSE At(p1, major, Minor(p1, p2), Longer(p1, p2), Towards(p1, p2), i)
           IN  line_fast(p1, p2) = [i \in 1 .. major + 1 |-> point(i - 1)]
<1> DEFINE major == Major(p1, p2)
<1> DEFINE minor == Minor(p1, p2)
<1> DEFINE long == Longer(p1, p2)
<1> DEFINE sign == Towards(p1, p2)
<1> DEFINE start == [acc |-> major \div 2, at |-> p1]
<1> DEFINE drawn == CHOOSE f : f = [i \in 0 .. major |->
                        IF i = 0 THEN start ELSE Stepped(f[i - 1], major, minor, long, sign)]
<1>1. line_fast(p1, p2) = [i \in 1 .. major + 1 |-> drawn[i - 1].at]
  BY DEF line_fast, Major, Minor, Longer, Towards, Delta
<1> DEFINE e == [i \in 0 .. major |-> IF i = 0 THEN start ELSE Round(p1, major, minor, long, sign, i)]
<1>2. /\ major \in Nat /\ minor \in 0 .. major /\ long \in {1, 2} /\ sign \in Signs
  BY LineData
<1> HIDE DEF major, minor, long, sign
<1>3. major # 0 => start = Round(p1, major, minor, long, sign, 0)
  <2> SUFFICES ASSUME major # 0 PROVE start = Round(p1, major, minor, long, sign, 0)
    OBVIOUS
  <2>1. Turns(major, minor, 0) = 0 /\ Rest(major, minor, 0) = major \div 2
    BY <1>2, TurnsStart
  <2>2. p1 = [k \in {1, 2} |-> p1[k] + sign[k] * (IF k = long THEN 0 ELSE 0)]
    <3>1. \A k \in {1, 2} : p1[k] + sign[k] * (IF k = long THEN 0 ELSE 0) = p1[k]
      BY <1>2 DEF Points, Signs
    <3>2. p1 = [k \in {1, 2} |-> p1[k]]
      BY DEF Points
    <3> QED  BY <3>1, <3>2
  <2> QED  BY <2>1, <2>2 DEF Round, At
<1>4. \A i \in 1 .. major : e[i] = Stepped(e[i - 1], major, minor, long, sign)
  <2> SUFFICES ASSUME NEW i \in 1 .. major
               PROVE  e[i] = Stepped(e[i - 1], major, minor, long, sign)
    OBVIOUS
  <2>1. PICK j \in Nat : j = i - 1 /\ j + 1 = i /\ j \in 0 .. major
    BY <1>2
  <2>2. e[j] = Round(p1, major, minor, long, sign, j)
    BY <2>1, <1>3
  <2>3. e[j + 1] = Round(p1, major, minor, long, sign, j + 1)
    BY <2>1
  <2>4. Stepped(Round(p1, major, minor, long, sign, j), major, minor, long, sign)
            = Round(p1, major, minor, long, sign, j + 1)
    <3>1. p1[1] \in Int /\ p1[2] \in Int /\ major \in Nat \ {0}
      BY <1>2 DEF Points
    <3> QED  BY <3>1, <1>2, SteppedIs
  <2> HIDE DEF e
  <2> QED  BY <2>1, <2>2, <2>3, <2>4
<1>5. e = [i \in 0 .. major |-> IF i = 0 THEN start ELSE Stepped(e[i - 1], major, minor, long, sign)]
  <2>1. e[0] = start
    BY <1>2
  <2>2. e = [i \in 0 .. major |-> e[i]]
    OBVIOUS
  <2> HIDE DEF e, start
  <2>3. \A i \in 0 .. major :
            e[i] = IF i = 0 THEN start ELSE Stepped(e[i - 1], major, minor, long, sign)
    BY <2>1, <1>4, <1>2
  <2> QED  BY <2>2, <2>3
<1> HIDE DEF e, start
<1>6. drawn = [i \in 0 .. major |->
                  IF i = 0 THEN start ELSE Stepped(drawn[i - 1], major, minor, long, sign)]
  BY <1>5
<1> HIDE DEF drawn
<1>7. \A i \in 0 .. major : drawn[i] = e[i]
  <2>1. drawn[0] = e[0]
    BY <1>2, <1>5, <1>6
  <2>2. ASSUME NEW i \in 1 .. major, drawn[i - 1] = e[i - 1] PROVE drawn[i] = e[i]
    <3>1. i \in 0 .. major /\ i # 0
      OBVIOUS
    <3>2. /\ drawn[i] = Stepped(drawn[i - 1], major, minor, long, sign)
          /\ e[i] = Stepped(e[i - 1], major, minor, long, sign)
      BY <3>1, <1>5, <1>6
    <3> QED  BY <3>2, <2>2
  <2>3. Alike(drawn, e, major)
    BY <2>1, <2>2 DEF Alike
  <2> QED  BY <1>2, <2>3, Unique
<1>8. ASSUME NEW i \in 1 .. major + 1
      PROVE  drawn[i - 1].at = IF i - 1 = 0 THEN p1 ELSE At(p1, major, minor, long, sign, i - 1)
  <2>1. i - 1 \in 0 .. major
    BY <1>2
  <2>2. e[i - 1].at = IF i - 1 = 0 THEN p1 ELSE At(p1, major, minor, long, sign, i - 1)
    BY <2>1 DEF e, start, Round
  <2> QED  BY <2>1, <2>2, <1>7
<1> QED  BY <1>1, <1>8 DEF major, minor, long, sign

LEMMA LinePoints ==
    ASSUME NEW p1 \in Points, NEW p2 \in Points, NEW r, r = line_fast(p1, p2),
           NEW major, major = Major(p1, p2), NEW minor, minor = Minor(p1, p2),
           NEW long, long = Longer(p1, p2), NEW sign, sign = Towards(p1, p2)
    PROVE  /\ Len(r) = major + 1 /\ r[1] = p1 /\ Last(r) = p2
           /\ major # 0 => \A i \in 0 .. major, k \in {1, 2} :
                  r[i + 1][k] = p1[k] + sign[k] * (IF k = long THEN i ELSE Turns(major, minor, i))
<1>1. /\ major \in Nat /\ minor \in 0 .. major /\ long \in {1, 2} /\ sign \in Signs
      /\ \A k \in {1, 2} : p2[k] = p1[k] + sign[k] * (IF k = long THEN major ELSE minor)
      /\ major = 0 => p1 = p2
  BY LineData
<1> DEFINE point(i) == IF i = 0 THEN p1 ELSE At(p1, major, minor, long, sign, i)
<1>2. r = [i \in 1 .. major + 1 |-> point(i - 1)]
  BY LineIs
<1>3. Len(r) = major + 1
  BY <1>1, <1>2
<1>4. r[1] = p1
  BY <1>1, <1>2
<1>5. ASSUME major # 0, NEW i \in 0 .. major, NEW k \in {1, 2}
      PROVE  r[i + 1][k] = p1[k] + sign[k] * (IF k = long THEN i ELSE Turns(major, minor, i))
  <2>1. r[i + 1] = point(i)
    <3>1. i + 1 \in 1 .. major + 1 /\ (i + 1) - 1 = i
      BY <1>1
    <3> HIDE DEF point
    <3> QED  BY <3>1, <1>2
  <2>2. CASE i # 0
    BY <2>1, <2>2 DEF At
  <2>3. CASE i = 0
    <3>1. r[i + 1][k] = p1[k] /\ p1[k] \in Int
      BY <2>1, <2>3 DEF Points
    <3>2. Turns(major, minor, i) = 0
      BY <1>1, <1>5, <2>3, TurnsStart
    <3>3. sign[k] \in Int
      BY <1>1 DEF Signs
    <3> QED  BY <3>1, <3>2, <3>3, <2>3
  <2> QED  BY <2>2, <2>3
<1>6. r[major + 1] = p2
  <2>1. CASE major = 0
    BY <2>1, <1>1, <1>4
  <2>2. CASE major # 0
    <3>1. r[major + 1] = At(p1, major, minor, long, sign, major)
      <4>1. major + 1 \in 1 .. major + 1 /\ (major + 1) - 1 = major
        BY <1>1
      <4> QED  BY <4>1, <1>2, <2>2
    <3>2. Turns(major, minor, major) = minor
      BY <1>1, <2>2, TurnsStart
    <3>3. At(p1, major, minor, long, sign, major) =
              [k \in {1, 2} |-> p1[k] + sign[k] * (IF k = long THEN major ELSE minor)]
      BY <3>2 DEF At
    <3>4. p2 = [k \in {1, 2} |-> p2[k]]
      BY DEF Points
    <3> QED  BY <3>1, <3>3, <3>4, <1>1
  <2> QED  BY <2>1, <2>2
<1> HIDE DEF point
<1> QED  BY <1>3, <1>4, <1>5, <1>6 DEF Last

LEMMA LineConnected ==
    ASSUME NEW p1 \in Points, NEW p2 \in Points
    PROVE  Connected(line_fast(p1, p2))
<1>1. PICK r : r = line_fast(p1, p2)
  OBVIOUS
<1>2. PICK major, minor, long, sign :
          /\ major = Major(p1, p2) /\ minor = Minor(p1, p2)
          /\ long = Longer(p1, p2) /\ sign = Towards(p1, p2)
  OBVIOUS
<1>3. /\ Len(r) = major + 1
      /\ major # 0 => \A i \in 0 .. major, k \in {1, 2} :
             r[i + 1][k] = p1[k] + sign[k] * (IF k = long THEN i ELSE Turns(major, minor, i))
  BY <1>1, <1>2, LinePoints
<1>4. major \in Nat /\ minor \in 0 .. major /\ long \in {1, 2} /\ sign \in Signs
  BY <1>2, LineData
<1>5. ASSUME NEW i \in 1 .. Len(r) - 1, NEW k \in {1, 2}
      PROVE  abs(r[i + 1][k] - r[i][k]) <= 1
  <2>1. PICK j \in Nat : j = i - 1 /\ j + 1 = i /\ j \in 0 .. major /\ i \in 0 .. major /\ major # 0
    BY <1>3, <1>4
  <2>2. PICK t \in Nat, u \in Nat : /\ t = Turns(major, minor, j) /\ u = Turns(major, minor, i)
                                    /\ u = t \/ u = t + 1
    <3>1. /\ Turns(major, minor, j) \in Nat
          /\ \/ Turns(major, minor, j + 1) = Turns(major, minor, j) + 1
             \/ Turns(major, minor, j + 1) = Turns(major, minor, j)
      BY <1>4, <2>1, TurnsNext
    <3> QED  BY <3>1, <2>1
  <2>3. PICK x \in Int, g \in {-1, 0, 1} : x = p1[k] /\ g = sign[k]
    BY <1>4 DEF Points, Signs
  <2>4. r[j + 1][k] = x + g * (IF k = long THEN j ELSE t)
    BY <1>3, <2>1, <2>2, <2>3
  <2>5. r[i + 1][k] = x + g * (IF k = long THEN i ELSE u)
    BY <1>3, <2>1, <2>2, <2>3
  <2>6. PICK c \in Nat, d \in Nat : /\ r[i][k] = x + g * c /\ r[i + 1][k] = x + g * d
                                    /\ d = c \/ d = c + 1
    <3>1. CASE k = long
      BY <3>1, <2>1, <2>4, <2>5
    <3>2. CASE k # long
      BY <3>2, <2>1, <2>2, <2>4, <2>5
    <3> QED  BY <3>1, <3>2
  <2>7. r[i + 1][k] - r[i][k] \in {-1, 0, 1}
    <3>1. g * (c + 1) = g * c + g /\ g * c \in Int
      BY <2>3
    <3>2. PICK m \in Int : m = g * c
      BY <3>1
    <3>3. r[i][k] = x + m
      BY <2>6, <3>2
    <3>4. r[i + 1][k] = x + m \/ r[i + 1][k] = x + (m + g)
      BY <2>6, <3>1, <3>2
    <3>5. x \in Int /\ m \in Int /\ g \in Int
      BY <3>2, <2>3
    <3>6. (x + m) - (x + m) = 0 /\ (x + (m + g)) - (x + m) = g
      BY <3>5
    <3> QED  BY <2>3, <3>3, <3>4, <3>6
  <2> HIDE DEF abs
  <2> QED  BY <2>7 DEF abs
<1> QED  BY <1>1, <1>5 DEF Connected

LEMMA Signed2 ==
    ASSUME NEW g \in {-1, 0, 1}, NEW h \in {-1, 0, 1}, NEW t \in Nat, NEW m \in Nat,
           NEW a \in Nat, a = t * m
    PROVE  (h * t) * (g * m) = IF g = 0 \/ h = 0 THEN 0 ELSE IF g = h THEN a ELSE -a
<1>1. CASE h = 0
  BY <1>1
<1>2. CASE g = 0
  BY <1>2
<1>3. CASE h = 1 /\ g = 1
  BY <1>3
<1>4. CASE h = 1 /\ g = -1
  BY <1>4
<1>5. CASE h = -1 /\ g = 1
  BY <1>5
<1>6. CASE h = -1 /\ g = -1
  BY <1>6
<1> QED  BY <1>1, <1>2, <1>3, <1>4, <1>5, <1>6

LEMMA Deviation ==
    ASSUME NEW g \in {-1, 0, 1}, NEW h \in {-1, 0, 1}, NEW j \in Nat, NEW t \in Nat,
           NEW major \in Nat, NEW minor \in Nat, NEW f \in Nat, NEW u \in Nat,
           u < major, 2 * f <= major, major - 1 <= 2 * f, t * major + u = f + j * minor
    PROVE  2 * abs((h * t) * (g * major) - (g * j) * (h * minor)) <= major
<1>1. PICK a \in Nat, b \in Nat : a = t * major /\ b = j * minor
  BY Times
<1>2. a + u = f + b
  BY <1>1
<1> DEFINE c == IF g = 0 \/ h = 0 THEN 0 ELSE IF g = h THEN a ELSE -a
<1> DEFINE d == IF g = 0 \/ h = 0 THEN 0 ELSE IF g = h THEN b ELSE -b
<1>3. (h * t) * (g * major) = c
  BY <1>1, Signed2
<1>4. (g * j) * (h * minor) = d
  BY <1>1, Signed2
<1>5. c \in Int /\ d \in Int /\ (c - d = 0 \/ c - d = f - u \/ c - d = u - f)
  BY <1>2
<1> HIDE DEF c, d
<1>6. PICK z \in Int : z = c - d /\ (z = 0 \/ z = f - u \/ z = u - f)
  BY <1>5
<1>7. 2 * abs(z) <= major
  BY <1>6 DEF abs
<1> QED  BY <1>3, <1>4, <1>6, <1>7

LEMMA LineNear ==
    ASSUME NEW p1 \in Points, NEW p2 \in Points
    PROVE  \A i \in 1 .. Len(line_fast(p1, p2)) : Near(line_fast(p1, p2)[i], p1, p2)
<1>1. PICK r : r = line_fast(p1, p2)
  OBVIOUS
<1>2. PICK major, minor, long, sign :
          /\ major = Major(p1, p2) /\ minor = Minor(p1, p2)
          /\ long = Longer(p1, p2) /\ sign = Towards(p1, p2)
  OBVIOUS
<1>3. /\ Len(r) = major + 1 /\ r[1] = p1
      /\ major # 0 => \A i \in 0 .. major, k \in {1, 2} :
             r[i + 1][k] = p1[k] + sign[k] * (IF k = long THEN i ELSE Turns(major, minor, i))
  BY <1>1, <1>2, LinePoints
<1>4. /\ major \in Nat /\ minor \in 0 .. major /\ long \in {1, 2} /\ sign \in Signs
      /\ \A k \in {1, 2} : p2[k] = p1[k] + sign[k] * (IF k = long THEN major ELSE minor)
      /\ major = 0 => p1 = p2
  BY <1>2, LineData
<1> DEFINE short == 3 - long
<1>5. short \in {1, 2} /\ short # long
  BY <1>4
<1>6. PICK g \in {-1, 0, 1}, h \in {-1, 0, 1} : g = sign[long] /\ h = sign[short]
  BY <1>4, <1>5 DEF Signs
<1>7. p2[long] - p1[long] = g * major /\ p2[short] - p1[short] = h * minor
  <2>1. p2[long] = p1[long] + g * major /\ p2[short] = p1[short] + h * minor
    BY <1>4, <1>5, <1>6
  <2>2. p1[long] \in Int /\ p1[short] \in Int /\ g * major \in Int /\ h * minor \in Int
    BY <1>4, <1>5, <1>6 DEF Points
  <2> QED  BY <2>1, <2>2
<1>8. abs(g * major) = major
  <2>1. abs(p2[long] - p1[long]) = major
    BY <1>2, <1>4 DEF Major, Longer, Delta
  <2> QED  BY <2>1, <1>7
<1>9. ASSUME NEW q, NEW a \in Int, NEW b \in Int,
             q[long] - p1[long] = a, q[short] - p1[short] = b,
             2 * abs(b * (g * major) - a * (h * minor)) <= major
      PROVE  Near(q, p1, p2)
  <2>1. long = IF abs(p2[1] - p1[1]) >= abs(p2[2] - p1[2]) THEN 1 ELSE 2
    BY <1>2 DEF Longer, Delta
  <2> DEFINE d == [k \in {1, 2} |-> p2[k] - p1[k]]
  <2> DEFINE e == [k \in {1, 2} |-> q[k] - p1[k]]
  <2> DEFINE l == IF abs(d[1]) >= abs(d[2]) THEN 1 ELSE 2
  <2>2. l = long
    BY <2>1
  <2>3. d[long] = g * major /\ d[short] = h * minor /\ e[long] = a /\ e[short] = b
    BY <1>5, <1>4, <1>7, <1>9
  <2>4. Near(q, p1, p2) <=> 2 * abs(e[3 - l] * d[l] - e[l] * d[3 - l]) <= abs(d[l])
    BY DEF Near
  <2> HIDE DEF d, e, l
  <2> QED  BY <2>2, <2>3, <2>4, <1>8, <1>9
<1>10. ASSUME NEW i \in 1 .. Len(r) PROVE Near(r[i], p1, p2)
  <2>1. CASE major = 0
    <3>1. r[i] = p1
      BY <1>3, <1>10, <2>1
    <3>2. r[i][long] - p1[long] = 0 /\ r[i][short] - p1[short] = 0
      BY <3>1, <1>4, <1>5 DEF Points
    <3>3. 2 * abs(0 * (g * major) - 0 * (h * minor)) <= major
      <4>1. 0 * (g * major) - 0 * (h * minor) = 0
        BY <1>4, <1>6
      <4> QED  BY <4>1, <2>1 DEF abs
    <3> QED  BY <3>2, <3>3, <1>9
  <2>2. CASE major # 0
    <3>1. PICK j \in 0 .. major : j + 1 = i
      <4>1. i - 1 \in 0 .. major /\ (i - 1) + 1 = i
        BY <1>3, <1>4
      <4> QED  BY <4>1
    <3>2. PICK t \in Nat, u \in Nat : /\ t = Turns(major, minor, j)
                                      /\ u = Rest(major, minor, j) /\ u < major
      <4>1. major \in Nat \ {0} /\ j \in Nat
        BY <1>4, <2>2
      <4>2. /\ Turns(major, minor, j) \in Nat
            /\ Rest(major, minor, j) \in Nat /\ Rest(major, minor, j) < major
        BY <4>1, <1>4, TurnsNext
      <4> QED  BY <4>2
    <3>3. r[i][long] = p1[long] + g * j /\ r[i][short] = p1[short] + h * t
      BY <1>3, <1>4, <1>5, <1>6, <2>2, <3>1, <3>2
    <3>4. PICK a \in Int, b \in Int : a = g * j /\ b = h * t
      <4>1. g \in Int /\ h \in Int /\ j \in Int /\ t \in Int
        BY <1>4
      <4> QED  BY <4>1
    <3>5. r[i][long] - p1[long] = a /\ r[i][short] - p1[short] = b
      <4>1. PICK x \in Int, y \in Int : x = p1[long] /\ y = p1[short]
        BY <1>4, <1>5 DEF Points
      <4>2. r[i][long] = x + a /\ r[i][short] = y + b
        BY <3>3, <3>4, <4>1
      <4> QED  BY <4>1, <4>2
    <3>6. PICK f \in Nat : f = major \div 2 /\ 2 * f <= major /\ major - 1 <= 2 * f
      BY <1>4
    <3>7. t * major + u = f + j * minor
      <4>1. Total(major, minor, j) = f + j * minor
        BY <3>6 DEF Total
      <4>2. j * minor \in Nat
        BY <1>4, Times
      <4>3. Total(major, minor, j) \in Nat
        BY <4>1, <4>2
      <4>4. major \in Nat \ {0}
        BY <1>4, <2>2
      <4>5. Total(major, minor, j) = t * major + u
        BY <4>3, <4>4, <3>2, DivMod DEF Turns, Rest
      <4> QED  BY <4>1, <4>5
    <3>8. 2 * abs((h * t) * (g * major) - (g * j) * (h * minor)) <= major
      <4>1. j \in Nat /\ major \in Nat /\ minor \in Nat
        BY <1>4
      <4> QED  BY <4>1, <3>2, <3>6, <3>7, Deviation
    <3>9. 2 * abs(b * (g * major) - a * (h * minor)) <= major
      BY <3>4, <3>8
    <3> QED  BY <1>9, <3>5, <3>9
  <2> QED  BY <2>1, <2>2
<1> QED  BY <1>1, <1>10

-----------------------------------------------------------------------------
(* The rectangle under the pointer, the screen and its palette.            *)

LEMMA MaxOf ==
    ASSUME NEW S, NEW m \in S, \A n \in S : n \in Nat, \A n \in S : n <= m
    PROVE  Max(S) = m
<1>1. \E x \in S : \A y \in S : x >= y
  OBVIOUS
<1>2. Max(S) \in S /\ \A y \in S : Max(S) >= y
  BY <1>1 DEF Max
<1> QED  BY <1>2

LEMMA RectIs ==
    ASSUME NEW x \in Nat, NEW y \in Nat
    PROVE  Max(fillrect(x, y)) = plot_pixel(x + 9, y + 9)
<1> DEFINE S == { plot_pixel(x + i, y + j) : i \in 0 .. 9, j \in 0 .. 9 }
<1>1. \A i, j \in 0 .. 9 : /\ plot_pixel(x + i, y + j) \in Nat
                           /\ plot_pixel(x + i, y + j) <= plot_pixel(x + 9, y + 9)
  BY DEF plot_pixel
<1>2. plot_pixel(x + 9, y + 9) \in S
  OBVIOUS
<1>3. \A n \in S : n \in Nat /\ n <= plot_pixel(x + 9, y + 9)
  BY <1>1
<1> HIDE DEF S
<1>4. Max(S) = plot_pixel(x + 9, y + 9)
  BY <1>2, <1>3, MaxOf
<1> QED  BY <1>4 DEF S, fillrect

LEMMA PointerBelow ==
    ASSUME NEW xs \in [1 .. 4 -> {0, 310, 320, 600}], NEW ys \in [1 .. 4 -> {0, 200, 400}]
    PROVE  /\ Max(PointerRect(xs, ys)) < plot_pixel(610, 410)
           /\ Max(PointerRect(xs, ys)) >= VideoMemory => ys[2] < 200 /\ ys[4] >= 399
           /\ (\A i \in 2 .. 4 : xs[i] = xs[1]) /\ (\A i \in 2 .. 4 : ys[i] = ys[1]) =>
                  Max(PointerRect(xs, ys)) < plot_pixel(330, 210)
<1>1. PICK x, y : x = Clamp(xs, 320) /\ y = Clamp(ys, 200)
  OBVIOUS
<1>2. x \in Nat /\ x <= 600
  BY <1>1 DEF Clamp
<1>3. y \in Nat /\ y <= 400
  BY <1>1 DEF Clamp
<1>4. Max(PointerRect(xs, ys)) = plot_pixel(x + 9, y + 9)
  BY <1>1, <1>2, <1>3, RectIs DEF PointerRect
<1>5. ASSUME \A i \in 2 .. 4 : xs[i] = xs[1] PROVE x <= 320
  <2>1. xs[2] = xs[1] /\ xs[3] = xs[1] /\ xs[4] = xs[1]
    BY <1>5
  <2> QED  BY <2>1, <1>1 DEF Clamp
<1>6. ASSUME \A i \in 2 .. 4 : ys[i] = ys[1] PROVE y <= 200
  <2>1. ys[2] = ys[1] /\ ys[3] = ys[1] /\ ys[4] = ys[1]
    BY <1>6
  <2> QED  BY <2>1, <1>1 DEF Clamp
<1>7. ASSUME y > 200 PROVE ys[2] < 200 /\ ys[4] = y
  <2>1. ys[1] >= 0 /\ ys[3] >= 0 /\ ys[2] \in Nat
    OBVIOUS
  <2>2. y = IF ys[2] < 200 THEN ys[4] ELSE 200
    BY <1>1, <2>1 DEF Clamp
  <2> QED  BY <1>7, <2>1, <2>2
<1>8. plot_pixel(x + 9, y + 9) >= VideoMemory => y >= 399
  BY <1>2, <1>3 DEF plot_pixel, VideoMemory
<1>9. Max(PointerRect(xs, ys)) >= VideoMemory => ys[2] < 200 /\ ys[4] >= 399
  BY <1>3, <1>4, <1>7, <1>8
<1>10. plot_pixel(x + 9, y + 9) < plot_pixel(610, 410)
  BY <1>2, <1>3 DEF plot_pixel
<1>11. x <= 320 /\ y <= 200 => plot_pixel(x + 9, y + 9) < plot_pixel(330, 210)
  BY <1>2, <1>3 DEF plot_pixel
<1> QED  BY <1>4, <1>5, <1>6, <1>9, <1>10, <1>11

\* Row by row, every offset is a point's.
LEMMA Screen ==
    ASSUME NEW w \in Nat \ {0}, NEW h \in Nat \ {0}, NEW size, size = w * h,
           \A y \in Int : y * 256 + y * 64 = y * w
    PROVE  0 .. size - 1 = { plot_pixel(p[1], p[2]) : p \in (0 .. w - 1) \X (0 .. h - 1) }
<1> DEFINE S == { plot_pixel(p[1], p[2]) : p \in (0 .. w - 1) \X (0 .. h - 1) }
<1>1. size \in Nat \ {0}
  BY TimesPositive
<1>2. ASSUME NEW a \in 0 .. size - 1 PROVE a \in S
  <2>1. PICK x, y : x = a % w /\ y = a \div w
    OBVIOUS
  <2>2. x \in Nat /\ y \in Nat /\ x < w
    BY <2>1, <1>1, DivNat
  <2>3. a = y * w + x
    BY <2>1, <1>1, DivMod
  <2>4. y < h
    BY <2>1, <1>1, QuotientLess
  <2>5. <<x, y>> \in (0 .. w - 1) \X (0 .. h - 1)
    BY <2>2, <2>4
  <2>6. plot_pixel(x, y) = a
    BY <2>2, <2>3 DEF plot_pixel
  <2> QED  BY <2>5, <2>6
<1>3. ASSUME NEW p \in (0 .. w - 1) \X (0 .. h - 1) PROVE plot_pixel(p[1], p[2]) \in 0 .. size - 1
  <2>1. PICK x \in 0 .. w - 1, y \in 0 .. h - 1 : p[1] = x /\ p[2] = y
    OBVIOUS
  <2>2. PICK b \in Nat : b = y * w
    BY Times
  <2>3. (b + x) \div w = y
    <3>1. x \in Nat /\ x < w /\ y \in Nat
      OBVIOUS
    <3>2. (y * w + x) \div w = y
      BY <3>1, Quotient
    <3> QED  BY <2>2, <3>2
  <2>4. b + x < size
    BY <2>2, <2>3, <1>1, QuotientLess
  <2>5. plot_pixel(x, y) = b + x
    BY <2>2 DEF plot_pixel
  <2> QED  BY <2>1, <2>2, <2>4, <2>5
<1>4. \A s \in S : s \in 0 .. size - 1
  BY <1>3
<1> HIDE DEF S
<1>5. 0 .. size - 1 = S
  BY <1>2, <1>4
<1> QED  BY <1>5 DEF S

LEMMA Cleared ==
    \A w, h, palette : \A size : size = w * h =>
        vga_clear([screen |-> << w, h >>], palette).cleared = 0 .. size - 1
  BY DEF vga_clear

ClearCall(index) ==
    vga_clear([screen |-> << 320, 200 >>],
              set_palette([i \in 0 .. 255 |-> <<0, 0, 0>>], index, 255, 20, 20))
ClearedExact(r, index) ==
    /\ r.cleared = { plot_pixel(p[1], p[2]) : p \in (0 .. 319) \X (0 .. 199) }
    /\ r.palette[index] = <<63, 20, 20>> <=> index \notin 16 .. 254

LEMMA PaletteIs ==
    ASSUME NEW index \in {0, 15, 16, 58, 254, 255}
    PROVE  ClearedExact(ClearCall(index), index)
<1>0. PICK palette, r :
          /\ palette = set_palette([i \in 0 .. 255 |-> <<0, 0, 0>>], index, 255, 20, 20)
          /\ r = vga_clear([screen |-> << 320, 200 >>], palette)
          /\ r = ClearCall(index)
  BY DEF ClearCall
<1>1. index \in 0 .. 255
  OBVIOUS
<1>2. palette[index] = <<63, 20, 20>>
  <2>1. palette = set_palette([i \in 0 .. 255 |-> <<0, 0, 0>>], index, 255, 20, 20)
    BY <1>0
  <2>2. palette = [[i \in 0 .. 255 |-> <<0, 0, 0>>] EXCEPT ![index] = Colour(255, 20, 20)]
    BY <2>1 DEF set_palette
  <2>3. Colour(255, 20, 20) = <<63, 20, 20>>
    BY DEF Colour
  <2> QED  BY <1>1, <2>2, <2>3
<1>3. r.palette[index] = IF index \in 16 .. 254
          THEN Colour(16 * (index % 16), 16 * (index \div 4), 16 * (index \div 16))
          ELSE palette[index]
  <2>1. r = vga_clear([screen |-> << 320, 200 >>], palette)
    BY <1>0
  <2>2. r.palette =
          [i \in 0 .. 255 |-> IF i \in 16 .. 254
                             THEN Colour(16 * (i % 16), 16 * (i \div 4), 16 * (i \div 16))
                             ELSE palette[i]]
    BY <2>1 DEF vga_clear
  <2> QED  BY <1>1, <2>2
<1>4. ASSUME index \in 16 .. 254
      PROVE  Colour(16 * (index % 16), 16 * (index \div 4), 16 * (index \div 16)) # <<63, 20, 20>>
  <2>1. (16 * (index % 16)) % 64 # 63
    BY <1>4
  <2> QED  BY <2>1 DEF Colour
<1>5. r.cleared = { plot_pixel(p[1], p[2]) : p \in (0 .. 319) \X (0 .. 199) }
  <2>1. PICK w \in Nat \ {0}, h \in Nat \ {0} : w = 320 /\ h = 200
    OBVIOUS
  <2>2. PICK size : size = w * h
    OBVIOUS
  <2>3. \A y \in Int : y * 256 + y * 64 = y * w
    BY <2>1
  <2>4. 0 .. size - 1 = { plot_pixel(p[1], p[2]) : p \in (0 .. w - 1) \X (0 .. h - 1) }
    BY <2>2, <2>3, Screen
  <2>5. w - 1 = 319 /\ h - 1 = 199
    BY <2>1
  <2>6. r.cleared = 0 .. size - 1
    <3>1. r = vga_clear([screen |-> << w, h >>], palette)
      BY <1>0, <2>1
    <3>2. vga_clear([screen |-> << w, h >>], palette).cleared = 0 .. size - 1
      BY <2>2, Cleared
    <3> QED  BY <3>1, <3>2, Zenon
  <2> QED  BY <2>4, <2>5, <2>6
<1>6. r.palette[index] = <<63, 20, 20>> <=> index \notin 16 .. 254
  BY <1>2, <1>3, <1>4
<1>7. ClearedExact(r, index)
  BY <1>5, <1>6 DEF ClearedExact
<1> QED  BY <1>0, <1>7

LEMMA PolygonIs ==
    ASSUME NEW v1 \in Points, NEW v2 \in Points, NEW v3 \in Points,
           NEW r, r = polygon(<< v1, v2, v3 >>)
    PROVE  /\ Len(r) = 3
           /\ r[1][1] = v1 /\ Last(r[1]) = v2
           /\ r[2][1] = v2 /\ Last(r[2]) = v3
           /\ r[3][1] = v1 /\ Last(r[3]) = v3
<1> DEFINE v == << v1, v2, v3 >>
<1>1. Len(v) = 3 /\ v[1] = v1 /\ v[2] = v2 /\ v[3] = v3
  OBVIOUS
<1> HIDE DEF v
<1>2. r = [i \in 1 .. 3 |-> IF i < 3 THEN line_fast(v[i], v[i + 1]) ELSE line_fast(v[1], v[3])]
  BY <1>1 DEF polygon, v
<1>3. Len(r) = 3 /\ r[1] = line_fast(v1, v2) /\ r[2] = line_fast(v2, v3) /\ r[3] = line_fast(v1, v3)
  BY <1>1, <1>2
<1>4. \A p, q \in Points : line_fast(p, q)[1] = p /\ Last(line_fast(p, q)) = q
  BY LinePoints
<1> QED  BY <1>3, <1>4

LEMMA DrawingCall ==
    ASSUME LInv, done, call.op \in DrawingOps
    PROVE  /\ result = Compute(call.op, call.args)
           /\ DrawingCalls
  BY CallIs

\* DrawingExact holds for all the points there are.
THEOREM Drawing_Exact == Spec => []DrawingExact
<1>1. LInv => DrawingExact
  <2> SUFFICES ASSUME LInv PROVE DrawingExact
    OBVIOUS
  <2>1. CASE Returned("line_fast")
    <3>1. DrawingCalls /\ result = Compute(call.op, call.args) /\ call.op = "line_fast"
      BY <2>1, DrawingCall DEF Returned, DrawingOps
    <3>2. PICK x \in Reach, y \in Reach : call.args = << <<5, 4>>, <<x, y>> >>
      BY <3>1 DEF DrawingCalls, Called
    <3>3. PICK p1 \in Points, p2 \in Points : call.args = << p1, p2 >>
      BY <3>2, PointIs, LibraryAssumption
    <3>4. result = line_fast(p1, p2)
      BY <3>1, <3>3 DEF Compute
    <3>5. result[1] = p1 /\ Last(result) = p2
      BY <3>4, LinePoints
    <3>6. Connected(result) /\ \A i \in 1 .. Len(result) : Near(result[i], p1, p2)
      BY <3>4, LineConnected, LineNear
    <3> QED  BY <3>1, <3>3, <3>5, <3>6 DEF DrawingExact, Returned
  <2>2. CASE Returned("polygon")
    <3>1. DrawingCalls /\ result = Compute(call.op, call.args) /\ call.op = "polygon"
      BY <2>2, DrawingCall DEF Returned, DrawingOps
    <3>2. PICK x \in Reach, y \in Reach : call.args = << <<x, y>>, <<7, 5>>, <<1, 4>> >>
      BY <3>1 DEF DrawingCalls, Called
    <3>3. PICK v1 \in Points, v2 \in Points, v3 \in Points : call.args = << v1, v2, v3 >>
      BY <3>2, PointIs, LibraryAssumption
    <3>4. result = polygon(<< v1, v2, v3 >>)
      BY <3>1, <3>3 DEF Compute
    <3>5. /\ Len(result) = 3
          /\ result[1][1] = v1 /\ Last(result[1]) = v2
          /\ result[2][1] = v2 /\ Last(result[2]) = v3
          /\ result[3][1] = v1 /\ Last(result[3]) = v3
      BY <3>4, PolygonIs
    <3>6. call.args[1] = v1 /\ call.args[2] = v2 /\ call.args[3] = v3
      BY <3>3
    <3>7. ASSUME NEW i \in 1 .. Len(result)
          PROVE {result[i][1], Last(result[i])} =
                    {call.args[i], call.args[IF i = Len(result) THEN 1 ELSE i + 1]}
      <4>1. i = 1 \/ i = 2 \/ i = 3
        BY <3>5
      <4> QED  BY <4>1, <3>5, <3>6
    <3> QED  BY <3>1, <3>7, Zenon DEF DrawingExact, Returned
  <2>3. CASE Returned("PointerRect")
    <3>1. DrawingCalls /\ result = Compute(call.op, call.args) /\ call.op = "PointerRect"
      BY <2>3, DrawingCall DEF Returned, DrawingOps
    <3>2. PICK xs \in [1 .. 4 -> {0, 310, 320, 600}], ys \in [1 .. 4 -> {0, 200, 400}] :
              call.args = << xs, ys >>
      BY <3>1 DEF DrawingCalls, Called
    <3>3. result = PointerRect(xs, ys)
      BY <3>1, <3>2 DEF Compute
    <3>4. call.args[1] = xs /\ call.args[2] = ys
      BY <3>2
    <3>5. /\ Max(result) < plot_pixel(610, 410)
          /\ Max(result) >= VideoMemory => ys[2] < 200 /\ ys[4] >= 399
          /\ (\A i \in 2 .. 4 : xs[i] = xs[1]) /\ (\A i \in 2 .. 4 : ys[i] = ys[1]) =>
                 Max(result) < plot_pixel(330, 210)
      BY <3>3, PointerBelow
    <3> QED  BY <3>1, <3>4, <3>5 DEF DrawingExact, Returned
  <2>4. CASE Returned("vga_clear")
    <3>1. DrawingCalls /\ result = Compute(call.op, call.args) /\ call.op = "vga_clear"
      BY <2>4, DrawingCall DEF Returned, DrawingOps
    <3>2. PICK index \in {0, 15, 16, 58, 254, 255} : call.args = index
      BY <3>1 DEF DrawingCalls, Called
    <3>3. result = ClearCall(index)
      BY <3>1, <3>2 DEF Compute, ClearCall
    <3>4. ClearedExact(result, index)
      BY <3>3, PaletteIs
    <3>6. call.op # "line_fast" /\ call.op # "polygon" /\ call.op # "PointerRect"
      BY <3>1
    <3> QED  BY <3>2, <3>4, <3>6, Zenon DEF DrawingExact, Returned, ClearedExact
  <2> QED  BY <2>1, <2>2, <2>3, <2>4, Zenon DEF DrawingExact, Returned
<1> QED  BY <1>1, LInvHolds, PTL

-----------------------------------------------------------------------------
(* Copying.  Pieces follow each other upwards or downwards; edges[i] is    *)
(* where the pieces have come to after i of them.                          *)

Pieces == Seq(Nat \X Nat)

Climbs(p, from, to) ==
    /\ p \in Pieces
    /\ \E edges \in [0 .. Len(p) -> from .. to] :
           /\ edges[0] = from /\ edges[Len(p)] = to
           /\ \A i \in 1 .. Len(p) : /\ edges[i - 1] <= edges[i]
                                     /\ p[i] = << edges[i - 1], edges[i] - edges[i - 1] >>

Falls(p, to, from) ==
    /\ p \in Pieces
    /\ \E edges \in [0 .. Len(p) -> from .. to] :
           /\ edges[0] = to /\ edges[Len(p)] = from
           /\ \A i \in 1 .. Len(p) : /\ edges[i] <= edges[i - 1]
                                     /\ p[i] = << edges[i], edges[i - 1] - edges[i] >>

LEMMA BytesClimb ==
    ASSUME NEW from \in Nat, NEW n \in Nat
    PROVE  Climbs(Bytes(from, n), from, from + n) /\ Len(Bytes(from, n)) = n
<1> DEFINE p == Bytes(from, n)
<1> DEFINE e == [i \in 0 .. n |-> from + i]
<1>1. p \in Pieces /\ Len(p) = n
  <2>1. \A i \in 1 .. n : << from + i - 1, 1 >> \in Nat \X Nat
    OBVIOUS
  <2> QED  BY <2>1 DEF Bytes, Pieces
<1>2. e \in [0 .. n -> from .. from + n] /\ e[0] = from /\ e[n] = from + n
  OBVIOUS
<1>3. ASSUME NEW i \in 1 .. n
      PROVE  e[i - 1] <= e[i] /\ p[i] = << e[i - 1], e[i] - e[i - 1] >>
  <2>1. e[i] = from + i /\ e[i - 1] = from + i - 1
    OBVIOUS
  <2>2. p[i] = << from + i - 1, 1 >>
    BY DEF Bytes
  <2> HIDE DEF e, p
  <2> QED  BY <2>1, <2>2
<1> HIDE DEF p, e
<1>4. Climbs(p, from, from + n)
  BY <1>1, <1>2, <1>3 DEF Climbs
<1> QED  BY <1>1, <1>4 DEF p

LEMMA WordsClimb ==
    ASSUME NEW from \in Nat, NEW n \in Nat
    PROVE  Climbs(Words(from, n), from, from + n * Word)
<1> DEFINE p == Words(from, n)
<1> DEFINE e == [i \in 0 .. n |-> from + i * Word]
<1>1. PICK w \in Nat : w = Word
  BY MemoryAssumption
<1>2. \A i \in 0 .. n : i * w \in Nat /\ i * w <= n * w
  BY Times, TimesMono
<1>3. \A i \in 1 .. n : /\ (i - 1) * w \in Nat /\ (i - 1) * w + w = i * w
  BY Times
<1>4. p \in Pieces /\ Len(p) = n
  <2>1. ASSUME NEW i \in 1 .. n PROVE << from + (i - 1) * w, w >> \in Nat \X Nat
    BY <1>3
  <2>2. p = [i \in 1 .. n |-> << from + (i - 1) * w, w >>]
    BY <1>1 DEF Words
  <2> HIDE DEF p
  <2>3. p \in [1 .. n -> Nat \X Nat]
    BY <2>1, <2>2, Zenon
  <2> QED  BY <2>3 DEF Pieces
<1>5. n * w \in Nat
  BY Times
<1>6. e \in [0 .. n -> from .. from + n * w]
  <2>1. ASSUME NEW i \in 0 .. n PROVE from + i * w \in from .. from + n * w
    BY <1>2, <1>5
  <2> QED  BY <2>1, <1>1
<1>7. e[0] = from /\ e[n] = from + n * w
  BY <1>1
<1>8. ASSUME NEW i \in 1 .. n
      PROVE  e[i - 1] <= e[i] /\ p[i] = << e[i - 1], e[i] - e[i - 1] >>
  <2>1. e[i] = from + i * w /\ e[i - 1] = from + (i - 1) * w
    BY <1>1
  <2>2. p[i] = << from + (i - 1) * w, w >>
    BY <1>1 DEF Words
  <2>3. PICK b \in Nat : b = (i - 1) * w /\ b + w = i * w
    BY <1>3
  <2> HIDE DEF e, p
  <2> QED  BY <2>1, <2>2, <2>3
<1> HIDE DEF p, e
<1>9. Climbs(p, from, from + n * w)
  BY <1>4, <1>6, <1>7, <1>8 DEF Climbs
<1> QED  BY <1>1, <1>9 DEF p

LEMMA ClimbOn ==
    ASSUME NEW a \in Nat, NEW b \in Nat, NEW c \in Nat, a <= b, b <= c,
           NEW p, NEW q, Climbs(p, a, b), Climbs(q, b, c)
    PROVE  Climbs(p \o q, a, c)
<1>1. PICK m \in Nat, n \in Nat : m = Len(p) /\ n = Len(q)
  BY DEF Climbs, Pieces
<1>2. PICK f \in [0 .. m -> a .. b] :
          /\ f[0] = a /\ f[m] = b
          /\ \A i \in 1 .. m : f[i - 1] <= f[i] /\ p[i] = << f[i - 1], f[i] - f[i - 1] >>
  BY <1>1 DEF Climbs
<1>3. PICK g \in [0 .. n -> b .. c] :
          /\ g[0] = b /\ g[n] = c
          /\ \A i \in 1 .. n : g[i - 1] <= g[i] /\ q[i] = << g[i - 1], g[i] - g[i - 1] >>
  BY <1>1 DEF Climbs
<1>4. /\ p \o q \in Pieces /\ Len(p \o q) = m + n
      /\ \A i \in 1 .. m : (p \o q)[i] = p[i]
      /\ \A j \in 1 .. n : (p \o q)[m + j] = q[j]
  <2>1. p \in Seq(Nat \X Nat) /\ q \in Seq(Nat \X Nat)
    BY DEF Climbs, Pieces
  <2> QED  BY <2>1, <1>1, Join DEF Pieces
<1> DEFINE e == [i \in 0 .. m + n |-> IF i <= m THEN f[i] ELSE g[i - m]]
<1>5. e \in [0 .. m + n -> a .. c]
  <2>1. ASSUME NEW i \in 0 .. m + n PROVE (IF i <= m THEN f[i] ELSE g[i - m]) \in a .. c
    <3>1. i <= m => f[i] \in a .. b
      OBVIOUS
    <3>2. ~(i <= m) => g[i - m] \in b .. c
      OBVIOUS
    <3> QED  BY <3>1, <3>2
  <2> QED  BY <2>1
<1>6. e[0] = a /\ e[m + n] = c
  BY <1>2, <1>3
<1>7. ASSUME NEW i \in 1 .. m + n
      PROVE  e[i - 1] <= e[i] /\ (p \o q)[i] = << e[i - 1], e[i] - e[i - 1] >>
  <2>1. CASE i <= m
    <3>1. e[i] = f[i] /\ e[i - 1] = f[i - 1] /\ i \in 1 .. m
      BY <2>1
    <3> HIDE DEF e
    <3> QED  BY <3>1, <1>2, <1>4
  <2>2. CASE ~(i <= m)
    <3>1. PICK j \in 1 .. n : i = m + j
      <4>1. i - m \in 1 .. n /\ i = m + (i - m)
        BY <2>2
      <4> QED  BY <4>1
    <3>2. e[i] = g[j]
      BY <3>1
    <3>3. e[i - 1] = g[j - 1]
      <4>1. CASE j = 1
        BY <3>1, <4>1, <1>2, <1>3
      <4>2. CASE j # 1
        BY <3>1, <4>2
      <4> QED  BY <4>1, <4>2
    <3> HIDE DEF e
    <3> QED  BY <3>1, <3>2, <3>3, <1>3, <1>4
  <2> QED  BY <2>1, <2>2
<1> HIDE DEF e
<1>8. PICK w : w = p \o q /\ w \in Pieces /\ Len(w) = m + n
  BY <1>4
<1>9. /\ e \in [0 .. Len(w) -> a .. c] /\ e[0] = a /\ e[Len(w)] = c
      /\ \A i \in 1 .. Len(w) : e[i - 1] <= e[i] /\ w[i] = << e[i - 1], e[i] - e[i - 1] >>
  BY <1>5, <1>6, <1>7, <1>8
<1>10. Climbs(w, a, c)
  BY <1>8, <1>9, Zenon DEF Climbs
<1> QED  BY <1>8, <1>10

LEMMA FallOn ==
    ASSUME NEW a \in Nat, NEW b \in Nat, NEW c \in Nat, a >= b, b >= c,
           NEW p, NEW q, Falls(p, a, b), Falls(q, b, c)
    PROVE  Falls(p \o q, a, c)
<1>1. PICK m \in Nat, n \in Nat : m = Len(p) /\ n = Len(q)
  BY DEF Falls, Pieces
<1>2. PICK f \in [0 .. m -> b .. a] :
          /\ f[0] = a /\ f[m] = b
          /\ \A i \in 1 .. m : f[i] <= f[i - 1] /\ p[i] = << f[i], f[i - 1] - f[i] >>
  BY <1>1 DEF Falls
<1>3. PICK g \in [0 .. n -> c .. b] :
          /\ g[0] = b /\ g[n] = c
          /\ \A i \in 1 .. n : g[i] <= g[i - 1] /\ q[i] = << g[i], g[i - 1] - g[i] >>
  BY <1>1 DEF Falls
<1>4. /\ p \o q \in Pieces /\ Len(p \o q) = m + n
      /\ \A i \in 1 .. m : (p \o q)[i] = p[i]
      /\ \A j \in 1 .. n : (p \o q)[m + j] = q[j]
  <2>1. p \in Seq(Nat \X Nat) /\ q \in Seq(Nat \X Nat)
    BY DEF Falls, Pieces
  <2> QED  BY <2>1, <1>1, Join DEF Pieces
<1> DEFINE e == [i \in 0 .. m + n |-> IF i <= m THEN f[i] ELSE g[i - m]]
<1>5. e \in [0 .. m + n -> c .. a]
  <2>1. ASSUME NEW i \in 0 .. m + n PROVE (IF i <= m THEN f[i] ELSE g[i - m]) \in c .. a
    <3>1. i <= m => f[i] \in b .. a
      OBVIOUS
    <3>2. ~(i <= m) => g[i - m] \in c .. b
      OBVIOUS
    <3> QED  BY <3>1, <3>2
  <2> QED  BY <2>1
<1>6. e[0] = a /\ e[m + n] = c
  BY <1>2, <1>3
<1>7. ASSUME NEW i \in 1 .. m + n
      PROVE  e[i] <= e[i - 1] /\ (p \o q)[i] = << e[i], e[i - 1] - e[i] >>
  <2>1. CASE i <= m
    <3>1. e[i] = f[i] /\ e[i - 1] = f[i - 1] /\ i \in 1 .. m
      BY <2>1
    <3> HIDE DEF e
    <3> QED  BY <3>1, <1>2, <1>4
  <2>2. CASE ~(i <= m)
    <3>1. PICK j \in 1 .. n : i = m + j
      <4>1. i - m \in 1 .. n /\ i = m + (i - m)
        BY <2>2
      <4> QED  BY <4>1
    <3>2. e[i] = g[j]
      BY <3>1
    <3>3. e[i - 1] = g[j - 1]
      <4>1. CASE j = 1
        BY <3>1, <4>1, <1>2, <1>3
      <4>2. CASE j # 1
        BY <3>1, <4>2
      <4> QED  BY <4>1, <4>2
    <3> HIDE DEF e
    <3> QED  BY <3>1, <3>2, <3>3, <1>3, <1>4
  <2> QED  BY <2>1, <2>2
<1> HIDE DEF e
<1>8. PICK w : w = p \o q /\ w \in Pieces /\ Len(w) = m + n
  BY <1>4
<1>9. /\ e \in [0 .. Len(w) -> c .. a] /\ e[0] = a /\ e[Len(w)] = c
      /\ \A i \in 1 .. Len(w) : e[i] <= e[i - 1] /\ w[i] = << e[i], e[i - 1] - e[i] >>
  BY <1>5, <1>6, <1>7, <1>8
<1>10. Falls(w, a, c)
  BY <1>8, <1>9, Zenon DEF Falls
<1> QED  BY <1>8, <1>10

\* Backwards, what climbs falls.
LEMMA TurnRound ==
    ASSUME NEW a \in Nat, NEW b \in Nat, NEW p, Climbs(p, a, b)
    PROVE  Falls(Reverse(p), b, a)
<1>1. PICK m \in Nat : m = Len(p)
  BY DEF Climbs, Pieces
<1>2. PICK f \in [0 .. m -> a .. b] :
          /\ f[0] = a /\ f[m] = b
          /\ \A i \in 1 .. m : f[i - 1] <= f[i] /\ p[i] = << f[i - 1], f[i] - f[i - 1] >>
  BY <1>1 DEF Climbs
<1> DEFINE r == Reverse(p)
<1>3. p \in [1 .. m -> Nat \X Nat]
  <2>1. p \in Seq(Nat \X Nat)
    BY DEF Climbs, Pieces
  <2> QED  BY <2>1, <1>1
<1>4. r = [i \in 1 .. m |-> p[(m - i) + 1]]
  BY <1>1 DEF Reverse
<1>5. r \in Pieces /\ Len(r) = m
  <2>1. \A i \in 1 .. m : p[(m - i) + 1] \in Nat \X Nat
    <3>1. \A i \in 1 .. m : (m - i) + 1 \in 1 .. m
      OBVIOUS
    <3> QED  BY <3>1, <1>3
  <2> HIDE DEF r
  <2> QED  BY <2>1, <1>4 DEF Pieces
<1> DEFINE e == [i \in 0 .. m |-> f[m - i]]
<1>6. e \in [0 .. m -> a .. b] /\ e[0] = b /\ e[m] = a
  <2>1. \A i \in 0 .. m : m - i \in 0 .. m
    OBVIOUS
  <2> QED  BY <2>1, <1>2
<1>7. ASSUME NEW i \in 1 .. m PROVE e[i] <= e[i - 1] /\ r[i] = << e[i], e[i - 1] - e[i] >>
  <2>1. PICK j \in 1 .. m : j = (m - i) + 1 /\ j - 1 = m - i /\ j = m - (i - 1)
    OBVIOUS
  <2>2. e[i] = f[j - 1] /\ e[i - 1] = f[j]
    BY <2>1
  <2>3. r[i] = p[j]
    BY <1>4, <2>1
  <2> HIDE DEF e, r
  <2> QED  BY <2>2, <2>3, <1>2
<1> HIDE DEF e, r
<1>8. Falls(r, b, a)
  BY <1>5, <1>6, <1>7 DEF Falls
<1> QED  BY <1>8 DEF r

\* The memory after i rounds of moves, in closed form.
Rounds(g, mem, d, s, p, m) ==
    /\ g = [i \in 0 .. m |-> g[i]] /\ g[0] = mem
    /\ \A i \in 1 .. m : g[i] = Move(g[i - 1], d + p[i][1], s + p[i][1], p[i][2])

LEMMA MovesAre ==
    ASSUME NEW mem, NEW d, NEW s, NEW p \in Pieces, NEW g, Rounds(g, mem, d, s, p, Len(p))
    PROVE  Moves(mem, d, s, p) = g[Len(p)]
<1>1. PICK m \in Nat : m = Len(p)
  BY DEF Pieces
<1> DEFINE moved == CHOOSE f : f = [i \in 0 .. m |->
               IF i = 0 THEN mem ELSE Move(f[i - 1], d + p[i][1], s + p[i][1], p[i][2])]
<1>2. Moves(mem, d, s, p) = moved[m]
  BY <1>1 DEF Moves
<1>3. g = [i \in 0 .. m |->
               IF i = 0 THEN mem ELSE Move(g[i - 1], d + p[i][1], s + p[i][1], p[i][2])]
  <2>1. \A i \in 0 .. m : i # 0 => i \in 1 .. m
    OBVIOUS
  <2>2. \A i \in 0 .. m : g[i] =
            IF i = 0 THEN mem ELSE Move(g[i - 1], d + p[i][1], s + p[i][1], p[i][2])
    BY <1>1, <2>1 DEF Rounds
  <2> QED  BY <1>1, <2>2 DEF Rounds
<1>4. moved = [i \in 0 .. m |->
               IF i = 0 THEN mem ELSE Move(moved[i - 1], d + p[i][1], s + p[i][1], p[i][2])]
  BY <1>3
<1> HIDE DEF moved
<1>5. moved[0] = g[0]
  BY <1>4 DEF Rounds
<1>6. ASSUME NEW i \in 1 .. m, moved[i - 1] = g[i - 1] PROVE moved[i] = g[i]
  <2>1. i \in 0 .. m /\ i # 0
    OBVIOUS
  <2>2. moved[i] = Move(moved[i - 1], d + p[i][1], s + p[i][1], p[i][2])
    BY <1>4, <2>1
  <2> QED  BY <2>2, <1>1, <1>6 DEF Rounds
<1>7. \A i \in 0 .. m : moved[i] = g[i]
  <2>1. Alike(moved, g, m)
    BY <1>5, <1>6 DEF Alike
  <2> QED  BY <2>1, Unique
<1>8. m \in 0 .. m
  OBVIOUS
<1> QED  BY <1>1, <1>2, <1>7, <1>8

\* A memory, and two ranges in it.
InMemory(mem, d, s, n) ==
    /\ mem = [a \in DOMAIN mem |-> mem[a]]
    /\ d \in Nat /\ s \in Nat /\ n \in Nat
    /\ d .. d + n - 1 \subseteq DOMAIN mem /\ s .. s + n - 1 \subseteq DOMAIN mem

LEMMA MoveNothing ==
    ASSUME NEW mem, NEW d, NEW s, NEW n, InMemory(mem, d, s, n)
    PROVE  Move(mem, d, s, 0) = mem /\ (d = s => Move(mem, d, s, n) = mem)
<1>1. d \in Nat /\ s \in Nat /\ n \in Nat /\ mem = [a \in DOMAIN mem |-> mem[a]]
  BY DEF InMemory
<1>2. \A a \in DOMAIN mem : ~(a \in d .. d + 0 - 1)
  BY <1>1
<1>3. Move(mem, d, s, 0) = mem
  BY <1>1, <1>2 DEF Move
<1>4. d = s => \A a \in d .. d + n - 1 : s + a - d = a
  BY <1>1
<1>5. d = s => Move(mem, d, s, n) = mem
  BY <1>1, <1>4 DEF Move
<1> QED  BY <1>3, <1>5

LEMMA MoveUp ==
    ASSUME NEW mem, NEW d, NEW s, NEW n, InMemory(mem, d, s, n),
           d <= s \/ s + n <= d,
           NEW o \in Nat, NEW k \in Nat, o + k <= n
    PROVE  Move(Move(mem, d, s, o), d + o, s + o, k) = Move(mem, d, s, o + k)
<1>1. d \in Nat /\ s \in Nat /\ n \in Nat
  BY DEF InMemory
<1> DEFINE h == Move(mem, d, s, o)
<1>2. DOMAIN h = DOMAIN mem
  BY DEF Move
<1>3. \A a \in DOMAIN mem : h[a] = IF a \in d .. d + o - 1 THEN mem[s + a - d] ELSE mem[a]
  BY DEF Move
<1> HIDE DEF h
<1>4. ASSUME NEW a \in DOMAIN mem
      PROVE  (IF a \in d + o .. d + o + k - 1 THEN h[s + o + a - (d + o)] ELSE h[a])
                 = IF a \in d .. d + (o + k) - 1 THEN mem[s + a - d] ELSE mem[a]
  <2>1. CASE a \in d + o .. d + o + k - 1
    <3>1. PICK b \in Int : b = s + a - d /\ b = s + o + a - (d + o)
      BY <2>1, <1>1
    <3>2. b \in s .. s + n - 1
      BY <2>1, <3>1, <1>1
    <3>3. b \in DOMAIN mem
      BY <3>2 DEF InMemory
    <3>4. IF b \in d .. d + o - 1 THEN b = s + b - d ELSE TRUE
      <4>1. SUFFICES ASSUME b \in d .. d + o - 1 PROVE b = s + b - d
        OBVIOUS
      <4>2. d = s
        BY <4>1, <3>1, <2>1, <1>1
      <4> QED  BY <4>2, <3>1, <1>1
    <3>5. h[b] = mem[b]
      BY <3>3, <3>4, <1>3
    <3>6. a \in d .. d + (o + k) - 1
      BY <2>1, <1>1
    <3> QED  BY <2>1, <3>1, <3>5, <3>6
  <2>2. CASE a \in d .. d + o - 1
    <3>1. ~(a \in d + o .. d + o + k - 1) /\ a \in d .. d + (o + k) - 1
      BY <2>2, <1>1
    <3> QED  BY <2>2, <3>1, <1>3
  <2>3. CASE ~(a \in d + o .. d + o + k - 1) /\ ~(a \in d .. d + o - 1)
    <3>1. ~(a \in d .. d + (o + k) - 1)
      BY <2>3, <1>1
    <3> QED  BY <2>3, <3>1, <1>3
  <2> QED  BY <2>1, <2>2, <2>3
<1>5. Move(h, d + o, s + o, k) = Move(mem, d, s, o + k)
  BY <1>2, <1>4, Zenon DEF Move
<1> QED  BY <1>5 DEF h

\* r bytes are still to be moved before, r - k after.
LEMMA MoveDown ==
    ASSUME NEW mem, NEW d, NEW s, NEW n, InMemory(mem, d, s, n), s <= d,
           NEW q \in Nat, NEW r \in Nat, q <= r, r <= n
    PROVE  Move(Move(mem, d + r, s + r, n - r), d + q, s + q, r - q) = Move(mem, d + q, s + q, n - q)
<1>1. d \in Nat /\ s \in Nat /\ n \in Nat
  BY DEF InMemory
<1> DEFINE h == Move(mem, d + r, s + r, n - r)
<1>2. DOMAIN h = DOMAIN mem
  BY DEF Move
<1>3. \A a \in DOMAIN mem :
          h[a] = IF a \in d + r .. d + r + (n - r) - 1 THEN mem[s + r + a - (d + r)] ELSE mem[a]
  BY DEF Move
<1> HIDE DEF h
<1>4. ASSUME NEW a \in DOMAIN mem
      PROVE  (IF a \in d + q .. d + q + (r - q) - 1 THEN h[s + q + a - (d + q)] ELSE h[a])
                 = IF a \in d + q .. d + q + (n - q) - 1 THEN mem[s + q + a - (d + q)] ELSE mem[a]
  <2>1. CASE a \in d + q .. d + q + (r - q) - 1
    <3>1. PICK b \in Int : b = s + q + a - (d + q)
      BY <2>1, <1>1
    <3>2. b \in s .. s + n - 1
      BY <2>1, <3>1, <1>1
    <3>3. b \in DOMAIN mem
      BY <3>2 DEF InMemory
    <3>4. ~(b \in d + r .. d + r + (n - r) - 1)
      BY <2>1, <3>1, <1>1
    <3>5. h[b] = mem[b]
      BY <3>3, <3>4, <1>3
    <3>6. a \in d + q .. d + q + (n - q) - 1
      BY <2>1, <1>1
    <3> QED  BY <2>1, <3>1, <3>5, <3>6
  <2>2. CASE a \in d + r .. d + r + (n - r) - 1
    <3>1. /\ ~(a \in d + q .. d + q + (r - q) - 1) /\ a \in d + q .. d + q + (n - q) - 1
          /\ s + r + a - (d + r) = s + q + a - (d + q)
      BY <2>2, <1>1
    <3> QED  BY <2>2, <3>1, <1>3
  <2>3. CASE ~(a \in d + q .. d + q + (r - q) - 1) /\ ~(a \in d + r .. d + r + (n - r) - 1)
    <3>1. ~(a \in d + q .. d + q + (n - q) - 1)
      BY <2>3, <1>1
    <3> QED  BY <2>3, <3>1, <1>3
  <2> QED  BY <2>1, <2>2, <2>3
<1>5. Move(h, d + q, s + q, r - q) = Move(mem, d + q, s + q, n - q)
  BY <1>2, <1>4, Zenon DEF Move
<1> QED  BY <1>5 DEF h

\* Pieces that climb move the whole range where the destination does not
\* start inside the source; pieces that fall where it is not below it.
LEMMA Climbing ==
    ASSUME NEW mem, NEW d, NEW s, NEW n, InMemory(mem, d, s, n),
           d <= s \/ s + n <= d, NEW p, Climbs(p, 0, n)
    PROVE  Moves(mem, d, s, p) = Move(mem, d, s, n)
<1>1. d \in Nat /\ s \in Nat /\ n \in Nat
  BY DEF InMemory
<1>2. PICK m \in Nat : m = Len(p) /\ p \in Pieces
  BY DEF Climbs, Pieces
<1>3. PICK e \in [0 .. m -> 0 .. n] :
          /\ e[0] = 0 /\ e[m] = n
          /\ \A i \in 1 .. m : e[i - 1] <= e[i] /\ p[i] = << e[i - 1], e[i] - e[i - 1] >>
  BY <1>2 DEF Climbs
<1> DEFINE g == [i \in 0 .. m |-> Move(mem, d, s, e[i])]
<1>4. ASSUME NEW i \in 1 .. m
      PROVE  g[i] = Move(g[i - 1], d + p[i][1], s + p[i][1], p[i][2])
  <2>1. PICK o \in Nat, k \in Nat : o = e[i - 1] /\ o + k = e[i] /\ k = e[i] - e[i - 1] /\ o + k <= n
    <3>1. e[i - 1] \in 0 .. n /\ e[i] \in 0 .. n /\ e[i - 1] <= e[i]
      BY <1>3
    <3>2. PICK o, c : o = e[i - 1] /\ c = e[i]
      OBVIOUS
    <3>3. o \in Nat /\ c - o \in Nat /\ o + (c - o) = c /\ c <= n
      BY <3>1, <3>2, <1>1
    <3> QED  BY <3>2, <3>3
  <2>2. p[i] = << o, k >>
    BY <2>1, <1>3
  <2>3. g[i - 1] = Move(mem, d, s, o) /\ g[i] = Move(mem, d, s, o + k)
    BY <2>1
  <2>4. Move(Move(mem, d, s, o), d + o, s + o, k) = Move(mem, d, s, o + k)
    <3>1. o \in Nat /\ k \in Nat /\ o + k <= n
      BY <2>1
    <3> QED  BY <3>1, MoveUp
  <2> HIDE DEF g
  <2> QED  BY <2>2, <2>3, <2>4
<1>5. g[0] = mem /\ g[m] = Move(mem, d, s, n)
  BY <1>3, MoveNothing
<1>6. g = [i \in 0 .. m |-> g[i]]
  OBVIOUS
<1> HIDE DEF g
<1>7. Moves(mem, d, s, p) = g[Len(p)]
  <2>1. Rounds(g, mem, d, s, p, m)
    BY <1>4, <1>5, <1>6 DEF Rounds
  <2> QED  BY <1>2, <2>1, MovesAre
<1> QED  BY <1>2, <1>5, <1>7

LEMMA Falling ==
    ASSUME NEW mem, NEW d, NEW s, NEW n, InMemory(mem, d, s, n), s <= d, NEW p, Falls(p, n, 0)
    PROVE  Moves(mem, d, s, p) = Move(mem, d, s, n)
<1>1. d \in Nat /\ s \in Nat /\ n \in Nat
  BY DEF InMemory
<1>2. PICK m \in Nat : m = Len(p) /\ p \in Pieces
  BY DEF Falls, Pieces
<1>3. PICK e \in [0 .. m -> 0 .. n] :
          /\ e[0] = n /\ e[m] = 0
          /\ \A i \in 1 .. m : e[i] <= e[i - 1] /\ p[i] = << e[i], e[i - 1] - e[i] >>
  BY <1>2 DEF Falls
<1> DEFINE g == [i \in 0 .. m |-> Move(mem, d + e[i], s + e[i], n - e[i])]
<1>4. ASSUME NEW i \in 1 .. m
      PROVE  g[i] = Move(g[i - 1], d + p[i][1], s + p[i][1], p[i][2])
  <2>1. PICK q, r : q = e[i] /\ r = e[i - 1]
    OBVIOUS
  <2>2. q \in Nat /\ r \in Nat /\ q <= r /\ r <= n
    <3>1. e[i - 1] \in 0 .. n /\ e[i] \in 0 .. n /\ e[i] <= e[i - 1]
      BY <1>3
    <3> QED  BY <3>1, <2>1, <1>1
  <2>3. p[i] = << q, r - q >>
    BY <2>1, <1>3
  <2>4. g[i - 1] = Move(mem, d + r, s + r, n - r) /\ g[i] = Move(mem, d + q, s + q, n - q)
    BY <2>1
  <2>5. Move(Move(mem, d + r, s + r, n - r), d + q, s + q, r - q)
            = Move(mem, d + q, s + q, n - q)
    BY <2>2, MoveDown
  <2> HIDE DEF g
  <2> QED  BY <2>3, <2>4, <2>5
<1>5. g[0] = mem
  <2>1. InMemory(mem, d + n, s + n, 0)
    BY <1>1 DEF InMemory
  <2>2. Move(mem, d + n, s + n, 0) = mem
    BY <2>1, MoveNothing
  <2>3. n - n = 0
    BY <1>1
  <2> QED  BY <1>3, <2>2, <2>3
<1>6. g[m] = Move(mem, d, s, n)
  <2>1. d + 0 = d /\ s + 0 = s /\ n - 0 = n
    BY <1>1
  <2> QED  BY <2>1, <1>3
<1>7. g = [i \in 0 .. m |-> g[i]]
  OBVIOUS
<1> HIDE DEF g
<1>8. Moves(mem, d, s, p) = g[Len(p)]
  <2>1. Rounds(g, mem, d, s, p, m)
    BY <1>4, <1>5, <1>7 DEF Rounds
  <2> QED  BY <1>2, <2>1, MovesAre
<1> QED  BY <1>2, <1>6, <1>8

\* The pieces of kmemmove cover the range, upwards or downwards.
LEMMA HeadIs ==
    ASSUME NEW a \in Nat, NEW n \in Nat
    PROVE  Unaligned(a, n) \in 0 .. n
<1>1. PICK w \in Nat \ {0} : w = Word
  BY MemoryAssumption
<1>2. PICK r \in Nat : r = a % w /\ r < w
  BY DivNat
<1>3. (w - r) % w \in Nat
  <2>1. w - r \in Nat
    BY <1>2
  <2> QED  BY <2>1, DivNat
<1> QED  BY <1>1, <1>2, <1>3 DEF Unaligned, Least

LEMMA Divided ==
    ASSUME NEW n \in Nat, NEW h \in 0 .. n, NEW whole, whole = (n - h) \div Word
    PROVE  /\ whole \in Nat /\ whole * Word \in Nat
           /\ n - h - whole * Word \in Nat /\ n - h - whole * Word < Word
<1>1. PICK w \in Nat \ {0} : w = Word
  BY MemoryAssumption
<1>2. PICK r \in Nat : r = n - h
  OBVIOUS
<1>3. whole \in Nat /\ r % w \in Nat /\ r % w < w /\ r = whole * w + (r % w)
  BY <1>1, <1>2, DivNat, DivMod
<1>4. PICK b \in Nat : b = whole * w
  BY <1>3, Times
<1> QED  BY <1>1, <1>2, <1>3, <1>4

LEMMA UpwardsClimb ==
    ASSUME NEW d \in Nat, NEW n \in Nat
    PROVE  Climbs(Upwards(d, n), 0, n)
<1>1. PICK head \in 0 .. n : head = Unaligned(d, n)
  BY HeadIs
<1>2. PICK whole : whole = (n - head) \div Word
  OBVIOUS
<1>3. PICK b : b = whole * Word
  OBVIOUS
<1>4. whole \in Nat /\ b \in Nat /\ n - head - b \in Nat
  BY <1>2, <1>3, Divided
<1>5. Upwards(d, n) =
          (Bytes(0, head) \o Words(head, whole)) \o Bytes(head + b, n - head - b)
  BY <1>1, <1>2, <1>3 DEF Upwards
<1>6. Climbs(Bytes(0, head), 0, head)
  <2>1. Climbs(Bytes(0, head), 0, 0 + head)
    BY BytesClimb
  <2> QED  BY <2>1
<1>7. Climbs(Words(head, whole), head, head + b)
  BY <1>3, <1>4, WordsClimb
<1>8. Climbs(Bytes(head + b, n - head - b), head + b, n)
  <2>1. head + b \in Nat /\ head + b + (n - head - b) = n
    BY <1>4
  <2>2. Climbs(Bytes(head + b, n - head - b), head + b, head + b + (n - head - b))
    BY <2>1, <1>4, BytesClimb
  <2> QED  BY <2>1, <2>2
<1>9. head \in Nat /\ head + b \in Nat /\ 0 <= head /\ head <= head + b /\ head + b <= n
  BY <1>4
<1>10. Climbs(Bytes(0, head) \o Words(head, whole), 0, head + b)
  BY <1>6, <1>7, <1>9, ClimbOn
<1>11. Climbs((Bytes(0, head) \o Words(head, whole)) \o Bytes(head + b, n - head - b), 0, n)
  <2>1. 0 \in Nat /\ 0 <= head + b
    BY <1>9
  <2> QED  BY <2>1, <1>8, <1>9, <1>10, ClimbOn
<1> QED  BY <1>5, <1>11

LEMMA DownwardsFall ==
    ASSUME NEW d \in Nat, NEW n \in Nat
    PROVE  Falls(Downwards(d, n), n, 0)
<1>1. PICK tail \in 0 .. n : tail = Least((d + n) % Word, n)
  <2>1. (d + n) % Word \in Nat
    BY MemoryAssumption, DivNat
  <2>2. Least((d + n) % Word, n) \in 0 .. n
    BY <2>1 DEF Least
  <2> QED  BY <2>2
<1>2. PICK whole : whole = (n - tail) \div Word
  OBVIOUS
<1>3. PICK b : b = whole * Word
  OBVIOUS
<1>4. whole \in Nat /\ b \in Nat /\ n - tail - b \in Nat
  BY <1>2, <1>3, Divided
<1>5. PICK rest \in Nat : rest = n - tail - b
  BY <1>4
<1>6. Downwards(d, n) =
          (Reverse(Bytes(n - tail, tail)) \o Reverse(Words(rest, whole))) \o Reverse(Bytes(0, rest))
  BY <1>1, <1>2, <1>3, <1>5 DEF Downwards
<1>7. Falls(Reverse(Bytes(n - tail, tail)), n, n - tail)
  <2>1. PICK m \in Nat : m = n - tail /\ m + tail = n
    OBVIOUS
  <2>2. Climbs(Bytes(m, tail), m, m + tail)
    BY <2>1, BytesClimb
  <2>3. Climbs(Bytes(m, tail), m, n)
    BY <2>1, <2>2
  <2>4. Falls(Reverse(Bytes(m, tail)), n, m)
    BY <2>3, TurnRound
  <2> QED  BY <2>1, <2>4
<1>8. Falls(Reverse(Words(rest, whole)), n - tail, rest)
  <2>1. PICK m \in Nat : m = n - tail /\ m = rest + b
    BY <1>4, <1>5
  <2>2. Climbs(Words(rest, whole), rest, m)
    BY <2>1, <1>3, <1>4, WordsClimb
  <2>3. Falls(Reverse(Words(rest, whole)), m, rest)
    BY <2>2, TurnRound
  <2> QED  BY <2>1, <2>3
<1>9. Falls(Reverse(Bytes(0, rest)), rest, 0)
  <2>1. Climbs(Bytes(0, rest), 0, 0 + rest)
    BY BytesClimb
  <2>2. Climbs(Bytes(0, rest), 0, rest)
    BY <2>1
  <2> QED  BY <2>2, TurnRound
<1>10. n - tail \in Nat /\ n >= n - tail /\ n - tail >= rest /\ rest >= 0
  BY <1>4, <1>5
<1>11. Falls(Reverse(Bytes(n - tail, tail)) \o Reverse(Words(rest, whole)), n, rest)
  BY <1>7, <1>8, <1>10, FallOn
<1>12. Falls((Reverse(Bytes(n - tail, tail)) \o Reverse(Words(rest, whole))) \o
                 Reverse(Bytes(0, rest)), n, 0)
  <2>1. 0 \in Nat /\ n >= rest
    BY <1>10
  <2> QED  BY <2>1, <1>9, <1>10, <1>11, FallOn
<1> QED  BY <1>6, <1>12

LEMMA ByteByByte ==
    ASSUME NEW n \in Nat
    PROVE  Climbs(Bytes(0, n), 0, n) /\ Falls(Reverse(Bytes(0, n)), n, 0)
<1>1. Climbs(Bytes(0, n), 0, 0 + n)
  BY BytesClimb
<1>2. Climbs(Bytes(0, n), 0, n)
  BY <1>1
<1> QED  BY <1>2, TurnRound

LEMMA MoveIs ==
    ASSUME NEW mem, NEW d, NEW s, NEW n, InMemory(mem, d, s, n)
    PROVE  kmemmove(mem, d, s, n) = Move(mem, d, s, n)
<1>1. d \in Nat /\ s \in Nat /\ n \in Nat
  BY DEF InMemory
<1>2. CASE s = d
  BY <1>2, MoveNothing DEF kmemmove
<1>3. CASE s # d /\ (s + n <= d \/ d + n <= s)
  <2>1. d <= s \/ s + n <= d
    BY <1>3, <1>1
  <2>2. Moves(mem, d, s, Bytes(0, n)) = Move(mem, d, s, n)
    BY <2>1, <1>1, ByteByByte, Climbing
  <2> QED  BY <2>2, <1>3 DEF kmemmove, kmemcpy
<1>4. CASE s # d /\ ~(s + n <= d \/ d + n <= s)
  <2> DEFINE p == CASE d < s /\ s % Word = d % Word    -> Upwards(d, n)
                    [] d < s /\ ~(s % Word = d % Word) -> Bytes(0, n)
                    [] d > s /\ s % Word = d % Word    -> Downwards(d, n)
                    [] OTHER -> Reverse(Bytes(0, n))
  <2>1. kmemmove(mem, d, s, n) = Moves(mem, d, s, p)
    BY <1>4 DEF kmemmove
  <2>2. CASE d < s
    <3>1. p = Upwards(d, n) \/ p = Bytes(0, n)
      BY <2>2, <1>1
    <3> HIDE DEF p
    <3>2. Climbs(p, 0, n)
      BY <3>1, <1>1, UpwardsClimb, ByteByByte
    <3>3. d <= s
      BY <2>2, <1>1
    <3>4. Moves(mem, d, s, p) = Move(mem, d, s, n)
      BY <3>2, <3>3, Climbing
    <3> QED  BY <2>1, <3>4
  <2>3. CASE ~(d < s)
    <3>1. p = Downwards(d, n) \/ p = Reverse(Bytes(0, n))
      BY <2>3, <1>1
    <3> HIDE DEF p
    <3>2. Falls(p, n, 0)
      BY <3>1, <1>1, DownwardsFall, ByteByByte
    <3>3. s <= d
      BY <2>3, <1>1
    <3>4. Moves(mem, d, s, p) = Move(mem, d, s, n)
      BY <3>2, <3>3, Falling
    <3> QED  BY <2>1, <3>4
  <2> QED  BY <2>2, <2>3
<1> QED  BY <1>2, <1>3, <1>4

\* Where the destination starts inside the source, kmemcpy repeats the bytes
\* before it.
LEMMA CopyRepeats ==
    ASSUME NEW mem, NEW d, NEW s, NEW n, InMemory(mem, d, s, n),
           NEW gap \in Nat \ {0}, gap = d - s, gap < n
    PROVE  kmemcpy(mem, d, s, n) =
               [a \in DOMAIN mem |-> IF a \in d .. d + n - 1 THEN mem[s + ((a - d) % gap)] ELSE mem[a]]
<1>1. d \in Nat /\ s \in Nat /\ n \in Nat /\ mem = [a \in DOMAIN mem |-> mem[a]] /\ d = s + gap
  BY DEF InMemory
<1>2. PICK p \in Pieces : p = Bytes(0, n)
  BY <1>1, BytesClimb DEF Climbs
<1>3. Len(p) = n
  BY <1>1, <1>2, BytesClimb
<1>4. ASSUME NEW i \in 1 .. n PROVE p[i] = << i - 1, 1 >>
  BY <1>1, <1>2 DEF Bytes
<1> DEFINE g == [i \in 0 .. n |->
        [a \in DOMAIN mem |-> IF a \in d .. d + i - 1 THEN mem[s + ((a - d) % gap)] ELSE mem[a]]]
<1>5. ASSUME NEW i \in 1 .. n
      PROVE  g[i] = Move(g[i - 1], d + p[i][1], s + p[i][1], p[i][2])
  <2>1. PICK j \in Nat : j = i - 1 /\ i = j + 1 /\ j < n
    BY <1>1
  <2>2. p[i][1] = j /\ p[i][2] = 1
    BY <2>1, <1>4
  <2> DEFINE h == g[j]
  <2>3. /\ DOMAIN h = DOMAIN mem
        /\ \A a \in DOMAIN mem :
               h[a] = IF a \in d .. d + j - 1 THEN mem[s + ((a - d) % gap)] ELSE mem[a]
    <3>1. j \in 0 .. n
      BY <2>1, <1>1
    <3>2. h = [a \in DOMAIN mem |->
            IF a \in d .. d + j - 1 THEN mem[s + ((a - d) % gap)] ELSE mem[a]]
      BY <3>1, Zenon
    <3> HIDE DEF h
    <3> QED  BY <3>2, Zenon
  <2> HIDE DEF h
  <2>4. s + j \in DOMAIN mem
    <3>1. s + j \in s .. s + n - 1
      BY <2>1, <1>1
    <3> QED  BY <3>1 DEF InMemory
  <2>5. h[s + j] = mem[s + (j % gap)]
    <3>1. CASE j < gap
      <4>1. j % gap = j
        BY <3>1, Small
      <4>2. ~(s + j \in d .. d + j - 1)
        BY <3>1, <1>1
      <4> QED  BY <4>1, <4>2, <2>3, <2>4
    <3>2. CASE ~(j < gap)
      <4>1. PICK b \in Nat : b = j - gap /\ j = 1 * gap + b
        BY <3>2
      <4>2. j % gap = b % gap
        <5>1. PICK one \in Nat : one = 1
          OBVIOUS
        <5>2. (one * gap + b) % gap = b % gap
          BY QuotientShift
        <5>3. one * gap + b = j
          BY <5>1, <4>1
        <5> QED  BY <5>2, <5>3
      <4>3. s + j \in d .. d + j - 1 /\ (s + j) - d = b
        BY <3>2, <4>1, <1>1
      <4> QED  BY <4>2, <4>3, <2>3, <2>4
    <3> QED  BY <3>1, <3>2
  <2>6. ASSUME NEW a \in DOMAIN mem
        PROVE  (IF a \in d .. d + i - 1 THEN mem[s + ((a - d) % gap)] ELSE mem[a])
                   = IF a \in d + j .. d + j + 1 - 1 THEN h[s + j + a - (d + j)] ELSE h[a]
    <3>1. CASE a = d + j
      <4>1. /\ a \in d .. d + i - 1 /\ a \in d + j .. d + j + 1 - 1
            /\ a - d = j /\ s + j + a - (d + j) = s + j
        <5>1. d \in Nat /\ s \in Nat /\ n \in Nat
          BY <1>1
        <5> QED  BY <5>1, <3>1, <2>1
      <4> QED  BY <4>1, <2>5
    <3>2. CASE a # d + j
      <4>1. ~(a \in d + j .. d + j + 1 - 1)
        BY <3>2, <1>1, <2>1
      <4>2. a \in d .. d + i - 1 <=> a \in d .. d + j - 1
        BY <3>2, <1>1, <2>1
      <4> QED  BY <4>1, <4>2, <2>3
    <3> QED  BY <3>1, <3>2
  <2>7. g[i] = [a \in DOMAIN mem |->
            IF a \in d .. d + i - 1 THEN mem[s + ((a - d) % gap)] ELSE mem[a]]
    OBVIOUS
  <2>8. Move(h, d + j, s + j, 1) = [a \in DOMAIN mem |->
            IF a \in d + j .. d + j + 1 - 1 THEN h[s + j + a - (d + j)] ELSE h[a]]
    BY <2>3 DEF Move
  <2>9. g[i] = Move(h, d + j, s + j, 1)
    <3> HIDE DEF g
    <3> QED  BY <2>6, <2>7, <2>8, Zenon
  <2> QED  BY <2>9, <2>1, <2>2 DEF h
<1>6. g[0] = mem
  <2>1. \A a \in DOMAIN mem : ~(a \in d .. d + 0 - 1)
    BY <1>1
  <2>2. g[0] = [a \in DOMAIN mem |->
            IF a \in d .. d + 0 - 1 THEN mem[s + ((a - d) % gap)] ELSE mem[a]]
    BY <1>1
  <2> HIDE DEF g
  <2> QED  BY <2>1, <2>2, <1>1
<1>7. g[n] = [a \in DOMAIN mem |->
            IF a \in d .. d + n - 1 THEN mem[s + ((a - d) % gap)] ELSE mem[a]]
  BY <1>1
<1>8. g = [i \in 0 .. n |-> g[i]]
  OBVIOUS
<1> HIDE DEF g
<1>9. Rounds(g, mem, d, s, p, Len(p))
  BY <1>3, <1>5, <1>6, <1>8 DEF Rounds
<1>10. Moves(mem, d, s, p) = g[n]
  BY <1>3, <1>9, MovesAre
<1> QED  BY <1>2, <1>7, <1>10 DEF kmemcpy

LEMMA CopyIs ==
    ASSUME NEW d, NEW s, NEW n, InMemory(Distinct, d, s, n)
    PROVE  kmemcpy(Distinct, d, s, n) = Move(Distinct, d, s, n) <=> ~(d \in s + 1 .. s + n - 1)
<1>1. d \in Nat /\ s \in Nat /\ n \in Nat
  BY DEF InMemory
<1>2. CASE ~(d \in s + 1 .. s + n - 1)
  <2>1. d <= s \/ s + n <= d
    BY <1>2, <1>1
  <2>2. Moves(Distinct, d, s, Bytes(0, n)) = Move(Distinct, d, s, n)
    BY <2>1, <1>1, ByteByByte, Climbing
  <2> QED  BY <2>2, <1>2 DEF kmemcpy
<1>3. CASE d \in s + 1 .. s + n - 1
  <2>1. PICK gap \in Nat \ {0} : gap = d - s /\ gap < n /\ d = s + gap
    BY <1>1, <1>3
  <2>2. kmemcpy(Distinct, d, s, n) =
            [a \in DOMAIN Distinct |->
                IF a \in d .. d + n - 1 THEN Distinct[s + ((a - d) % gap)] ELSE Distinct[a]]
    BY <2>1, CopyRepeats
  <2>3. PICK a : a = d + gap
    OBVIOUS
  <2>4. a \in d .. d + n - 1 /\ a - d = gap /\ s + a - d = d
    BY <2>1, <2>3, <1>1
  <2>5. a \in DOMAIN Distinct
    BY <2>4 DEF InMemory
  <2>6. gap % gap = 0
    <3>1. (1 * gap + 0) % gap = 0
      BY Quotient
    <3> QED  BY <3>1
  <2>7. kmemcpy(Distinct, d, s, n)[a] = Distinct[s]
    <3>1. kmemcpy(Distinct, d, s, n)[a] = Distinct[s + ((a - d) % gap)]
      BY <2>2, <2>4, <2>5, Zenon
    <3>2. (a - d) % gap = 0
      BY <2>4, <2>6, Zenon
    <3>3. s + 0 = s
      BY <1>1
    <3> QED  BY <3>1, <3>2, <3>3, Zenon
  <2>8. Move(Distinct, d, s, n)[a] = Distinct[d]
    BY <2>4, <2>5 DEF Move
  <2>9. s \in s .. s + n - 1 /\ d \in d .. d + n - 1
    BY <2>1, <1>1
  <2>10. s \in DOMAIN Distinct /\ d \in DOMAIN Distinct
    BY <2>9 DEF InMemory
  <2>11. Distinct[s] # Distinct[d]
    BY <2>10, <2>1, <1>1 DEF Distinct
  <2> QED  BY <2>7, <2>8, <2>11, <1>3
<1> QED  BY <1>2, <1>3

-----------------------------------------------------------------------------
(* Searching.                                                              *)

LEMMA FirstThere ==
    ASSUME NEW n \in Nat, NEW T
    PROVE  \E i \in 0 .. n : (i = n \/ i \in T) /\ \A j \in 0 .. i - 1 : j \notin T
<1> DEFINE U == { i \in 0 .. n : i = n \/ i \in T }
<1>1. U \in SUBSET Nat /\ n \in U
  OBVIOUS
<1>2. PICK i \in U : \A j \in U : i <= j
  <2> HIDE DEF U
  <2>1. U # {}
    BY <1>1
  <2> QED  BY <1>1, <2>1, LeastOf
<1>3. ASSUME NEW j \in 0 .. i - 1 PROVE j \notin T
  BY <1>2
<1> QED  BY <1>2, <1>3

LEMMA RepeatsAre ==
    /\ DOMAIN Repeats = 0 .. MemSize - 1
    /\ \A a \in DOMAIN Repeats : Repeats[a] \in 0 .. 6
<1>1. ASSUME NEW a \in Nat PROVE (a * a) % 7 \in 0 .. 6
  <2>1. PICK b \in Nat : b = a * a
    BY Times
  <2>2. b % 7 \in 0 .. 6
    OBVIOUS
  <2> QED  BY <2>1, <2>2
<1>2. DOMAIN Repeats = 0 .. MemSize - 1
  BY DEF Repeats
<1>3. ASSUME NEW a \in 0 .. MemSize - 1 PROVE Repeats[a] \in 0 .. 6
  <2>1. Repeats[a] = (a * a) % 7 /\ a \in Nat
    BY DEF Repeats
  <2> QED  BY <2>1, <1>1
<1> QED  BY <1>2, <1>3

LEMMA CompareIs ==
    ASSUME NEW a \in Nat, NEW b \in Nat, NEW n \in Nat,
           a .. a + n - 1 \subseteq DOMAIN Repeats, b .. b + n - 1 \subseteq DOMAIN Repeats
    PROVE  kmemcmp(Repeats, a, b, n) = 0 <=> \A i \in 0 .. n - 1 : Repeats[a + i] = Repeats[b + i]
<1> DEFINE P(j) == Repeats[a + j] # Repeats[b + j]
<1> DEFINE i == CHOOSE i \in 0 .. n : (i = n \/ P(i)) /\ \A j \in 0 .. i - 1 : ~P(j)
<1>1. \E k \in 0 .. n : (k = n \/ P(k)) /\ \A j \in 0 .. k - 1 : ~P(j)
  <2> DEFINE T == { j \in 0 .. n : P(j) }
  <2>1. PICK k \in 0 .. n : (k = n \/ k \in T) /\ \A j \in 0 .. k - 1 : j \notin T
    BY FirstThere
  <2>2. ASSUME NEW j \in 0 .. k - 1 PROVE ~P(j)
    <3>1. j \in 0 .. n
      OBVIOUS
    <3> QED  BY <3>1, <2>1
  <2> QED  BY <2>1, <2>2
<1>2. i \in 0 .. n /\ (i = n \/ P(i)) /\ \A j \in 0 .. i - 1 : ~P(j)
  BY <1>1
<1>3. kmemcmp(Repeats, a, b, n) = IF i = n THEN 0 ELSE Repeats[a + i] - Repeats[b + i]
  BY DEF kmemcmp, FirstOf
<1> HIDE DEF i
<1>4. CASE i = n
  BY <1>2, <1>3, <1>4
<1>5. CASE i # n
  <2>1. i \in 0 .. n - 1 /\ P(i)
    BY <1>2, <1>5
  <2>2. a + i \in a .. a + n - 1 /\ b + i \in b .. b + n - 1
    BY <2>1
  <2>3. Repeats[a + i] \in Int /\ Repeats[b + i] \in Int
    BY <2>2, RepeatsAre
  <2>4. Repeats[a + i] - Repeats[b + i] # 0
    BY <2>1, <2>3
  <2> QED  BY <2>1, <2>4, <1>3, <1>5
<1> QED  BY <1>4, <1>5

\* The set of the bytes that are c, as an interval of the memory's.
Found(a, c, n) == { x \in a .. a + n - 1 : Repeats[x] = c }

LEMMA LastIs ==
    ASSUME NEW a \in Nat, NEW char, NEW n \in Nat
    PROVE  kmemrchr(Repeats, a, char, n)
               = IF Found(a, char % Byte, n) = {} THEN -1 ELSE Max(Found(a, char % Byte, n))
<1> DEFINE c == char % Byte
<1> DEFINE P(j) == Repeats[a + n - 1 - j] = c
<1> DEFINE i == CHOOSE i \in 0 .. n : (i = n \/ P(i)) /\ \A j \in 0 .. i - 1 : ~P(j)
<1>1. \E k \in 0 .. n : (k = n \/ P(k)) /\ \A j \in 0 .. k - 1 : ~P(j)
  <2> DEFINE T == { j \in 0 .. n : P(j) }
  <2>1. PICK k \in 0 .. n : (k = n \/ k \in T) /\ \A j \in 0 .. k - 1 : j \notin T
    BY FirstThere
  <2>2. ASSUME NEW j \in 0 .. k - 1 PROVE ~P(j)
    <3>1. j \in 0 .. n
      OBVIOUS
    <3> QED  BY <3>1, <2>1
  <2> QED  BY <2>1, <2>2
<1>2. i \in 0 .. n /\ (i = n \/ P(i)) /\ \A j \in 0 .. i - 1 : ~P(j)
  BY <1>1
<1>3. kmemrchr(Repeats, a, char, n) = IF i = n THEN -1 ELSE a + n - 1 - i
  BY DEF kmemrchr, FirstOf
<1> HIDE DEF i, c
<1>4. ASSUME NEW x \in Found(a, c, n) PROVE x <= a + n - 1 - i
  <2>1. x \in a .. a + n - 1 /\ Repeats[x] = c
    BY DEF Found
  <2>2. PICK j \in Nat : j = a + n - 1 - x /\ x = a + n - 1 - j
    BY <2>1
  <2>3. P(j)
    BY <2>1, <2>2
  <2>4. ~(j \in 0 .. i - 1)
    BY <2>3, <1>2
  <2> QED  BY <2>2, <2>4, <1>2
<1>5. CASE i = n
  <2>1. \A x \in Found(a, c, n) : x <= a - 1 /\ x >= a
    <3>1. a + n - 1 - n = a - 1
      OBVIOUS
    <3>2. \A x \in Found(a, c, n) : x \in a .. a + n - 1
      BY DEF Found
    <3> QED  BY <3>1, <3>2, <1>4, <1>5
  <2>2. \A x \in Found(a, c, n) : x \in Int
    BY DEF Found
  <2>3. Found(a, c, n) = {}
    BY <2>1, <2>2
  <2> QED  BY <2>3, <1>3, <1>5 DEF c
<1>6. CASE i # n
  <2>1. PICK m \in Nat : m = a + n - 1 - i
    BY <1>2, <1>6
  <2>2. m \in Found(a, c, n)
    <3>1. m \in a .. a + n - 1
      BY <2>1, <1>2, <1>6
    <3> QED  BY <3>1, <2>1, <1>2, <1>6 DEF Found
  <2>3. \A x \in Found(a, c, n) : x \in Nat /\ x <= m
    <3>1. \A x \in Found(a, c, n) : x \in Nat
      BY DEF Found
    <3> QED  BY <3>1, <1>4, <2>1
  <2>4. Max(Found(a, c, n)) = m
    BY <2>2, <2>3, MaxOf
  <2> QED  BY <2>1, <2>2, <2>4, <1>3, <1>6 DEF c
<1> QED  BY <1>5, <1>6

LEMMA MinOf ==
    ASSUME NEW S, NEW m \in S, \A n \in S : n \in Nat, \A n \in S : m <= n
    PROVE  Min(S) = m
<1>1. \E x \in S : \A y \in S : x =< y
  OBVIOUS
<1>2. Min(S) \in S /\ \A y \in S : Min(S) =< y
  BY <1>1 DEF Min
<1> QED  BY <1>2

\* A word with a byte that is zero looks like it: below its lowest zero byte
\* nothing borrows.
LEMMA ZeroSeen ==
    ASSUME NEW x \in [1 .. Word -> 0 .. Byte - 1], NEW z \in 1 .. Word, x[z] = 0
    PROVE  HasZero(x)
<1>1. PICK w \in Nat : w = Word
  BY MemoryAssumption
<1>2. PICK m \in Nat \ {0, 1} : m = Byte
  BY MemoryAssumption
<1>3. x \in [1 .. w -> Nat]
  BY <1>1, <1>2
<1>4. PICK v \in 1 .. w : x[v] = 0 /\ \A j \in 1 .. v - 1 : x[j] # 0
  <2> DEFINE T == { j \in 1 .. w : x[j] = 0 }
  <2>1. z \in T /\ T \in SUBSET Nat
    BY <1>1
  <2>2. PICK v \in T : \A y \in T : v <= y
    <3>1. T # {}
      BY <2>1
    <3> HIDE DEF T
    <3> QED  BY <2>1, <3>1, LeastOf
  <2>3. v \in 1 .. w /\ x[v] = 0
    BY <2>2
  <2>4. ASSUME NEW j \in 1 .. v - 1 PROVE x[j] # 0
    BY <2>2, <2>3
  <2> QED  BY <2>3, <2>4
<1> DEFINE borrow == CHOOSE f : f = [i \in 0 .. w |-> IF i > 0 /\ x[i] < 1 + f[i - 1] THEN 1 ELSE 0]
<1> DEFINE Owes(i) == \E j \in 1 .. i : x[j] = 0 /\ \A k \in j + 1 .. i : x[k] <= 1
<1> DEFINE b == [i \in 0 .. w |-> IF Owes(i) THEN 1 ELSE 0]
<1>5. HasZero(x) <=> \E i \in 1 .. w :
          (x[i] - 1 - borrow[i - 1]) % m >= m \div 2 /\ x[i] < m \div 2
  BY <1>1, <1>2 DEF HasZero
<1>6. b = [i \in 0 .. w |-> IF i > 0 /\ x[i] < 1 + b[i - 1] THEN 1 ELSE 0]
  <2>1. ~Owes(0)
    OBVIOUS
  <2>2. ASSUME NEW i \in 1 .. w
        PROVE  Owes(i) <=> x[i] < 1 + b[i - 1]
    <3>1. x[i] \in Nat /\ i - 1 \in 0 .. w
      <4>1. x[i] \in Nat
        BY <1>3, Zenon
      <4> QED  BY <4>1
    <3>2. b[i - 1] = IF Owes(i - 1) THEN 1 ELSE 0
      BY <3>1
    <3>3. ASSUME x[i] = 0 PROVE Owes(i)
      <4>1. \A k \in i + 1 .. i : x[k] <= 1
        OBVIOUS
      <4>2. i \in 1 .. i
        OBVIOUS
      <4> QED  BY <4>1, <4>2, <3>3
    <3>4. ASSUME x[i] = 1, Owes(i - 1) PROVE Owes(i)
      <4>1. PICK j \in 1 .. i - 1 : x[j] = 0 /\ \A k \in j + 1 .. i - 1 : x[k] <= 1
        BY <3>4
      <4>2. \A k \in j + 1 .. i : k = i \/ k \in j + 1 .. i - 1
        OBVIOUS
      <4>3. \A k \in j + 1 .. i : x[k] <= 1
        BY <4>1, <4>2, <3>4
      <4>4. j \in 1 .. i
        BY <4>1
      <4> QED  BY <4>1, <4>3, <4>4
    <3>5. ASSUME Owes(i), x[i] # 0 PROVE x[i] = 1 /\ Owes(i - 1)
      <4>1. PICK j \in 1 .. i : x[j] = 0 /\ \A k \in j + 1 .. i : x[k] <= 1
        BY <3>5
      <4>2. j \in 1 .. i - 1 /\ i \in j + 1 .. i
        BY <4>1, <3>5
      <4>3. x[i] = 1
        BY <4>1, <4>2, <3>1, <3>5
      <4>4. \A k \in j + 1 .. i - 1 : x[k] <= 1
        BY <4>1
      <4> QED  BY <4>1, <4>2, <4>3, <4>4
    <3> HIDE DEF b, Owes
    <3> QED  BY <3>1, <3>2, <3>3, <3>4, <3>5
  <2>3. ASSUME NEW i \in 0 .. w
        PROVE  b[i] = IF i > 0 /\ x[i] < 1 + b[i - 1] THEN 1 ELSE 0
    <3>1. b[i] = IF Owes(i) THEN 1 ELSE 0
      OBVIOUS
    <3>2. i > 0 => i \in 1 .. w
      OBVIOUS
    <3>3. ~(i > 0) => i = 0
      OBVIOUS
    <3> HIDE DEF b, Owes
    <3> QED  BY <2>1, <2>2, <3>1, <3>2, <3>3
  <2>4. b = [i \in 0 .. w |-> b[i]]
    OBVIOUS
  <2> HIDE DEF b
  <2> QED  BY <2>3, <2>4
<1>7. \A i \in 0 .. v - 1 : ~Owes(i)
  BY <1>4
<1>8. \A i \in 0 .. v - 1 : b[i] = 0
  <2>1. \A i \in 0 .. v - 1 : i \in 0 .. w
    BY <1>4
  <2> HIDE DEF Owes
  <2> QED  BY <2>1, <1>7
<1> HIDE DEF b, Owes
<1>9. borrow = [i \in 0 .. w |-> IF i > 0 /\ x[i] < 1 + borrow[i - 1] THEN 1 ELSE 0]
  BY <1>6
<1> HIDE DEF borrow
<1>10. \A i \in 0 .. w : borrow[i] = b[i]
  <2>1. borrow[0] = b[0]
    <3>1. borrow[0] = 0
      BY <1>9
    <3>2. b[0] = 0
      BY <1>6
    <3> QED  BY <3>1, <3>2
  <2>2. ASSUME NEW i \in 1 .. w, borrow[i - 1] = b[i - 1] PROVE borrow[i] = b[i]
    <3>1. i \in 0 .. w
      OBVIOUS
    <3>2. /\ borrow[i] = IF i > 0 /\ x[i] < 1 + borrow[i - 1] THEN 1 ELSE 0
          /\ b[i] = IF i > 0 /\ x[i] < 1 + b[i - 1] THEN 1 ELSE 0
      BY <3>1, <1>6, <1>9
    <3> QED  BY <3>2, <2>2
  <2>3. Alike(borrow, b, w)
    BY <2>1, <2>2 DEF Alike
  <2> QED  BY <2>3, Unique
<1>11. borrow[v - 1] = 0
  <2>1. v - 1 \in 0 .. w /\ v - 1 \in 0 .. v - 1
    BY <1>4
  <2> QED  BY <2>1, <1>8, <1>10
<1>12. (0 - 1 - 0) % m = m - 1
  OBVIOUS
<1>13. m - 1 >= m \div 2 /\ 0 < m \div 2
  OBVIOUS
<1>14. (x[v] - 1 - borrow[v - 1]) % m >= m \div 2 /\ x[v] < m \div 2
  BY <1>4, <1>11, <1>12, <1>13
<1> QED  BY <1>4, <1>5, <1>14

\* A byte that is c makes a zero byte of its word.
LEMMA WordSeen ==
    ASSUME NEW a \in Nat, NEW c \in 0 .. Byte - 1, NEW n \in Nat, Byte > 6,
           a .. a + n - 1 \subseteq DOMAIN Repeats,
           NEW f \in Nat, f + Word <= n, NEW e \in 0 .. Word - 1, Repeats[a + f + e] = c
    PROVE  HasZero([b \in 1 .. Word |-> ByteXor(Repeats[a + f + b - 1], c)])
<1>1. PICK w \in Nat \ {0} : w = Word
  BY MemoryAssumption
<1> DEFINE x == [b \in 1 .. w |-> ByteXor(Repeats[a + f + b - 1], c)]
<1>3. ASSUME NEW b \in 1 .. w
      PROVE  ByteXor(Repeats[a + f + b - 1], c) \in 0 .. Byte - 1
  <2>1. a + f + b - 1 \in a .. a + n - 1
    BY <1>1
  <2>2. Repeats[a + f + b - 1] \in 0 .. Byte - 1
    BY <2>1, RepeatsAre, MemoryAssumption
  <2> QED  BY <2>2, XorAssumption
<1>4. x \in [1 .. Word -> 0 .. Byte - 1]
  BY <1>1, <1>3
<1>5. PICK z \in 1 .. w : z = e + 1
  BY <1>1
<1>6. x[z] = 0
  <2>1. x[z] = ByteXor(Repeats[a + f + z - 1], c)
    OBVIOUS
  <2>2. a + f + z - 1 = a + f + e
    BY <1>5
  <2> QED  BY <2>1, <2>2, XorAssumption
<1> HIDE DEF x
<1>7. HasZero(x)
  BY <1>1, <1>4, <1>5, <1>6, ZeroSeen
<1> QED  BY <1>1, <1>7 DEF x

\* The first byte from src + s on, where none is before.
Searched(a, c, n, s, t) ==
    /\ s \in Nat /\ t \in Nat /\ s + t <= n
    /\ \A j \in 0 .. s - 1 : Repeats[a + j] # c
    /\ \A j \in 0 .. t - 1 : Repeats[a + s + j] # c
    /\ s + t = n \/ Repeats[a + s + t] = c

LEMMA FirstIs ==
    ASSUME NEW a \in Nat, NEW c, NEW n \in Nat, NEW s, NEW t, Searched(a, c, n, s, t)
    PROVE  (IF s + t = n THEN -1 ELSE a + s + t)
               = IF Found(a, c, n) = {} THEN -1 ELSE Min(Found(a, c, n))
<1>0. /\ s \in Nat /\ t \in Nat /\ s + t <= n
      /\ \A j \in 0 .. s - 1 : Repeats[a + j] # c
      /\ \A j \in 0 .. t - 1 : Repeats[a + s + j] # c
      /\ s + t = n \/ Repeats[a + s + t] = c
  BY DEF Searched
<1>1. ASSUME NEW x \in Found(a, c, n) PROVE x \in Nat /\ a + s + t <= x /\ x <= a + n - 1
  <2>1. x \in a .. a + n - 1 /\ Repeats[x] = c
    BY DEF Found
  <2>2. PICK j \in Nat : j = x - a /\ x = a + j
    BY <2>1
  <2>3. ~(j \in 0 .. s - 1)
    BY <1>0, <2>1, <2>2
  <2>4. PICK k \in Nat : k = j - s /\ x = a + s + k
    BY <1>0, <2>2, <2>3
  <2>5. ~(k \in 0 .. t - 1)
    BY <1>0, <2>1, <2>4
  <2> QED  BY <1>0, <2>1, <2>4, <2>5
<1>2. CASE s + t = n
  <2>1. Found(a, c, n) = {}
    <3>1. SUFFICES ASSUME NEW x \in Found(a, c, n) PROVE FALSE
      OBVIOUS
    <3>2. x \in Nat /\ a + s + t <= x /\ x <= a + n - 1
      BY <1>1
    <3> QED  BY <3>2, <1>0, <1>2
  <2> QED  BY <2>1, <1>2
<1>3. CASE s + t # n
  <2>1. PICK m \in Nat : m = a + s + t
    BY <1>0
  <2>2. m \in Found(a, c, n)
    <3>1. m \in a .. a + n - 1
      BY <1>0, <2>1, <1>3
    <3> QED  BY <1>0, <3>1, <2>1, <1>3 DEF Found
  <2>3. \A x \in Found(a, c, n) : x \in Nat /\ m <= x
    BY <2>1, <1>1
  <2>4. Min(Found(a, c, n)) = m
    BY <2>2, <2>3, MinOf
  <2> QED  BY <2>1, <2>2, <2>4, <1>3
<1> QED  BY <1>2, <1>3

LEMMA SearchIs ==
    ASSUME NEW a \in Nat, NEW char \in Nat, NEW n \in Nat, Byte > 6,
           a .. a + n - 1 \subseteq DOMAIN Repeats
    PROVE  kmemchr(Repeats, a, char, n)
               = IF Found(a, char % Byte, n) = {} THEN -1 ELSE Min(Found(a, char % Byte, n))
<1> DEFINE c == char % Byte
<1>1. c \in 0 .. Byte - 1
  BY MemoryAssumption
<1> DEFINE h == Unaligned(a, n)
<1> DEFINE i == CHOOSE i \in 0 .. h : (i = h \/ Repeats[a + i] = c) /\ \A j \in 0 .. i - 1 : ~(Repeats[a + j] = c)
<1> DEFINE Seen(f, j) == HasZero([b \in 1 .. Word |-> ByteXor(Repeats[a + f + j * Word + b - 1], c)])
<1> DEFINE v == CHOOSE v \in 0 .. (n - i) \div Word :
        (v = (n - i) \div Word \/ Seen(i, v)) /\ \A j \in 0 .. v - 1 : ~Seen(i, j)
<1> DEFINE w == IF i < n /\ Repeats[a + i] # c THEN v ELSE 0
<1> DEFINE s == i + w * Word
<1> DEFINE t == CHOOSE t \in 0 .. n - s :
        (t = n - s \/ Repeats[a + s + t] = c) /\ \A j \in 0 .. t - 1 : ~(Repeats[a + s + j] = c)
<1>2. kmemchr(Repeats, a, char, n) = IF s + t = n THEN -1 ELSE a + s + t
  BY DEF kmemchr, FirstOf
<1>16. Found(a, char % Byte, n) = Found(a, c, n)
  OBVIOUS
<1> HIDE DEF c
<1>3. i \in 0 .. h /\ \A j \in 0 .. i - 1 : Repeats[a + j] # c
  <2> HIDE DEF h
  <2>1. h \in Nat
    <3>1. h \in 0 .. n
      BY HeadIs DEF h
    <3> QED  BY <3>1
  <2> DEFINE T == { j \in 0 .. h : Repeats[a + j] = c }
  <2>2. PICK k \in 0 .. h : (k = h \/ k \in T) /\ \A j \in 0 .. k - 1 : j \notin T
    <3> HIDE DEF T
    <3> QED  BY <2>1, FirstThere
  <2>3. \A j \in 0 .. k - 1 : ~(Repeats[a + j] = c)
    BY <2>1, <2>2
  <2> QED  BY <2>2, <2>3
<1>4. i \in 0 .. n
  <2> HIDE DEF i, h
  <2>1. h \in 0 .. n
    BY HeadIs DEF h
  <2> QED  BY <1>3, <2>1
<1> HIDE DEF i, h
<1>5. PICK whole : whole = (n - i) \div Word
  OBVIOUS
<1>6. whole \in Nat /\ whole * Word \in Nat /\ n - i - whole * Word \in Nat
  BY <1>4, <1>5, Divided
<1> HIDE DEF Seen
<1>7. v \in 0 .. whole /\ \A j \in 0 .. v - 1 : ~Seen(i, j)
  <2> DEFINE T == { j \in 0 .. whole : Seen(i, j) }
  <2>1. PICK k \in 0 .. whole : (k = whole \/ k \in T) /\ \A j \in 0 .. k - 1 : j \notin T
    <3> HIDE DEF T
    <3> QED  BY <1>6, FirstThere
  <2>2. \A j \in 0 .. k - 1 : ~Seen(i, j)
    BY <1>6, <2>1
  <2> QED  BY <2>1, <2>2, <1>5
<1>8. w \in 0 .. whole /\ \A j \in 0 .. w - 1 : ~Seen(i, j)
  <2> HIDE DEF v
  <2> QED  BY <1>6, <1>7
<1> HIDE DEF v, w
<1>9. PICK k \in Nat \ {0} : k = Word
  BY MemoryAssumption
<1>10. w \in Nat /\ w * k \in Nat /\ w * k <= whole * k
  BY <1>6, <1>8, <1>9, Times, TimesMono
<1>11. s \in Nat /\ s <= n /\ s = i + w * k
  <2>1. PICK b \in Nat, e \in Nat : b = w * k /\ e = whole * k /\ b <= e /\ i + e <= n
    <3>1. whole * k \in Nat /\ i + whole * k <= n
      <4>1. PICK e \in Nat : e = whole * k /\ n - i - e \in Nat
        BY <1>6, <1>9
      <4>2. i + e <= n
        BY <4>1, <1>4
      <4> QED  BY <4>1, <4>2
    <3> QED  BY <3>1, <1>10
  <2>2. s = i + b
    BY <2>1, <1>9
  <2> QED  BY <2>1, <2>2, <1>4
<1>12. ASSUME NEW j \in 0 .. s - 1 PROVE Repeats[a + j] # c
  <2>1. CASE j < i
    BY <2>1, <1>3, <1>4
  <2>2. CASE ~(j < i)
    <3>1. PICK o \in Nat : o = j - i /\ j = i + o
      BY <2>2, <1>4
    <3>2. PICK q \in Nat, e \in Nat : q = o \div k /\ e < k /\ o = q * k + e
      BY DivNat, DivMod
    <3>3. q < w
      <4>1. o < k * w
        <5>1. PICK b \in Nat : b = w * k /\ b = k * w
          BY <1>10
        <5> QED  BY <5>1, <3>1, <1>11, <1>4
      <4> QED  BY <4>1, <3>2, <1>10, QuotientLess
    <3>4. ~Seen(i, q)
      BY <3>3, <1>8, <1>10
    <3>5. i + (q + 1) * k <= n
      <4>1. q + 1 <= w
        BY <3>3, <1>10
      <4>2. (q + 1) * k <= w * k /\ (q + 1) * k \in Nat
        BY <4>1, <1>10, TimesMono, Times
      <4>3. PICK b \in Nat, y \in Nat : b = w * k /\ y = (q + 1) * k /\ y <= b
        BY <4>2, <1>10
      <4> QED  BY <4>3, <1>11, <1>4
    <3>6. SUFFICES ASSUME Repeats[a + j] = c PROVE FALSE
      OBVIOUS
    <3>7. PICK f \in Nat : f = i + q * k /\ f = i + q * Word /\ f + k <= n /\ a + j = a + f + e
      <4>1. PICK b \in Nat : b = q * k /\ b + k = (q + 1) * k
        BY Times
      <4>2. i + b \in Nat /\ i + b + k <= n /\ a + j = a + (i + b) + e
        BY <4>1, <3>1, <3>2, <3>5, <1>4
      <4> QED  BY <4>1, <4>2, <1>9
    <3>8. Repeats[a + f + e] = c /\ e \in 0 .. Word - 1 /\ f + Word <= n
      BY <3>2, <3>6, <3>7, <1>9
    <3>9. HasZero([b \in 1 .. Word |-> ByteXor(Repeats[a + f + b - 1], c)])
      BY <3>8, <1>1, WordSeen
    <3>10. ASSUME NEW b \in 1 .. Word PROVE a + f + b - 1 = a + i + q * Word + b - 1
      <4>1. PICK o2 \in Nat : o2 = q * Word /\ f = i + o2
        BY <3>7, <1>9, Times
      <4> QED  BY <4>1, <1>4, <1>9
    <3>11. HasZero([b \in 1 .. Word |-> ByteXor(Repeats[a + i + q * Word + b - 1], c)])
      BY <3>9, <3>10
    <3> QED  BY <3>4, <3>11 DEF Seen
  <2> QED  BY <2>1, <2>2
<1> HIDE DEF s
<1>13. t \in 0 .. n - s /\ (t = n - s \/ Repeats[a + s + t] = c)
       /\ \A j \in 0 .. t - 1 : Repeats[a + s + j] # c
  <2>1. PICK m \in Nat : m = n - s
    BY <1>11
  <2> DEFINE T == { j \in 0 .. m : Repeats[a + s + j] = c }
  <2>2. PICK f \in 0 .. m : (f = m \/ f \in T) /\ \A j \in 0 .. f - 1 : j \notin T
    <3> HIDE DEF T
    <3> QED  BY <2>1, FirstThere
  <2>3. \A j \in 0 .. f - 1 : ~(Repeats[a + s + j] = c)
    BY <2>1, <2>2
  <2> QED  BY <2>1, <2>2, <2>3
<1> HIDE DEF t
<1>14. t \in Nat /\ s + t <= n /\ (s + t = n \/ Repeats[a + s + t] = c)
  BY <1>11, <1>13
<1>15. (IF s + t = n THEN -1 ELSE a + s + t)
           = IF Found(a, c, n) = {} THEN -1 ELSE Min(Found(a, c, n))
  <2>1. Searched(a, c, n, s, t)
    BY <1>11, <1>12, <1>13, <1>14 DEF Searched
  <2> QED  BY <2>1, FirstIs
<1> QED  BY <1>2, <1>15, <1>16

LEMMA MemoryCall ==
    ASSUME LInv, done, call.op \in MemoryOps
    PROVE  /\ result = Compute(call.op, call.args)
           /\ MemoryCalls
  BY CallIs

\* Both ranges of a call are in the memory.
LEMMA RangesFit ==
    ASSUME NEW d \in 0 .. MemSize \div 2, NEW s \in 0 .. MemSize \div 2, NEW n \in 0 .. MemSize \div 2
    PROVE  /\ d \in Nat /\ s \in Nat /\ n \in Nat
           /\ d .. d + n - 1 \subseteq 0 .. MemSize - 1
           /\ s .. s + n - 1 \subseteq 0 .. MemSize - 1
<1>1. PICK m \in Nat, h \in Nat : m = MemSize /\ h = MemSize \div 2 /\ h + h <= m
  BY LibraryAssumption
<1> QED  BY <1>1

LEMMA DistinctFit ==
    ASSUME NEW d \in 0 .. MemSize \div 2, NEW s \in 0 .. MemSize \div 2, NEW n \in 0 .. MemSize \div 2
    PROVE  InMemory(Distinct, d, s, n)
<1>1. DOMAIN Distinct = 0 .. MemSize - 1 /\ Distinct = [a \in DOMAIN Distinct |-> Distinct[a]]
  BY DEF Distinct
<1> QED  BY <1>1, RangesFit DEF InMemory

\* MemoryExact holds for every memory, wherever the ranges lie in it, every
\* size of a word and of a byte.
THEOREM Memory_Exact == Spec => []MemoryExact
<1>1. LInv => MemoryExact
  <2> SUFFICES ASSUME LInv PROVE MemoryExact
    OBVIOUS
  <2>1. CASE Returned("kmemmove")
    <3>1. MemoryCalls /\ result = Compute(call.op, call.args) /\ call.op = "kmemmove"
      BY <2>1, MemoryCall DEF Returned, MemoryOps
    <3>2. PICK d \in 0 .. MemSize \div 2, s \in 0 .. MemSize \div 2, n \in 0 .. MemSize \div 2 :
              call.args = << d, s, n >>
      BY <3>1 DEF MemoryCalls, Called
    <3>3. result = kmemmove(Distinct, d, s, n)
      BY <3>1, <3>2 DEF Compute
    <3>4. result = Move(Distinct, d, s, n)
      BY <3>3, DistinctFit, MoveIs
    <3>5. call.args[1] = d /\ call.args[2] = s /\ call.args[3] = n
      BY <3>2
    <3>6. call.op # "kmemcpy" /\ call.op # "search" /\ call.op # "kmemcmp"
      BY <3>1
    <3> QED  BY <3>4, <3>5, <3>6, Zenon DEF MemoryExact, Returned
  <2>2. CASE Returned("kmemcpy")
    <3>1. MemoryCalls /\ result = Compute(call.op, call.args) /\ call.op = "kmemcpy"
      BY <2>2, MemoryCall DEF Returned, MemoryOps
    <3>2. PICK d \in 0 .. MemSize \div 2, s \in 0 .. MemSize \div 2, n \in 0 .. MemSize \div 2 :
              call.args = << d, s, n >>
      BY <3>1 DEF MemoryCalls, Called
    <3>3. result = kmemcpy(Distinct, d, s, n)
      BY <3>1, <3>2 DEF Compute
    <3>4. result = Move(Distinct, d, s, n) <=> ~(d \in s + 1 .. s + n - 1)
      BY <3>3, DistinctFit, CopyIs
    <3>5. call.args[1] = d /\ call.args[2] = s /\ call.args[3] = n
      BY <3>2
    <3>6. call.op # "kmemmove" /\ call.op # "search" /\ call.op # "kmemcmp"
      BY <3>1
    <3> QED  BY <3>4, <3>5, <3>6, Zenon DEF MemoryExact, Returned
  <2>3. CASE Returned("search")
    <3>1. MemoryCalls /\ result = Compute(call.op, call.args) /\ call.op = "search"
      BY <2>3, MemoryCall DEF Returned, MemoryOps
    <3>2. PICK a \in 0 .. MemSize \div 2, c \in 0 .. Byte + 1, n \in 0 .. MemSize \div 2 :
              call.args = << a, c, n >>
      BY <3>1 DEF MemoryCalls, Called
    <3>3. /\ result.chr = kmemchr(Repeats, a, c, n) /\ result.rchr = kmemrchr(Repeats, a, c, n)
          /\ result.set = kmemset(Repeats, a, c, n)
      BY <3>1, <3>2 DEF Compute
    <3>4. /\ a \in Nat /\ n \in Nat
          /\ a .. a + n - 1 \subseteq DOMAIN Repeats
      BY RangesFit, RepeatsAre
    <3>5. result.rchr = IF Found(a, c % Byte, n) = {} THEN -1 ELSE Max(Found(a, c % Byte, n))
      BY <3>3, <3>4, LastIs
    <3>6. result.chr = IF Found(a, c % Byte, n) = {} THEN -1 ELSE Min(Found(a, c % Byte, n))
      <4>1. c \in Nat /\ Byte > 6
        BY MemoryAssumption, LibraryAssumption
      <4> QED  BY <3>3, <3>4, <4>1, SearchIs
    <3>7. \A x \in DOMAIN Repeats :
              result.set[x] = IF x \in a .. a + n - 1 THEN c % Byte ELSE Repeats[x]
      BY <3>3 DEF kmemset
    <3>8. call.args[1] = a /\ call.args[2] = c /\ call.args[3] = n
      BY <3>2
    <3>9. call.op # "kmemmove" /\ call.op # "kmemcpy" /\ call.op # "kmemcmp"
      BY <3>1
    <3> QED  BY <3>5, <3>6, <3>7, <3>8, <3>9, Zenon DEF MemoryExact, Returned, Found
  <2>4. CASE Returned("kmemcmp")
    <3>1. MemoryCalls /\ result = Compute(call.op, call.args) /\ call.op = "kmemcmp"
      BY <2>4, MemoryCall DEF Returned, MemoryOps
    <3>2. PICK a \in 0 .. MemSize \div 2, b \in 0 .. MemSize \div 2, n \in 0 .. MemSize \div 2 :
              call.args = << a, b, n >>
      BY <3>1 DEF MemoryCalls, Called
    <3>3. result = kmemcmp(Repeats, a, b, n)
      BY <3>1, <3>2 DEF Compute
    <3>4. /\ a \in Nat /\ b \in Nat /\ n \in Nat
          /\ a .. a + n - 1 \subseteq DOMAIN Repeats /\ b .. b + n - 1 \subseteq DOMAIN Repeats
      BY RangesFit, RepeatsAre
    <3>5. result = 0 <=> \A i \in 0 .. n - 1 : Repeats[a + i] = Repeats[b + i]
      BY <3>3, <3>4, CompareIs
    <3>6. call.args[1] = a /\ call.args[2] = b /\ call.args[3] = n
      BY <3>2
    <3>7. call.op # "kmemmove" /\ call.op # "kmemcpy" /\ call.op # "search"
      BY <3>1
    <3> QED  BY <3>5, <3>6, <3>7, Zenon DEF MemoryExact, Returned
  <2> QED  BY <2>1, <2>2, <2>3, <2>4, Zenon DEF MemoryExact, Returned
<1> QED  BY <1>1, LInvHolds, PTL

-----------------------------------------------------------------------------
(* Loops.  f is what a loop gives from each of its states: out of the      *)
(* state where it stops.                                                   *)

IsLoop(f, S, stop, out, nxt) ==
    f = [s \in S |-> IF s \in stop THEN out[s] ELSE f[nxt[s]]]

Paths(S, stop, nxt, n) ==
    { o \in [0 .. n -> S] : \A i \in 0 .. n - 1 : o[i] \notin stop /\ o[i + 1] = nxt[o[i]] }

\* The states where the loop may stop that was started in s.
Ends(S, stop, nxt, s) ==
    { t \in stop : \E n \in Nat : \E o \in Paths(S, stop, nxt, n) : o[0] = s /\ o[n] = t }

LEMMA EndsHere ==
    ASSUME NEW S, NEW stop, NEW nxt \in [S -> S], NEW s \in S, s \in stop
    PROVE  Ends(S, stop, nxt, s) = {s}
<1>1. s \in Ends(S, stop, nxt, s)
  <2>1. PICK o \in [0 .. 0 -> S] : o = [i \in 0 .. 0 |-> s]
    OBVIOUS
  <2>2. o[0] = s /\ 0 .. 0 - 1 = {} /\ 0 \in Nat
    BY <2>1
  <2>3. o \in Paths(S, stop, nxt, 0)
    BY <2>2 DEF Paths
  <2> QED  BY <2>2, <2>3 DEF Ends
<1>2. ASSUME NEW t \in Ends(S, stop, nxt, s) PROVE t = s
  <2>1. PICK n \in Nat : \E o \in Paths(S, stop, nxt, n) : o[0] = s /\ o[n] = t
    BY DEF Ends
  <2>1a. PICK o \in Paths(S, stop, nxt, n) : o[0] = s /\ o[n] = t
    BY <2>1
  <2>1b. /\ o \in [0 .. n -> S] /\ o[0] = s /\ o[n] = t
        /\ \A i \in 0 .. n - 1 : o[i] \notin stop /\ o[i + 1] = nxt[o[i]]
    BY <2>1a DEF Paths
  <2>2. n = 0
    <3>1. SUFFICES ASSUME n # 0 PROVE FALSE
      OBVIOUS
    <3>2. 0 \in 0 .. n - 1
      BY <3>1
    <3> QED  BY <2>1b, <3>2
  <2> QED  BY <2>1b, <2>2
<1> QED  BY <1>1, <1>2

LEMMA EndsLater ==
    ASSUME NEW S, NEW stop, NEW nxt \in [S -> S], NEW s \in S, s \notin stop
    PROVE  Ends(S, stop, nxt, s) = Ends(S, stop, nxt, nxt[s])
<1>1. ASSUME NEW t \in Ends(S, stop, nxt, s) PROVE t \in Ends(S, stop, nxt, nxt[s])
  <2>1. t \in stop
    BY DEF Ends
  <2>2. PICK n \in Nat : \E o \in Paths(S, stop, nxt, n) : o[0] = s /\ o[n] = t
    BY DEF Ends
  <2>2a. PICK o \in Paths(S, stop, nxt, n) : o[0] = s /\ o[n] = t
    BY <2>2
  <2>2b. /\ o \in [0 .. n -> S] /\ o[0] = s /\ o[n] = t
        /\ \A i \in 0 .. n - 1 : o[i] \notin stop /\ o[i + 1] = nxt[o[i]]
    BY <2>2a DEF Paths
  <2>3. n # 0
    BY <2>1, <2>2b
  <2>4. PICK m \in Nat : n = m + 1
    <3>1. n - 1 \in Nat /\ n = (n - 1) + 1
      BY <2>3
    <3> QED  BY <3>1
  <2> DEFINE p == [i \in 0 .. m |-> o[i + 1]]
  <2>5. p \in [0 .. m -> S]
    BY <2>2b, <2>4
  <2>6. p[0] = nxt[s]
    <3>1. 0 \in 0 .. n - 1 /\ p[0] = o[0 + 1]
      BY <2>4
    <3> QED  BY <2>2b, <3>1
  <2>7. p[m] = t
    BY <2>2b, <2>4
  <2>8. ASSUME NEW i \in 0 .. m - 1 PROVE p[i] \notin stop /\ p[i + 1] = nxt[p[i]]
    <3>1. i + 1 \in 0 .. n - 1 /\ p[i] = o[i + 1] /\ p[i + 1] = o[(i + 1) + 1]
      BY <2>4
    <3> QED  BY <2>2b, <3>1
  <2> HIDE DEF p
  <2>9. p \in Paths(S, stop, nxt, m)
    BY <2>5, <2>8 DEF Paths
  <2> QED  BY <2>1, <2>6, <2>7, <2>9 DEF Ends
<1>2. ASSUME NEW t \in Ends(S, stop, nxt, nxt[s]) PROVE t \in Ends(S, stop, nxt, s)
  <2>1. t \in stop
    BY DEF Ends
  <2>2. PICK m \in Nat : \E p \in Paths(S, stop, nxt, m) : p[0] = nxt[s] /\ p[m] = t
    BY DEF Ends
  <2>2a. PICK p \in Paths(S, stop, nxt, m) : p[0] = nxt[s] /\ p[m] = t
    BY <2>2
  <2>2b. /\ p \in [0 .. m -> S] /\ p[0] = nxt[s] /\ p[m] = t
        /\ \A i \in 0 .. m - 1 : p[i] \notin stop /\ p[i + 1] = nxt[p[i]]
    BY <2>2a DEF Paths
  <2>3. PICK n \in Nat : n = m + 1
    OBVIOUS
  <2> DEFINE o == [i \in 0 .. n |-> IF i = 0 THEN s ELSE p[i - 1]]
  <2>4. o \in [0 .. n -> S]
    BY <2>2b, <2>3
  <2>5. o[0] = s /\ o[n] = t
    BY <2>2b, <2>3
  <2>6. ASSUME NEW i \in 0 .. n - 1 PROVE o[i] \notin stop /\ o[i + 1] = nxt[o[i]]
    <3>1. o[i + 1] = p[i]
      BY <2>3
    <3>2. CASE i = 0
      BY <2>2b, <2>5, <3>1, <3>2
    <3>3. CASE i # 0
      <4>1. i - 1 \in 0 .. m - 1 /\ (i - 1) + 1 = i /\ o[i] = p[i - 1]
        BY <2>3, <3>3
      <4> QED  BY <2>2b, <3>1, <4>1
    <3> QED  BY <3>2, <3>3
  <2> HIDE DEF o
  <2>7. o \in Paths(S, stop, nxt, n)
    BY <2>4, <2>6 DEF Paths
  <2> QED  BY <2>1, <2>3, <2>5, <2>7 DEF Ends
<1> QED  BY <1>1, <1>2

\* Every loop is a function, whether it stops or not.
LEMMA Loop ==
    ASSUME NEW S, NEW stop, NEW out, NEW nxt \in [S -> S]
    PROVE  \E f : IsLoop(f, S, stop, out, nxt)
<1> DEFINE f == [s \in S |-> IF Ends(S, stop, nxt, s) = {} THEN 0
                             ELSE out[CHOOSE t \in Ends(S, stop, nxt, s) : TRUE]]
<1>1. ASSUME NEW s \in S PROVE f[s] = IF s \in stop THEN out[s] ELSE f[nxt[s]]
  <2>1. CASE s \in stop
    <3>1. Ends(S, stop, nxt, s) = {s}
      BY <2>1, EndsHere
    <3>2. (CHOOSE t \in {s} : TRUE) = s
      OBVIOUS
    <3> QED  BY <2>1, <3>1, <3>2
  <2>2. CASE s \notin stop
    <3>1. Ends(S, stop, nxt, s) = Ends(S, stop, nxt, nxt[s])
      BY <2>2, EndsLater
    <3>2. nxt[s] \in S
      OBVIOUS
    <3> QED  BY <2>2, <3>1, <3>2
  <2> QED  BY <2>1, <2>2
<1>2. f = [s \in S |-> f[s]]
  OBVIOUS
<1> HIDE DEF f
<1>3. IsLoop(f, S, stop, out, nxt)
  BY <1>1, <1>2 DEF IsLoop
<1> QED  BY <1>3

\* What is true at the start and kept by each round is true at the end, when mu
\* shrinks in each round.
Kept(S, stop, nxt, inv, mu) ==
    /\ inv \subseteq S /\ mu \in [S -> Nat]
    /\ \A s \in inv : s \notin stop => nxt[s] \in inv /\ mu[nxt[s]] < mu[s]

LEMMA LoopRule ==
    ASSUME NEW S, NEW stop, NEW out, NEW nxt, NEW f, IsLoop(f, S, stop, out, nxt),
           NEW inv, NEW mu, Kept(S, stop, nxt, inv, mu), NEW s \in inv
    PROVE  \E t \in inv : t \in stop /\ f[s] = out[t]
<1> DEFINE Stops(x) == \E t \in inv : t \in stop /\ f[x] = out[t]
<1> DEFINE T == { k \in Nat : \A x \in inv : mu[x] <= k => Stops(x) }
<1>0. ASSUME NEW x \in inv PROVE x \in S /\ mu[x] \in Nat
  BY DEF Kept
<1>1. ASSUME NEW x \in inv, x \in stop PROVE Stops(x)
  <2>1. f[x] = out[x]
    BY <1>0, <1>1 DEF IsLoop
  <2> QED  BY <1>1, <2>1
<1>2. ASSUME NEW x \in inv, x \notin stop
      PROVE nxt[x] \in inv /\ mu[nxt[x]] < mu[x] /\ f[x] = f[nxt[x]]
  <2>1. nxt[x] \in inv /\ mu[nxt[x]] < mu[x]
    BY <1>2 DEF Kept
  <2>2. f[x] = f[nxt[x]]
    BY <1>0, <1>2 DEF IsLoop
  <2> QED  BY <2>1, <2>2
<1>3. 0 \in T
  <2>1. ASSUME NEW x \in inv, mu[x] <= 0 PROVE Stops(x)
    <3>1. x \in stop
      <4>1. SUFFICES ASSUME x \notin stop PROVE FALSE
        OBVIOUS
      <4>2. nxt[x] \in inv /\ mu[nxt[x]] < mu[x]
        BY <1>2, <4>1
      <4> QED  BY <1>0, <2>1, <4>2
    <3> QED  BY <1>1, <3>1
  <2> QED  BY <2>1
<1>4. ASSUME NEW k \in Nat, k \in T PROVE k + 1 \in T
  <2>1. ASSUME NEW x \in inv, mu[x] <= k + 1 PROVE Stops(x)
    <3>1. CASE x \in stop
      BY <1>1, <3>1
    <3>2. CASE x \notin stop
      <4>1. nxt[x] \in inv /\ mu[nxt[x]] < mu[x] /\ f[x] = f[nxt[x]]
        BY <1>2, <3>2
      <4>2. mu[nxt[x]] <= k
        BY <1>0, <2>1, <4>1
      <4>3. Stops(nxt[x])
        BY <1>4, <4>1, <4>2
      <4> QED  BY <4>1, <4>3
    <3> QED  BY <3>1, <3>2
  <2> QED  BY <2>1
<1> HIDE DEF T
<1>5. Nat \subseteq T
  BY <1>3, <1>4, Induction
<1>6. mu[s] \in T
  BY <1>0, <1>5
<1> QED  BY <1>0, <1>6 DEF T

\* A value for each of n steps.
IsCount(f, n, start, step) ==
    f = [i \in 0 .. n |-> IF i = 0 THEN start ELSE step[<< i, f[i - 1] >>]]

LEMMA Count ==
    ASSUME NEW V, NEW start \in V, NEW n \in Nat, NEW step \in [(1 .. n) \X V -> V]
    PROVE  \E f \in [0 .. n -> V] : IsCount(f, n, start, step)
<1> DEFINE Good(k) == \E f \in [0 .. k -> V] :
               f[0] = start /\ \A i \in 1 .. k : f[i] = step[<< i, f[i - 1] >>]
<1> DEFINE T == { k \in Nat : k <= n => Good(k) }
<1>1. 0 \in T
  <2>1. PICK f \in [0 .. 0 -> V] : f = [i \in 0 .. 0 |-> start]
    OBVIOUS
  <2>2. f[0] = start /\ 1 .. 0 = {}
    BY <2>1
  <2> QED  BY <2>2
<1>2. ASSUME NEW k \in Nat, k \in T PROVE k + 1 \in T
  <2>1. SUFFICES ASSUME k + 1 <= n PROVE Good(k + 1)
    OBVIOUS
  <2>2. PICK f \in [0 .. k -> V] :
            f[0] = start /\ \A i \in 1 .. k : f[i] = step[<< i, f[i - 1] >>]
    BY <1>2, <2>1
  <2>3. PICK v \in V : v = step[<< k + 1, f[k] >>]
    <3>1. << k + 1, f[k] >> \in (1 .. n) \X V
      BY <2>1
    <3> QED  BY <3>1
  <2> DEFINE g == [i \in 0 .. k + 1 |-> IF i = k + 1 THEN v ELSE f[i]]
  <2>4. g \in [0 .. k + 1 -> V] /\ g[0] = start
    BY <2>2
  <2>5. ASSUME NEW i \in 1 .. k + 1 PROVE g[i] = step[<< i, g[i - 1] >>]
    <3>1. g[i - 1] = f[i - 1]
      OBVIOUS
    <3>2. CASE i = k + 1
      <4>1. g[i] = v /\ g[i - 1] = f[k]
        BY <3>1, <3>2
      <4> HIDE DEF g
      <4> QED  BY <2>3, <3>2, <4>1
    <3>3. CASE i # k + 1
      <4>1. i \in 1 .. k /\ g[i] = f[i]
        BY <3>3
      <4> QED  BY <2>2, <3>1, <4>1
    <3> QED  BY <3>2, <3>3
  <2> HIDE DEF g
  <2> QED  BY <2>4, <2>5
<1> HIDE DEF T
<1>3. Nat \subseteq T
  BY <1>1, <1>2, Induction
<1>4. Good(n)
  BY <1>3 DEF T
<1>5. PICK f \in [0 .. n -> V] :
          f[0] = start /\ \A i \in 1 .. n : f[i] = step[<< i, f[i - 1] >>]
  BY <1>4
<1>6. ASSUME NEW i \in 0 .. n
      PROVE  f[i] = IF i = 0 THEN start ELSE step[<< i, f[i - 1] >>]
  <2>1. i = 0 \/ i \in 1 .. n
    OBVIOUS
  <2> QED  BY <1>5, <2>1
<1>7. IsCount(f, n, start, step)
  BY <1>6 DEF IsCount
<1> QED  BY <1>7

-----------------------------------------------------------------------------
(* Powers.                                                                 *)

LEMMA PowerCount ==
    ASSUME NEW b \in Nat, NEW n \in Nat
    PROVE  \E p \in [0 .. n -> Nat] :
               /\ p[0] = 1 /\ \A i \in 1 .. n : p[i] = b * p[i - 1]
               /\ Power(b, n) = p[n]
<1> DEFINE step == [x \in (1 .. n) \X Nat |-> b * x[2]]
<1> DEFINE p == CHOOSE f : f = [i \in 0 .. n |-> IF i = 0 THEN 1 ELSE b * f[i - 1]]
<1>1. step \in [(1 .. n) \X Nat -> Nat]
  BY Times
<1>2. PICK g \in [0 .. n -> Nat] : IsCount(g, n, 1, step)
  BY <1>1, Count
<1>3. \A i \in 1 .. n : step[<< i, g[i - 1] >>] = b * g[i - 1]
  OBVIOUS
<1> HIDE DEF step
<1>4. g = [i \in 0 .. n |-> IF i = 0 THEN 1 ELSE b * g[i - 1]]
  <2>1. ASSUME NEW i \in 0 .. n PROVE g[i] = IF i = 0 THEN 1 ELSE b * g[i - 1]
    <3>1. g[i] = IF i = 0 THEN 1 ELSE step[<< i, g[i - 1] >>]
      BY <1>2 DEF IsCount
    <3>2. i = 0 \/ i \in 1 .. n
      OBVIOUS
    <3> QED  BY <3>1, <3>2, <1>3
  <2> QED  BY <2>1
<1>5. p = [i \in 0 .. n |-> IF i = 0 THEN 1 ELSE b * p[i - 1]]
  BY <1>4
<1>6. Power(b, n) = p[n]
  BY DEF Power
<1> HIDE DEF p
<1>7. p[0] = 1 /\ \A i \in 1 .. n : p[i] = b * p[i - 1]
  BY <1>5
<1>8. g[0] = 1 /\ \A i \in 1 .. n : g[i] = b * g[i - 1]
  BY <1>4
<1>9. \A i \in 0 .. n : p[i] = g[i]
  <2>1. Alike(p, g, n)
    BY <1>7, <1>8 DEF Alike
  <2> QED  BY <2>1, Unique
<1>10. Power(b, n) = g[n]
  BY <1>6, <1>9
<1> QED  BY <1>8, <1>10

LEMMA PowerIs ==
    ASSUME NEW b \in Nat, NEW n \in Nat
    PROVE  /\ Power(b, n) \in Nat /\ Power(b, 0) = 1
           /\ Power(b, n + 1) = b * Power(b, n)
<1>1. PICK p \in [0 .. n -> Nat] :
          /\ p[0] = 1 /\ \A i \in 1 .. n : p[i] = b * p[i - 1]
          /\ Power(b, n) = p[n]
  BY PowerCount
<1>2. PICK q \in [0 .. n + 1 -> Nat] :
          /\ q[0] = 1 /\ \A i \in 1 .. n + 1 : q[i] = b * q[i - 1]
          /\ Power(b, n + 1) = q[n + 1]
  <2>1. n + 1 \in Nat
    OBVIOUS
  <2> QED  BY <2>1, PowerCount
<1>3. \A i \in 0 .. n : p[i] = q[i]
  <2>1. Alike(p, q, n)
    BY <1>1, <1>2 DEF Alike
  <2> QED  BY <2>1, Unique
<1>4. q[n + 1] = b * q[n] /\ q[n] = p[n]
  BY <1>2, <1>3
<1>5. PICK r \in [0 .. 0 -> Nat] : r[0] = 1 /\ Power(b, 0) = r[0]
  BY PowerCount
<1> QED  BY <1>1, <1>2, <1>4, <1>5

LEMMA PowerPositive ==
    ASSUME NEW b \in Nat \ {0}, NEW n \in Nat
    PROVE  Power(b, n) \in Nat \ {0}
<1> DEFINE T == { k \in Nat : Power(b, k) \in Nat \ {0} }
<1>1. 0 \in T
  BY PowerIs
<1>2. ASSUME NEW k \in Nat, k \in T PROVE k + 1 \in T
  <2>1. Power(b, k + 1) = b * Power(b, k) /\ Power(b, k) \in Nat \ {0}
    BY <1>2, PowerIs
  <2>2. b * Power(b, k) \in Nat \ {0}
    BY <2>1, TimesPositive
  <2> QED  BY <2>1, <2>2
<1> HIDE DEF T
<1>3. Nat \subseteq T
  BY <1>1, <1>2, Induction
<1> QED  BY <1>3 DEF T

\* Four binary places are one hexadecimal.
LEMMA PowerOfSixteen ==
    ASSUME NEW n \in Nat
    PROVE  Power(2, 4 * n) = Power(16, n)
<1> DEFINE T == { k \in Nat : Power(2, 4 * k) = Power(16, k) }
<1>1. 0 \in T
  BY PowerIs
<1>2. ASSUME NEW k \in Nat, k \in T PROVE k + 1 \in T
  <2>1. PICK m \in Nat : m = 4 * k
    OBVIOUS
  <2>2. PICK a \in Nat : a = Power(2, m)
    BY PowerIs
  <2>3. Power(2, m + 1) = 2 * a
    BY <2>2, PowerIs
  <2>4. Power(2, m + 2) = 4 * a
    <3>1. m + 1 \in Nat /\ (m + 1) + 1 = m + 2
      OBVIOUS
    <3>2. Power(2, (m + 1) + 1) = 2 * Power(2, m + 1)
      BY <3>1, PowerIs
    <3> QED  BY <3>1, <3>2, <2>3
  <2>5. Power(2, m + 3) = 8 * a
    <3>1. m + 2 \in Nat /\ (m + 2) + 1 = m + 3
      OBVIOUS
    <3>2. Power(2, (m + 2) + 1) = 2 * Power(2, m + 2)
      BY <3>1, PowerIs
    <3> QED  BY <3>1, <3>2, <2>4
  <2>6. Power(2, m + 4) = 16 * a
    <3>1. m + 3 \in Nat /\ (m + 3) + 1 = m + 4
      OBVIOUS
    <3>2. Power(2, (m + 3) + 1) = 2 * Power(2, m + 3)
      BY <3>1, PowerIs
    <3> QED  BY <3>1, <3>2, <2>5
  <2>7. Power(16, k + 1) = 16 * Power(16, k)
    BY PowerIs
  <2>8. Power(16, k) = a /\ 4 * (k + 1) = m + 4
    BY <1>2, <2>1, <2>2
  <2> QED  BY <2>6, <2>7, <2>8
<1> HIDE DEF T
<1>3. Nat \subseteq T
  BY <1>1, <1>2, Induction
<1> QED  BY <1>3 DEF T

LEMMA U32Is == U32 \in Nat \ {0, 1} /\ U64 \in Nat \ {0, 1} /\ U32 % 2 = 0 /\ U64 % 2 = 0
<1>1. PICK h \in Nat : HexDigits = h + 1
  <2>1. HexDigits - 1 \in Nat /\ HexDigits = (HexDigits - 1) + 1
    BY WidthAssumption
  <2> QED  BY <2>1
<1>2. PICK a \in Nat \ {0} : a = Power(16, h)
  BY PowerPositive
<1>3. U32 = 16 * a
  BY <1>1, <1>2, PowerIs, WidthAssumption
<1>4. U64 = 2 * (8 * (a * U32)) /\ a * U32 \in Nat \ {0}
  <2>1. a * U32 \in Nat \ {0}
    BY <1>3, TimesPositive
  <2>2. U32 * U32 = (16 * a) * U32 /\ (16 * a) * U32 = 2 * (8 * (a * U32))
    BY <1>3
  <2> QED  BY <2>1, <2>2, WidthAssumption
<1>5. PICK c \in Nat \ {0} : c = a * U32
  BY <1>4
<1> QED  BY <1>3, <1>4, <1>5

LEMMA OddPartIs ==
    \A q \in Nat : OddPart[q] = IF q = 0 \/ q % 2 = 1 THEN q ELSE OddPart[q \div 2]
<1> DEFINE stop == { q \in Nat : q = 0 \/ q % 2 = 1 }
<1> DEFINE out == [q \in Nat |-> q]
<1> DEFINE nxt == [q \in Nat |-> q \div 2]
<1>1. nxt \in [Nat -> Nat]
  BY DivNat
<1>2. PICK g : IsLoop(g, Nat, stop, out, nxt)
  <2> HIDE DEF stop, out, nxt
  <2> QED  BY <1>1, Loop
<1>3. g = [q \in Nat |-> IF q = 0 \/ q % 2 = 1 THEN q ELSE g[q \div 2]]
  BY <1>2 DEF IsLoop
<1>4. OddPart = [q \in Nat |-> IF q = 0 \/ q % 2 = 1 THEN q ELSE OddPart[q \div 2]]
  <2>1. OddPart = CHOOSE f : f = [q \in Nat |-> IF q = 0 \/ q % 2 = 1 THEN q ELSE f[q \div 2]]
    BY DEF OddPart
  <2> QED  BY <1>3, <2>1
<1> QED  BY <1>4

LEMMA PowersOfTwo ==
    /\ PowerOfTwo(1) /\ ~PowerOfTwo(0)
    /\ \A p \in Nat : PowerOfTwo(2 * p) <=> PowerOfTwo(p)
    /\ \A p \in Nat : PowerOfTwo(p) /\ p # 1 => p = 2 * (p \div 2) /\ PowerOfTwo(p \div 2)
<1>1. PowerOfTwo(1) /\ ~PowerOfTwo(0)
  <2>1. OddPart[1] = 1 /\ OddPart[0] = 0
    BY OddPartIs
  <2> QED  BY <2>1 DEF PowerOfTwo
<1>2. ASSUME NEW p \in Nat PROVE PowerOfTwo(2 * p) <=> PowerOfTwo(p)
  <2>1. CASE p = 0
    BY <2>1
  <2>2. CASE p # 0
    <3>1. 2 * p \in Nat /\ 2 * p # 0 /\ (2 * p) % 2 = 0 /\ (2 * p) \div 2 = p
      BY <2>2
    <3>2. OddPart[2 * p] = OddPart[p]
      BY <3>1, OddPartIs
    <3> QED  BY <3>2 DEF PowerOfTwo
  <2> QED  BY <2>1, <2>2
<1>3. ASSUME NEW p \in Nat, PowerOfTwo(p), p # 1
      PROVE p = 2 * (p \div 2) /\ PowerOfTwo(p \div 2)
  <2>1. OddPart[p] = 1
    BY <1>3 DEF PowerOfTwo
  <2>2. OddPart[p] = IF p = 0 \/ p % 2 = 1 THEN p ELSE OddPart[p \div 2]
    BY OddPartIs
  <2>3. p # 0 /\ p % 2 # 1 /\ OddPart[p \div 2] = 1
    BY <2>1, <2>2, <1>3
  <2>4. p = 2 * (p \div 2)
    BY <2>3
  <2> QED  BY <2>3, <2>4 DEF PowerOfTwo
<1> QED  BY <1>1, <1>2, <1>3

\* There is no power of two between a power of two and its double.
LEMMA PowersApart ==
    ASSUME NEW p \in Nat, NEW r \in Nat, PowerOfTwo(p), PowerOfTwo(r), p < r
    PROVE  2 * p <= r
<1> DEFINE T == { k \in Nat : \A x, y \in Nat :
               x <= k /\ PowerOfTwo(x) /\ PowerOfTwo(y) /\ x < y => 2 * x <= y }
<1>1. 0 \in T
  BY PowersOfTwo
<1>2. ASSUME NEW k \in Nat, k \in T PROVE k + 1 \in T
  <2>1. ASSUME NEW x \in Nat, NEW y \in Nat, x <= k + 1, PowerOfTwo(x), PowerOfTwo(y), x < y
        PROVE  2 * x <= y
    <3>1. x # 0
      BY <2>1, PowersOfTwo
    <3>2. y # 1
      BY <2>1, <3>1
    <3>3. PICK v \in Nat : y = 2 * v /\ PowerOfTwo(v)
      <4>1. y \div 2 \in Nat /\ y = 2 * (y \div 2) /\ PowerOfTwo(y \div 2)
        BY <2>1, <3>2, PowersOfTwo
      <4> QED  BY <4>1
    <3>4. CASE x = 1
      BY <2>1, <3>3, <3>4
    <3>5. CASE x # 1
      <4>1. PICK u \in Nat : x = 2 * u /\ PowerOfTwo(u)
        <5>1. x \div 2 \in Nat /\ x = 2 * (x \div 2) /\ PowerOfTwo(x \div 2)
          BY <2>1, <3>5, PowersOfTwo
        <5> QED  BY <5>1
      <4>2. u <= k /\ u < v
        BY <2>1, <3>1, <3>3, <4>1
      <4>3. 2 * u <= v
        BY <1>2, <3>3, <4>1, <4>2
      <4> QED  BY <3>3, <4>1, <4>3
    <3> QED  BY <3>4, <3>5
  <2> QED  BY <2>1
<1> HIDE DEF T
<1>3. Nat \subseteq T
  BY <1>1, <1>2, Induction
<1>4. p \in T
  BY <1>3
<1> QED  BY <1>4 DEF T

-----------------------------------------------------------------------------
(* Division.                                                               *)

DoublingStops == { s \in Division : ~(s.X < s.A \div 2) }
DoublingNext  == [s \in Division |-> Doubling(s)]
HalvingStops  == { s \in Division : s.A < s.B \/ s.X = 0 }
HalvingOut    == [s \in Division |->
                     [quotient |-> s.quotient, remainder |-> s.A, ends |-> s.A < s.B]]
HalvingNext   == [s \in Division |-> Halving(s)]

LEMMA DoublingIs ==
    ASSUME NEW s \in Division
    PROVE  LET t == Doubling(s)
           IN  /\ t \in Division /\ t.A = s.A /\ t.B = s.B /\ t.quotient = s.quotient
               /\ t.X = 2 * s.X /\ t.per = 2 * s.per
<1>1. s.A \in Nat /\ s.B \in Nat \ {0} /\ s.X \in Nat /\ s.per \in Nat /\ s.quotient \in Nat
  BY DEF Division
<1>2. 2 * s.X \in Nat /\ 2 * s.per \in Nat
  BY <1>1
<1>3. Doubling(s) \in Division
  BY <1>1, <1>2 DEF Doubling, Division
<1> QED  BY <1>3 DEF Doubling

LEMMA HalvingIs ==
    ASSUME NEW s \in Division
    PROVE  LET t == Halving(s)
           IN  /\ t \in Division /\ t.B = s.B
               /\ t.A = IF s.A >= s.X THEN s.A - s.X ELSE s.A
               /\ t.quotient = IF s.A >= s.X THEN s.quotient + s.per ELSE s.quotient
               /\ t.X = s.X \div 2 /\ t.per = s.per \div 2
<1>1. s.A \in Nat /\ s.B \in Nat \ {0} /\ s.X \in Nat /\ s.per \in Nat /\ s.quotient \in Nat
  BY DEF Division
<1>2. s.X \div 2 \in Nat /\ s.per \div 2 \in Nat
  BY <1>1
<1> DEFINE A == IF s.A >= s.X THEN s.A - s.X ELSE s.A
<1> DEFINE q == IF s.A >= s.X THEN s.quotient + s.per ELSE s.quotient
<1>3. A \in Nat /\ q \in Nat
  BY <1>1
<1>4. Halving(s) = [A |-> A, B |-> s.B, X |-> s.X \div 2, per |-> s.per \div 2, quotient |-> q]
  BY DEF Halving
<1> HIDE DEF A, q
<1>5. Halving(s) \in Division
  BY <1>1, <1>2, <1>3, <1>4 DEF Division
<1> QED  BY <1>4, <1>5 DEF A, q

LEMMA DoubledLoop ==
    IsLoop(Doubled, Division, DoublingStops, [s \in Division |-> s], DoublingNext)
<1>1. DoublingNext \in [Division -> Division]
  BY DoublingIs DEF DoublingNext
<1>2. PICK g : IsLoop(g, Division, DoublingStops, [s \in Division |-> s], DoublingNext)
  BY <1>1, Loop
<1>3. g = [s \in Division |-> IF s.X < s.A \div 2 THEN g[Doubling(s)] ELSE s]
  BY <1>2 DEF IsLoop, DoublingStops, DoublingNext
<1>4. Doubled = [s \in Division |-> IF s.X < s.A \div 2 THEN Doubled[Doubling(s)] ELSE s]
  <2>1. Doubled = CHOOSE f :
            f = [s \in Division |-> IF s.X < s.A \div 2 THEN f[Doubling(s)] ELSE s]
    BY DEF Doubled
  <2> QED  BY <1>3, <2>1
<1> QED  BY <1>4 DEF IsLoop, DoublingStops, DoublingNext

LEMMA SubtractedLoop == IsLoop(Subtracted, Division, HalvingStops, HalvingOut, HalvingNext)
<1>1. HalvingNext \in [Division -> Division]
  BY HalvingIs DEF HalvingNext
<1>2. PICK g : IsLoop(g, Division, HalvingStops, HalvingOut, HalvingNext)
  BY <1>1, Loop
<1> DEFINE answer(s) == [quotient |-> s.quotient, remainder |-> s.A, ends |-> s.A < s.B]
<1>3. g = [s \in Division |-> IF s.A < s.B \/ s.X = 0 THEN answer(s) ELSE g[Halving(s)]]
  <2>1. \A s \in Division : HalvingOut[s] = answer(s)
    BY DEF HalvingOut
  <2> HIDE DEF answer
  <2> QED  BY <1>2, <2>1 DEF IsLoop, HalvingStops, HalvingNext
<1>4. Subtracted = [s \in Division |->
                       IF s.A < s.B \/ s.X = 0 THEN answer(s) ELSE Subtracted[Halving(s)]]
  <2>1. Subtracted = CHOOSE f :
            f = [s \in Division |-> IF s.A < s.B \/ s.X = 0 THEN answer(s) ELSE f[Halving(s)]]
    BY DEF Subtracted
  <2> HIDE DEF answer
  <2> QED  BY <1>3, <2>1
<1>5. \A s \in Division : HalvingOut[s] = answer(s)
  BY DEF HalvingOut
<1> HIDE DEF answer
<1> QED  BY <1>4, <1>5 DEF IsLoop, HalvingStops, HalvingNext

\* Where the doubling stops: at a power of two times the divisor that is at
\* least half of the dividend, and that half itself exactly if it is Short.
AtHalf(t, a, b) ==
    /\ t \in Division /\ t.A = a /\ t.B = b /\ t.quotient = 0
    /\ PowerOfTwo(t.per) /\ t.X = b * t.per
    /\ a \div 2 <= t.X
    /\ t.X = a \div 2 <=> Short(a, b)

LEMMA DoubledIs ==
    ASSUME NEW a \in Nat, NEW b \in Nat \ {0}
    PROVE  AtHalf(Doubled[Begun(a, b)], a, b)
<1>1. PICK h \in Nat : h = a \div 2
  OBVIOUS
<1> DEFINE Least1(s) == \A r \in Nat : PowerOfTwo(r) /\ h = b * r => s.per <= r
<1> DEFINE Good(s) == /\ s.A = a /\ s.B = b /\ s.quotient = 0
                      /\ PowerOfTwo(s.per) /\ s.X = b * s.per /\ Least1(s)
<1> DEFINE inv == { s \in Division : Good(s) }
<1> DEFINE mu == [s \in Division |-> IF s.X < h THEN h - s.X ELSE 0]
<1>2. Begun(a, b) \in inv
  <2>1. /\ Begun(a, b) \in Division
        /\ Begun(a, b).A = a /\ Begun(a, b).B = b /\ Begun(a, b).quotient = 0
        /\ Begun(a, b).per = 1 /\ Begun(a, b).X = b
    BY DEF Begun, Division
  <2>2. \A r \in Nat : PowerOfTwo(r) => 1 <= r
    BY PowersOfTwo
  <2> QED  BY <2>1, <2>2, PowersOfTwo
<1>3. ASSUME NEW s \in inv, s \notin DoublingStops
      PROVE DoublingNext[s] \in inv /\ mu[DoublingNext[s]] < mu[s]
  <2>1. /\ s \in Division /\ s.A = a /\ s.B = b /\ s.quotient = 0 /\ PowerOfTwo(s.per)
        /\ s.X = b * s.per /\ Least1(s)
    OBVIOUS
  <2>2. s.X \in Nat /\ s.per \in Nat /\ s.X < h
    BY <2>1, <1>1, <1>3 DEF DoublingStops, Division
  <2>3. PICK t : t = Doubling(s)
    OBVIOUS
  <2>4. /\ t \in Division /\ t.A = a /\ t.B = b /\ t.quotient = 0
        /\ t.X = 2 * s.X /\ t.per = 2 * s.per
    BY <2>1, <2>3, DoublingIs
  <2>5. PowerOfTwo(t.per)
    BY <2>1, <2>2, <2>4, PowersOfTwo
  <2>6. t.X = b * t.per
    <3>1. b * (2 * s.per) = 2 * (b * s.per)
      BY <2>2
    <3> QED  BY <2>1, <2>4, <3>1
  <2>7. ASSUME NEW r \in Nat, PowerOfTwo(r), h = b * r PROVE t.per <= r
    <3>1. s.per <= r
      BY <2>1, <2>7
    <3>2. s.per # r
      BY <2>1, <2>2, <2>7
    <3>3. 2 * s.per <= r
      BY <2>1, <2>2, <2>7, <3>1, <3>2, PowersApart
    <3> QED  BY <2>4, <3>3
  <2>8. t \in inv
    BY <2>4, <2>5, <2>6, <2>7
  <2>9. s.X # 0
    <3>1. s.per # 0
      BY <2>1, PowersOfTwo
    <3>2. b * s.per \in Nat \ {0}
      BY <2>2, <3>1, TimesPositive
    <3> QED  BY <2>1, <3>2
  <2>10. mu[t] < mu[s]
    BY <2>1, <2>2, <2>4, <2>9
  <2>11. DoublingNext[s] = t
    BY <2>1, <2>3 DEF DoublingNext
  <2> HIDE DEF inv, mu
  <2> QED  BY <2>8, <2>10, <2>11
<1>4. Kept(Division, DoublingStops, DoublingNext, inv, mu)
  <2>1. inv \subseteq Division
    OBVIOUS
  <2>2. mu \in [Division -> Nat]
    BY DEF Division
  <2> HIDE DEF inv, mu
  <2> QED  BY <1>3, <2>1, <2>2 DEF Kept
<1>5. PICK t \in inv : t \in DoublingStops /\ Doubled[Begun(a, b)] = [s \in Division |-> s][t]
  <2> HIDE DEF inv, mu
  <2> QED  BY <1>2, <1>4, DoubledLoop, LoopRule
<1>6. /\ t \in Division /\ t.A = a /\ t.B = b /\ t.quotient = 0 /\ PowerOfTwo(t.per)
      /\ t.X = b * t.per /\ Least1(t)
  OBVIOUS
<1>7. Doubled[Begun(a, b)] = t
  BY <1>5, <1>6
<1>8. t.X \in Nat /\ t.per \in Nat /\ h <= t.X
  BY <1>1, <1>5, <1>6 DEF DoublingStops, Division
<1>9. ASSUME t.X = h PROVE Short(a, b)
  <2>1. b * t.per = t.per * b + 0
    BY <1>8
  <2>2. (t.per * b + 0) \div b = t.per /\ (t.per * b + 0) % b = 0
    BY <1>8, Quotient
  <2> QED  BY <1>1, <1>6, <1>9, <2>1, <2>2 DEF Short
<1>10. ASSUME Short(a, b) PROVE t.X = h
  <2>1. PICK r \in Nat : r = h \div b
    BY DivNat
  <2>2. h % b = 0 /\ PowerOfTwo(r)
    BY <1>1, <1>10, <2>1 DEF Short
  <2>3. h = r * b + 0
    BY <2>1, <2>2, DivMod
  <2>4. h = b * r
    BY <2>3
  <2>5. t.per * b <= r * b
    BY <1>6, <1>8, <2>2, <2>4, TimesMono
  <2>6. t.per * b = b * t.per /\ b * t.per \in Nat
    BY <1>8, Times
  <2> QED  BY <1>6, <1>8, <2>3, <2>5, <2>6
<1> QED  BY <1>1, <1>6, <1>7, <1>8, <1>9, <1>10 DEF AtHalf

\* From a divisor that is more than half of the dividend down to the divisor.
Exact(a, b, s) ==
    /\ s \in Division /\ s.B = b /\ s.quotient * b + s.A = a
    /\ s.A < b \/ (PowerOfTwo(s.per) /\ s.X = b * s.per /\ s.A < 2 * s.X)

LEMMA HalvingShrinks ==
    ASSUME NEW s \in Division, s \notin HalvingStops
    PROVE  HalvingNext[s] = Halving(s) /\ Halving(s).X < s.X
<1>1. s.X \in Nat \ {0}
  BY DEF HalvingStops, Division
<1>2. s.X \div 2 < s.X
  BY <1>1
<1> QED  BY <1>2, HalvingIs DEF HalvingNext

LEMMA ExactNext ==
    ASSUME NEW a \in Nat, NEW b \in Nat \ {0}, NEW s, Exact(a, b, s), s \notin HalvingStops
    PROVE  Exact(a, b, Halving(s))
<1>1. /\ s \in Division /\ s.B = b /\ s.quotient * b + s.A = a
      /\ s.A \in Nat /\ s.X \in Nat /\ s.per \in Nat /\ s.quotient \in Nat
  BY DEF Exact, Division
<1>2. ~(s.A < b) /\ PowerOfTwo(s.per) /\ s.X = b * s.per /\ s.A < 2 * s.X
  BY <1>1 DEF Exact, HalvingStops
<1>3. PICK t : t = Halving(s)
  OBVIOUS
<1>4. /\ t \in Division /\ t.B = b
      /\ t.A = IF s.A >= s.X THEN s.A - s.X ELSE s.A
      /\ t.quotient = IF s.A >= s.X THEN s.quotient + s.per ELSE s.quotient
      /\ t.X = s.X \div 2 /\ t.per = s.per \div 2
  BY <1>1, <1>3, HalvingIs
<1>5. t.quotient * b + t.A = a
  <2>1. CASE s.A >= s.X
    <3>1. (s.quotient + s.per) * b = s.quotient * b + b * s.per
      BY <1>1
    <3>2. s.quotient * b \in Nat /\ b * s.per \in Nat
      BY <1>1, Times
    <3> QED  BY <1>1, <1>2, <1>4, <2>1, <3>1, <3>2
  <2>2. CASE ~(s.A >= s.X)
    BY <1>1, <1>4, <2>2
  <2> QED  BY <2>1, <2>2
<1>6. t.A < s.X
  BY <1>1, <1>2, <1>4
<1>7. CASE s.per = 1
  <2>1. s.X = b
    BY <1>2, <1>7
  <2> QED  BY <1>3, <1>4, <1>5, <1>6, <2>1 DEF Exact
<1>8. CASE s.per # 1
  <2>1. s.per = 2 * t.per /\ PowerOfTwo(t.per)
    BY <1>1, <1>2, <1>4, <1>8, PowersOfTwo
  <2>2. PICK p \in Nat : p = t.per
    BY <1>4 DEF Division
  <2>3. s.X = 2 * (b * p)
    <3>1. b * (2 * p) = 2 * (b * p)
      OBVIOUS
    <3> QED  BY <1>2, <2>1, <2>2, <3>1
  <2>4. t.X = b * p /\ s.X = 2 * t.X
    <3>1. PICK x \in Nat : x = b * p
      BY Times
    <3>2. (2 * x) \div 2 = x
      OBVIOUS
    <3> QED  BY <1>4, <2>3, <3>1, <3>2
  <2> QED  BY <1>3, <1>4, <1>5, <1>6, <2>1, <2>2, <2>4 DEF Exact
<1> QED  BY <1>7, <1>8

LEMMA ExactEnds ==
    ASSUME NEW a \in Nat, NEW b \in Nat \ {0}, NEW s, Exact(a, b, s)
    PROVE  LET qr == Subtracted[s]
           IN  qr.ends /\ qr.quotient = a \div b /\ qr.remainder = a % b
<1> DEFINE inv == { x \in Division : Exact(a, b, x) }
<1> DEFINE mu == [x \in Division |-> x.X]
<1>1. Kept(Division, HalvingStops, HalvingNext, inv, mu)
  <2>1. mu \in [Division -> Nat]
    BY DEF Division
  <2>2. ASSUME NEW x \in inv, x \notin HalvingStops
        PROVE  HalvingNext[x] \in inv /\ mu[HalvingNext[x]] < mu[x]
    <3>1. HalvingNext[x] = Halving(x) /\ Halving(x).X < x.X
      BY <2>2, HalvingShrinks
    <3>2. Exact(a, b, Halving(x)) /\ Halving(x) \in Division
      BY <2>2, ExactNext DEF Exact
    <3> QED  BY <3>1, <3>2
  <2>3. inv \subseteq Division
    OBVIOUS
  <2> HIDE DEF inv, mu
  <2> QED  BY <2>1, <2>2, <2>3 DEF Kept
<1>2. s \in inv
  BY DEF Exact
<1>3. PICK t \in inv : t \in HalvingStops /\ Subtracted[s] = HalvingOut[t]
  <2> HIDE DEF inv, mu
  <2> QED  BY <1>1, <1>2, SubtractedLoop, LoopRule
<1>4. t \in Division /\ Exact(a, b, t)
  BY <1>3
<1>5. t.A < b
  <2>1. SUFFICES ASSUME ~(t.A < b) PROVE FALSE
    OBVIOUS
  <2>2. t.X = 0 /\ PowerOfTwo(t.per) /\ t.X = b * t.per /\ t.per \in Nat
    BY <1>3, <1>4, <2>1 DEF HalvingStops, Exact, Division
  <2>3. t.per # 0
    BY <2>2, PowersOfTwo
  <2>4. b * t.per \in Nat \ {0}
    BY <2>2, <2>3, TimesPositive
  <2> QED  BY <2>2, <2>4
<1>6. t.quotient \in Nat /\ t.A \in Nat /\ t.B = b /\ a = t.quotient * b + t.A
  BY <1>4 DEF Exact, Division
<1>7. a \div b = t.quotient /\ a % b = t.A
  BY <1>5, <1>6, Quotient
<1>8. Subtracted[s] = [quotient |-> t.quotient, remainder |-> t.A, ends |-> t.A < t.B]
  BY <1>3, <1>4 DEF HalvingOut
<1>9. t.A < t.B
  BY <1>5, <1>6
<1>10. Subtracted[s].quotient = a \div b /\ Subtracted[s].remainder = a % b
  BY <1>7, <1>8
<1>11. Subtracted[s].ends
  <2>1. (t.A < t.B) = TRUE
    BY <1>9
  <2>2. Subtracted[s] = [quotient |-> t.quotient, remainder |-> t.A, ends |-> TRUE]
    BY <1>8, <2>1
  <2>3. Subtracted[s].ends = TRUE
    BY <2>2
  <2> QED  BY <2>3
<1> QED  BY <1>10, <1>11

\* From exactly half of the dividend the quotient stays below twice the power.
Missing(p, s) ==
    /\ s \in Division /\ s.quotient + 2 * s.per <= 2 * p
    /\ s.per = 0 => s.quotient < 2 * p

LEMMA MissingNext ==
    ASSUME NEW p \in Nat, NEW s, Missing(p, s)
    PROVE  Missing(p, Halving(s))
<1>1. PICK per \in Nat, q \in Nat : per = s.per /\ q = s.quotient
  BY DEF Missing, Division
<1>2. s \in Division /\ q + 2 * per <= 2 * p /\ (per = 0 => q < 2 * p)
  BY <1>1 DEF Missing
<1>3. PICK t : t = Halving(s)
  OBVIOUS
<1>4. /\ t \in Division /\ t.per = per \div 2 /\ t.quotient \in Nat
      /\ t.quotient = q + per \/ t.quotient = q
  <2>1. /\ t \in Division /\ t.per = s.per \div 2
        /\ t.quotient = IF s.A >= s.X THEN s.quotient + s.per ELSE s.quotient
    BY <1>2, <1>3, HalvingIs
  <2> QED  BY <1>1, <2>1
<1>5. t.quotient + 2 * (per \div 2) <= 2 * p
  BY <1>2, <1>4
<1>6. ASSUME per \div 2 = 0 PROVE t.quotient < 2 * p
  BY <1>2, <1>4, <1>6
<1> QED  BY <1>3, <1>4, <1>5, <1>6 DEF Missing

LEMMA MissingEnds ==
    ASSUME NEW p \in Nat, NEW s, Missing(p, s)
    PROVE  Subtracted[s].quotient < 2 * p
<1> DEFINE inv == { x \in Division : Missing(p, x) }
<1> DEFINE mu == [x \in Division |-> x.X]
<1>1. Kept(Division, HalvingStops, HalvingNext, inv, mu)
  <2>1. mu \in [Division -> Nat]
    BY DEF Division
  <2>2. ASSUME NEW x \in inv, x \notin HalvingStops
        PROVE  HalvingNext[x] \in inv /\ mu[HalvingNext[x]] < mu[x]
    <3>1. HalvingNext[x] = Halving(x) /\ Halving(x).X < x.X
      BY <2>2, HalvingShrinks
    <3>2. Missing(p, Halving(x)) /\ Halving(x) \in Division
      BY <2>2, MissingNext DEF Missing
    <3> QED  BY <3>1, <3>2
  <2>3. inv \subseteq Division
    OBVIOUS
  <2> HIDE DEF inv, mu
  <2> QED  BY <2>1, <2>2, <2>3 DEF Kept
<1>2. s \in inv
  BY DEF Missing
<1>3. PICK t \in inv : t \in HalvingStops /\ Subtracted[s] = HalvingOut[t]
  <2> HIDE DEF inv, mu
  <2> QED  BY <1>1, <1>2, SubtractedLoop, LoopRule
<1>4. t \in Division /\ Missing(p, t) /\ t.per \in Nat /\ t.quotient \in Nat
  BY <1>3 DEF Division
<1>5. t.quotient < 2 * p
  BY <1>4 DEF Missing
<1> QED  BY <1>3, <1>4, <1>5 DEF HalvingOut

LEMMA DivisionIs ==
    ASSUME NEW a \in Nat, NEW b \in Nat \ {0}
    PROVE  DivisionExact(div64_slow(a, b), a, b)
<1>1. PICK t : t = Doubled[Begun(a, b)]
  OBVIOUS
<1>2. AtHalf(t, a, b) /\ div64_slow(a, b) = Subtracted[t]
  BY <1>1, DoubledIs DEF div64_slow
<1>3. /\ t \in Division /\ t.A = a /\ t.B = b /\ t.quotient = 0
      /\ PowerOfTwo(t.per) /\ t.X = b * t.per
      /\ a \div 2 <= t.X
      /\ t.X = a \div 2 <=> Short(a, b)
      /\ t.per \in Nat /\ t.X \in Nat
  BY <1>2 DEF AtHalf, Division
<1>4. t.per # 0 /\ 0 * b + a = a
  BY <1>3, PowersOfTwo
<1>5. ASSUME ~Short(a, b)
      PROVE  LET qr == Subtracted[t]
             IN  qr.ends /\ qr.quotient = a \div b /\ qr.remainder = a % b
  <2>1. a < 2 * t.X
    <3>1. a \div 2 < t.X
      BY <1>3, <1>5
    <3> QED  BY <1>3, <3>1
  <2>2. Exact(a, b, t)
    BY <1>3, <1>4, <2>1 DEF Exact
  <2> QED  BY <2>2, ExactEnds
<1>6. ASSUME Short(a, b) PROVE Subtracted[t].quotient # a \div b
  <2>1. PICK p \in Nat : p = t.per
    BY <1>3
  <2>2. Missing(p, t)
    BY <1>3, <1>4, <2>1 DEF Missing
  <2>3. Subtracted[t].quotient < 2 * p
    BY <2>2, MissingEnds
  <2>4. 2 * p <= a \div b
    <3>1. b * p = a \div 2
      BY <1>3, <1>6, <2>1
    <3>2. (2 * p) * b <= a
      <4>1. (2 * p) * b = 2 * (b * p)
        OBVIOUS
      <4> QED  BY <3>1, <4>1
    <3>3. PICK q \in Nat, r \in Nat : q = a \div b /\ r < b /\ a = q * b + r
      BY DivMod, DivNat
    <3>4. ~(q + 1 <= 2 * p)
      <4>1. SUFFICES ASSUME q + 1 <= 2 * p PROVE FALSE
        OBVIOUS
      <4>2. (q + 1) * b <= (2 * p) * b
        BY <3>3, <4>1, TimesMono
      <4>3. (q + 1) * b = q * b + b /\ q * b \in Nat /\ (2 * p) * b \in Nat
        BY <3>3, Times
      <4> QED  BY <3>2, <3>3, <4>2, <4>3
    <3> QED  BY <3>3, <3>4
  <2>5. 2 * p \in Nat /\ a \div b \in Nat
    BY DivNat
  <2>6. ASSUME Subtracted[t].quotient = a \div b PROVE FALSE
    BY <2>3, <2>4, <2>5, <2>6
  <2> QED  BY <2>6
<1> QED  BY <1>2, <1>5, <1>6 DEF DivisionExact

-----------------------------------------------------------------------------
(* Reading digits.                                                         *)

Reading(v, start, s, base, n) ==
    /\ v[0] = start
    /\ \A i \in 1 .. n : v[i] = v[i - 1] * base + s[i]

Readable(start, s, base, n) ==
    \E v \in [0 .. n -> Nat] : Reading(v, start, s, base, n) /\ Read(start, s, base) = v[n]

LEMMA ReadCount ==
    ASSUME NEW start \in Nat, NEW s \in Seq(Nat), NEW base \in Nat
    PROVE  Readable(start, s, base, Len(s))
<1>1. PICK n \in Nat : n = Len(s)
  OBVIOUS
<1>2. \A i \in 1 .. n : s[i] \in Nat
  BY <1>1
<1> DEFINE step == [x \in (1 .. n) \X Nat |-> x[2] * base + s[x[1]]]
<1> DEFINE v == CHOOSE f : f = [i \in 0 .. n |-> IF i = 0 THEN start ELSE f[i - 1] * base + s[i]]
<1>3. step \in [(1 .. n) \X Nat -> Nat]
  <2>1. ASSUME NEW x \in (1 .. n) \X Nat PROVE x[2] * base + s[x[1]] \in Nat
    <3>1. x[1] \in 1 .. n /\ x[2] \in Nat
      OBVIOUS
    <3>2. x[2] * base \in Nat /\ s[x[1]] \in Nat
      BY <1>2, <3>1, Times
    <3> QED  BY <3>2
  <2> QED  BY <2>1
<1>4. PICK g \in [0 .. n -> Nat] : IsCount(g, n, start, step)
  BY <1>3, Count
<1>5. \A i \in 1 .. n : step[<< i, g[i - 1] >>] = g[i - 1] * base + s[i]
  OBVIOUS
<1> HIDE DEF step
<1>6. g = [i \in 0 .. n |-> IF i = 0 THEN start ELSE g[i - 1] * base + s[i]]
  <2>1. ASSUME NEW i \in 0 .. n
        PROVE g[i] = IF i = 0 THEN start ELSE g[i - 1] * base + s[i]
    <3>1. g[i] = IF i = 0 THEN start ELSE step[<< i, g[i - 1] >>]
      BY <1>4 DEF IsCount
    <3>2. i = 0 \/ i \in 1 .. n
      OBVIOUS
    <3> QED  BY <3>1, <3>2, <1>5
  <2> QED  BY <2>1
<1>7. v = [i \in 0 .. n |-> IF i = 0 THEN start ELSE v[i - 1] * base + s[i]]
  BY <1>6
<1>8. Read(start, s, base) = v[n]
  BY <1>1 DEF Read
<1> HIDE DEF v
<1>9. v[0] = start /\ \A i \in 1 .. n : v[i] = v[i - 1] * base + s[i]
  BY <1>7
<1>10. g[0] = start /\ \A i \in 1 .. n : g[i] = g[i - 1] * base + s[i]
  BY <1>6
<1>11. \A i \in 0 .. n : v[i] = g[i]
  <2>1. Alike(v, g, n)
    BY <1>9, <1>10 DEF Alike
  <2> QED  BY <2>1, Unique
<1>12. Reading(g, start, s, base, n) /\ Read(start, s, base) = g[n]
  BY <1>8, <1>10, <1>11 DEF Reading
<1> QED  BY <1>1, <1>12 DEF Readable

LEMMA HornerLess ==
    ASSUME NEW a \in Nat, NEW b \in Nat, NEW m \in Nat \ {0}, NEW c \in Nat, a < b
    PROVE  a * m + c < b * m + c
<1>1. PICK k \in Nat : k = a + 1 /\ k <= b
  OBVIOUS
<1>2. k * m <= b * m
  BY <1>1, TimesMono
<1>3. k * m = a * m + m /\ a * m \in Nat /\ b * m \in Nat
  BY <1>1, Times
<1> QED  BY <1>2, <1>3

LEMMA ReadIs ==
    ASSUME NEW start \in Nat, NEW s \in Seq(Nat), NEW base \in Nat, NEW v,
           Reading(v, start, s, base, Len(s))
    PROVE  Read(start, s, base) = v[Len(s)]
<1>1. PICK n \in Nat : n = Len(s)
  OBVIOUS
<1>2. PICK w \in [0 .. n -> Nat] :
          Reading(w, start, s, base, n) /\ Read(start, s, base) = w[n]
  BY <1>1, ReadCount DEF Readable
<1>3. Alike(v, w, n)
  BY <1>1, <1>2 DEF Alike, Reading
<1>4. v[n] = w[n]
  BY <1>3, Unique
<1> QED  BY <1>1, <1>2, <1>4

LEMMA ReadNat ==
    ASSUME NEW start \in Nat, NEW s \in Seq(Nat), NEW base \in Nat
    PROVE  Read(start, s, base) \in Nat
<1>1. PICK n \in Nat : n = Len(s)
  OBVIOUS
<1>2. PICK v \in [0 .. n -> Nat] : Read(start, s, base) = v[n]
  BY <1>1, ReadCount DEF Readable
<1> QED  BY <1>2

LEMMA ReadNone ==
    ASSUME NEW start \in Nat, NEW base \in Nat
    PROVE  Read(start, <<>>, base) = start
<1>1. << >> \in Seq(Nat) /\ Len(<< >>) = 0
  OBVIOUS
<1>1a. Readable(start, << >>, base, 0)
  BY <1>1, ReadCount
<1>2. PICK v \in [0 .. 0 -> Nat] :
          Reading(v, start, << >>, base, 0) /\ Read(start, << >>, base) = v[0]
  BY <1>1a DEF Readable
<1> QED  BY <1>2 DEF Reading

LEMMA One == ASSUME NEW S, NEW c \in S PROVE << c >> \in Seq(S) /\ Len(<< c >>) = 1 /\ << c >>[1] = c
  OBVIOUS

LEMMA ReadFront ==
    ASSUME NEW start \in Nat, NEW c \in Nat, NEW s \in Seq(Nat), NEW base \in Nat
    PROVE  Read(start, << c >> \o s, base) = Read(start * base + c, s, base)
<1> DEFINE u == << c >> \o s
<1>1. PICK n \in Nat : n = Len(s)
  OBVIOUS
<1>2. u \in Seq(Nat) /\ Len(u) = n + 1 /\ u[1] = c /\ \A i \in 1 .. n : u[i + 1] = s[i]
  <2>1. << c >> \in Seq(Nat) /\ Len(<< c >>) = 1 /\ << c >>[1] = c
    BY One
  <2>2. /\ u \in Seq(Nat) /\ Len(u) = 1 + n
        /\ \A i \in 1 .. 1 : u[i] = << c >>[i]
        /\ \A j \in 1 .. n : u[1 + j] = s[j]
    BY <1>1, <2>1, Join
  <2> QED  BY <2>1, <2>2
<1> HIDE DEF u
<1>3. PICK v \in [0 .. n + 1 -> Nat] :
          Reading(v, start, u, base, n + 1) /\ Read(start, u, base) = v[n + 1]
  <2>1. Readable(start, u, base, n + 1)
    BY <1>2, ReadCount
  <2> QED  BY <2>1 DEF Readable
<1> DEFINE g == [i \in 0 .. n |-> v[i + 1]]
<1>4. g[0] = start * base + c
  <2>1. g[0] = v[1] /\ 1 \in 1 .. n + 1
    OBVIOUS
  <2>2. v[1] = v[0] * base + u[1] /\ v[0] = start
    BY <1>3, <2>1 DEF Reading
  <2> QED  BY <1>2, <2>1, <2>2
<1>5. ASSUME NEW i \in 1 .. n PROVE g[i] = g[i - 1] * base + s[i]
  <2>1. g[i] = v[i + 1] /\ g[i - 1] = v[i] /\ i + 1 \in 1 .. n + 1 /\ (i + 1) - 1 = i
    OBVIOUS
  <2>2. v[i + 1] = v[i] * base + u[i + 1]
    BY <1>3, <2>1 DEF Reading
  <2> QED  BY <1>2, <2>1, <2>2
<1>6. g[n] = v[n + 1]
  OBVIOUS
<1>7. start * base + c \in Nat
  BY Times
<1> HIDE DEF g
<1>8. Reading(g, start * base + c, s, base, n)
  BY <1>4, <1>5 DEF Reading
<1>9. Read(start * base + c, s, base) = g[n]
  BY <1>1, <1>7, <1>8, ReadIs
<1> QED  BY <1>3, <1>6, <1>9 DEF u

LEMMA ReadBack ==
    ASSUME NEW start \in Nat, NEW c \in Nat, NEW s \in Seq(Nat), NEW base \in Nat
    PROVE  Read(start, s \o << c >>, base) = Read(start, s, base) * base + c
<1> DEFINE u == s \o << c >>
<1>1. PICK n \in Nat : n = Len(s)
  OBVIOUS
<1>2. u \in Seq(Nat) /\ Len(u) = n + 1 /\ u[n + 1] = c /\ \A i \in 1 .. n : u[i] = s[i]
  <2>1. << c >> \in Seq(Nat) /\ Len(<< c >>) = 1 /\ << c >>[1] = c
    BY One
  <2>2. /\ u \in Seq(Nat) /\ Len(u) = n + 1
        /\ \A i \in 1 .. n : u[i] = s[i]
        /\ \A j \in 1 .. 1 : u[n + j] = << c >>[j]
    BY <1>1, <2>1, Join
  <2> QED  BY <2>1, <2>2
<1> HIDE DEF u
<1>3. PICK v \in [0 .. n + 1 -> Nat] :
          Reading(v, start, u, base, n + 1) /\ Read(start, u, base) = v[n + 1]
  <2>1. Readable(start, u, base, n + 1)
    BY <1>2, ReadCount
  <2> QED  BY <2>1 DEF Readable
<1>4. Reading(v, start, s, base, n)
  <2>1. ASSUME NEW i \in 1 .. n PROVE v[i] = v[i - 1] * base + s[i]
    <3>1. i \in 1 .. n + 1
      OBVIOUS
    <3> QED  BY <1>2, <1>3, <3>1 DEF Reading
  <2> QED  BY <1>3, <2>1 DEF Reading
<1>5. Read(start, s, base) = v[n]
  BY <1>1, <1>4, ReadIs
<1>6. v[n + 1] = v[n] * base + c
  <2>1. n + 1 \in 1 .. n + 1 /\ (n + 1) - 1 = n
    OBVIOUS
  <2> QED  BY <1>2, <1>3, <2>1 DEF Reading
<1> QED  BY <1>3, <1>5, <1>6 DEF u

LEMMA ReadLess ==
    ASSUME NEW x \in Nat, NEW y \in Nat, x < y, NEW s \in Seq(Nat), NEW base \in Nat \ {0}
    PROVE  Read(x, s, base) < Read(y, s, base)
<1>1. PICK n \in Nat : n = Len(s)
  OBVIOUS
<1>1a. Readable(x, s, base, n) /\ Readable(y, s, base, n)
  BY <1>1, ReadCount
<1>2. PICK v \in [0 .. n -> Nat] : Reading(v, x, s, base, n) /\ Read(x, s, base) = v[n]
  BY <1>1a DEF Readable
<1>3. PICK w \in [0 .. n -> Nat] : Reading(w, y, s, base, n) /\ Read(y, s, base) = w[n]
  BY <1>1a DEF Readable
<1> DEFINE T == { i \in Nat : i <= n => v[i] < w[i] }
<1>4. 0 \in T
  BY <1>2, <1>3 DEF Reading
<1>5. ASSUME NEW i \in Nat, i \in T PROVE i + 1 \in T
  <2>1. SUFFICES ASSUME i + 1 <= n PROVE v[i + 1] < w[i + 1]
    OBVIOUS
  <2>2. i + 1 \in 1 .. n /\ (i + 1) - 1 = i
    BY <2>1
  <2>3. v[i + 1] = v[i] * base + s[i + 1] /\ w[i + 1] = w[i] * base + s[i + 1]
    BY <1>2, <1>3, <2>2 DEF Reading
  <2>3a. i \in 0 .. n /\ v[i] < w[i]
    BY <1>5, <2>1
  <2>3b. v[i] \in Nat /\ w[i] \in Nat
    BY <2>3a
  <2>3c. s[i + 1] \in Nat
    BY <1>1, <2>2
  <2>4. PICK a \in Nat, b \in Nat, c \in Nat : a = v[i] /\ b = w[i] /\ c = s[i + 1] /\ a < b
    BY <2>3a, <2>3b, <2>3c
  <2>5. a * base + c < b * base + c
    BY <2>4, HornerLess
  <2>6. v[i + 1] = a * base + c /\ w[i + 1] = b * base + c
    BY <2>3, <2>4
  <2> QED  BY <2>5, <2>6
<1> HIDE DEF T
<1>6. Nat \subseteq T
  BY <1>4, <1>5, Induction
<1>7. v[n] < w[n]
  BY <1>6 DEF T
<1> QED  BY <1>2, <1>3, <1>7

-----------------------------------------------------------------------------
(* Division by ten where it goes wrong: five are lost.                     *)

Losing(a, s) ==
    /\ s \in Division /\ s.B = 10
    /\ \/ /\ PowerOfTwo(s.per) /\ s.X = 10 * s.per /\ s.A = 2 * s.X + (a % 2)
          /\ 10 * s.quotient + s.A = a
       \/ /\ s.X = 5 /\ s.per = 0 /\ s.A = 10 + (a % 2)
          /\ 10 * s.quotient + s.A = a
       \/ s.A = 5 + (a % 2) /\ 10 * s.quotient + s.A + 5 = a

LEMMA LosingNext ==
    ASSUME NEW a \in Nat, NEW s, Losing(a, s), s \notin HalvingStops
    PROVE  Losing(a, Halving(s))
<1>1. PICK e \in {0, 1} : e = a % 2
  OBVIOUS
<1>2. PICK q \in Nat, per \in Nat, X \in Nat, A \in Nat :
          q = s.quotient /\ per = s.per /\ X = s.X /\ A = s.A
  BY DEF Losing, Division
<1>3. s \in Division /\ s.B = 10 /\ ~(A < 10) /\ X # 0
  BY <1>2 DEF Losing, HalvingStops
<1>4. PICK t : t = Halving(s)
  OBVIOUS
<1>5. /\ t \in Division /\ t.B = 10 /\ t.X = X \div 2 /\ t.per = per \div 2
      /\ A >= X => t.A = A - X /\ t.quotient = q + per
  <2>1. /\ t \in Division /\ t.B = s.B
        /\ t.A = IF s.A >= s.X THEN s.A - s.X ELSE s.A
        /\ t.quotient = IF s.A >= s.X THEN s.quotient + s.per ELSE s.quotient
        /\ t.X = s.X \div 2 /\ t.per = s.per \div 2
    BY <1>3, <1>4, HalvingIs
  <2> QED  BY <1>2, <1>3, <2>1
<1>6. \/ PowerOfTwo(per) /\ X = 10 * per /\ A = 2 * X + e /\ 10 * q + A = a
      \/ X = 5 /\ per = 0 /\ A = 10 + e /\ 10 * q + A = a
  BY <1>1, <1>2, <1>3 DEF Losing
<1>7. CASE PowerOfTwo(per) /\ X = 10 * per /\ A = 2 * X + e /\ 10 * q + A = a
  <2>1. t.A = X + e /\ t.quotient = q + per /\ 10 * (q + per) + (X + e) = a
    BY <1>5, <1>7
  <2>2. CASE per = 1
    <3>1. t.X = 5 /\ t.per = 0 /\ t.A = 10 + e
      BY <1>5, <1>7, <2>1, <2>2
    <3> QED  BY <1>1, <1>4, <1>5, <2>1, <3>1 DEF Losing
  <2>3. CASE per # 1
    <3>1. PICK p \in Nat : per = 2 * p /\ PowerOfTwo(p) /\ t.per = p
      <4>1. per \div 2 \in Nat /\ per = 2 * (per \div 2) /\ PowerOfTwo(per \div 2)
        BY <1>7, <2>3, PowersOfTwo
      <4> QED  BY <1>5, <4>1
    <3>2. t.X = 10 * p /\ X = 2 * (10 * p)
      BY <1>5, <1>7, <3>1
    <3>3. t.A = 2 * t.X + (a % 2) /\ 10 * t.quotient + t.A = a
      BY <1>1, <2>1, <3>2
    <3> QED  BY <1>4, <1>5, <3>1, <3>2, <3>3 DEF Losing
  <2> QED  BY <2>2, <2>3
<1>8. CASE X = 5 /\ per = 0 /\ A = 10 + e /\ 10 * q + A = a
  <2>1. t.A = 5 + e /\ t.quotient = q
    BY <1>5, <1>8
  <2>2. 10 * t.quotient + t.A + 5 = a
    BY <1>8, <2>1
  <2> QED  BY <1>1, <1>4, <1>5, <2>1, <2>2 DEF Losing
<1> QED  BY <1>6, <1>7, <1>8

LEMMA LosingEnds ==
    ASSUME NEW a \in Nat, NEW s, Losing(a, s)
    PROVE  LET qr == Subtracted[s]
           IN  /\ qr.quotient \in Nat /\ qr.remainder \in {5, 6}
               /\ 10 * qr.quotient + qr.remainder + 5 = a
<1> DEFINE inv == { x \in Division : Losing(a, x) }
<1> DEFINE mu == [x \in Division |-> x.X]
<1>1. Kept(Division, HalvingStops, HalvingNext, inv, mu)
  <2>1. mu \in [Division -> Nat]
    BY DEF Division
  <2>2. ASSUME NEW x \in inv, x \notin HalvingStops
        PROVE  HalvingNext[x] \in inv /\ mu[HalvingNext[x]] < mu[x]
    <3>1. HalvingNext[x] = Halving(x) /\ Halving(x).X < x.X
      BY <2>2, HalvingShrinks
    <3>2. Losing(a, Halving(x)) /\ Halving(x) \in Division
      BY <2>2, LosingNext DEF Losing
    <3> QED  BY <3>1, <3>2
  <2>3. inv \subseteq Division
    OBVIOUS
  <2> HIDE DEF inv, mu
  <2> QED  BY <2>1, <2>2, <2>3 DEF Kept
<1>2. s \in inv
  BY DEF Losing
<1>3. PICK t \in inv : t \in HalvingStops /\ Subtracted[s] = HalvingOut[t]
  <2> HIDE DEF inv, mu
  <2> QED  BY <1>1, <1>2, SubtractedLoop, LoopRule
<1>4. t \in Division /\ Losing(a, t) /\ t.B = 10
  BY <1>3 DEF Losing
<1>5. PICK q \in Nat, per \in Nat, X \in Nat, A \in Nat, e \in {0, 1} :
          q = t.quotient /\ per = t.per /\ X = t.X /\ A = t.A /\ e = a % 2
  BY <1>4 DEF Division
<1>6. A < 10 \/ X = 0
  BY <1>3, <1>4, <1>5 DEF HalvingStops
<1>7. A = 5 + e /\ 10 * q + A + 5 = a
  <2>1. CASE PowerOfTwo(per) /\ X = 10 * per /\ A = 2 * X + e
    <3>1. per # 0
      BY <2>1, PowersOfTwo
    <3> QED  BY <1>6, <2>1, <3>1
  <2>2. CASE X = 5 /\ A = 10 + e
    BY <1>6, <2>2
  <2> QED  BY <1>4, <1>5, <2>1, <2>2 DEF Losing
<1>8. Subtracted[s] = [quotient |-> q, remainder |-> A, ends |-> t.A < t.B]
  BY <1>3, <1>4, <1>5 DEF HalvingOut
<1>9. Subtracted[s].quotient = q /\ Subtracted[s].remainder = A
  BY <1>8
<1> QED  BY <1>7, <1>9

TenDivided(a, qr) ==
    /\ qr.quotient \in Nat /\ qr.remainder \in 0 .. 9
    /\ a # 0 => qr.quotient < a
    /\ ~Short(a, 10) => qr.quotient = a \div 10 /\ qr.remainder = a % 10
    /\ Short(a, 10) => 10 * qr.quotient + qr.remainder < a

LEMMA TenDividedIs ==
    ASSUME NEW a \in Nat
    PROVE  TenDivided(a, div64_slow(a, 10))
<1>0. 10 \in Nat \ {0}
  OBVIOUS
<1>1. PICK qr : qr = div64_slow(a, 10)
  OBVIOUS
<1>2. CASE ~Short(a, 10)
  <2>1. qr.quotient = a \div 10 /\ qr.remainder = a % 10
    BY <1>0, <1>1, <1>2, DivisionIs DEF DivisionExact
  <2>2. a \div 10 \in Nat /\ a % 10 \in 0 .. 9 /\ (a # 0 => a \div 10 < a)
    OBVIOUS
  <2> QED  BY <1>1, <1>2, <2>1, <2>2 DEF TenDivided
<1>3. CASE Short(a, 10)
  <2>1. PICK t : t = Doubled[Begun(a, 10)]
    OBVIOUS
  <2>2. AtHalf(t, a, 10) /\ qr = Subtracted[t]
    BY <1>0, <1>1, <2>1, DoubledIs DEF div64_slow
  <2>3. /\ t \in Division /\ t.A = a /\ t.B = 10 /\ t.quotient = 0
        /\ PowerOfTwo(t.per) /\ t.X = 10 * t.per /\ t.X = a \div 2
    BY <1>3, <2>2 DEF AtHalf
  <2>4. t.A = 2 * t.X + (a % 2) /\ 10 * t.quotient + t.A = a
    BY <2>3
  <2>5. Losing(a, t)
    BY <2>3, <2>4 DEF Losing
  <2>6. /\ qr.quotient \in Nat /\ qr.remainder \in {5, 6}
        /\ 10 * qr.quotient + qr.remainder + 5 = a
    BY <2>2, <2>5, LosingEnds
  <2>7. qr.remainder \in 0 .. 9 /\ qr.quotient < a /\ 10 * qr.quotient + qr.remainder < a
    BY <2>6
  <2> QED  BY <1>1, <1>3, <2>6, <2>7 DEF TenDivided
<1> QED  BY <1>2, <1>3

-----------------------------------------------------------------------------
(* Digits.  A state is what is left of the number and the buffer.          *)

Buffers == Nat \X Seq(Nat)
DigitStops == { s \in Buffers : s[1] = 0 }
DigitOut   == [s \in Buffers |-> s[2]]
DigitNext  == [s \in Buffers |-> << s[1] \div 10, << s[1] % 10 >> \o s[2] >>]
LongNext   == [s \in Buffers |-> << div64_slow(s[1], 10).quotient,
                                    << div64_slow(s[1], 10).remainder >> \o s[2] >>]

LEMMA Fronted ==
    ASSUME NEW c \in Nat, NEW s \in Seq(Nat)
    PROVE  /\ << c >> \o s \in Seq(Nat) /\ Len(<< c >> \o s) = Len(s) + 1
           /\ (<< c >> \o s)[1] = c
           /\ \A i \in 1 .. Len(s) : (<< c >> \o s)[i + 1] = s[i]
<1> DEFINE u == << c >> \o s
<1>1. PICK n \in Nat : n = Len(s)
  OBVIOUS
<1>2. << c >> \in Seq(Nat) /\ Len(<< c >>) = 1 /\ << c >>[1] = c
  BY One
<1>3. /\ u \in Seq(Nat) /\ Len(u) = 1 + n
      /\ \A i \in 1 .. 1 : u[i] = << c >>[i]
      /\ \A j \in 1 .. n : u[1 + j] = s[j]
  BY <1>1, <1>2, Join
<1> HIDE DEF u
<1>4. u \in Seq(Nat) /\ Len(u) = n + 1 /\ u[1] = c /\ \A i \in 1 .. n : u[i + 1] = s[i]
  BY <1>2, <1>3
<1> QED  BY <1>1, <1>4 DEF u

LEMMA DigitsLoop == IsLoop(Digits, Buffers, DigitStops, DigitOut, DigitNext)
<1>1. DigitNext \in [Buffers -> Buffers]
  <2>1. ASSUME NEW s \in Buffers PROVE << s[1] \div 10, << s[1] % 10 >> \o s[2] >> \in Buffers
    <3>1. s[1] \in Nat /\ s[2] \in Seq(Nat) /\ s[1] \div 10 \in Nat /\ s[1] % 10 \in Nat
      BY DEF Buffers
    <3>2. << s[1] % 10 >> \o s[2] \in Seq(Nat)
      BY <3>1, Fronted
    <3> QED  BY <3>1, <3>2 DEF Buffers
  <2> QED  BY <2>1 DEF DigitNext
<1>2. PICK g : IsLoop(g, Buffers, DigitStops, DigitOut, DigitNext)
  BY <1>1, Loop
<1>3. g = [s \in Buffers |-> IF s[1] = 0 THEN s[2]
                             ELSE g[<< s[1] \div 10, << s[1] % 10 >> \o s[2] >>]]
  BY <1>2 DEF IsLoop, DigitStops, DigitOut, DigitNext
<1>4. Digits = [s \in Buffers |-> IF s[1] = 0 THEN s[2]
                                  ELSE Digits[<< s[1] \div 10, << s[1] % 10 >> \o s[2] >>]]
  <2>1. Digits = CHOOSE f :
            f = [s \in Buffers |-> IF s[1] = 0 THEN s[2]
                                   ELSE f[<< s[1] \div 10, << s[1] % 10 >> \o s[2] >>]]
    BY DEF Digits, Buffers
  <2> QED  BY <1>3, <2>1
<1> QED  BY <1>4 DEF IsLoop, DigitStops, DigitOut, DigitNext

LEMMA LongDigitsLoop == IsLoop(LongDigits, Buffers, DigitStops, DigitOut, LongNext)
<1> DEFINE next(s) == << div64_slow(s[1], 10).quotient,
                         << div64_slow(s[1], 10).remainder >> \o s[2] >>
<1>1. LongNext \in [Buffers -> Buffers]
  <2>1. ASSUME NEW s \in Buffers PROVE next(s) \in Buffers
    <3>1. s[1] \in Nat /\ s[2] \in Seq(Nat)
      BY DEF Buffers
    <3>2. TenDivided(s[1], div64_slow(s[1], 10))
      BY <3>1, TenDividedIs
    <3>3. div64_slow(s[1], 10).quotient \in Nat /\ div64_slow(s[1], 10).remainder \in Nat
      BY <3>2 DEF TenDivided
    <3>4. << div64_slow(s[1], 10).remainder >> \o s[2] \in Seq(Nat)
      BY <3>1, <3>3, Fronted
    <3> QED  BY <3>3, <3>4 DEF Buffers
  <2> HIDE DEF next
  <2>2. LongNext = [s \in Buffers |-> next(s)]
    BY DEF LongNext, next
  <2> QED  BY <2>1, <2>2
<1>2. PICK g : IsLoop(g, Buffers, DigitStops, DigitOut, LongNext)
  BY <1>1, Loop
<1>3. \A s \in Buffers : LongNext[s] = next(s)
  BY DEF LongNext
<1>4. LongDigits = CHOOSE f :
          f = [s \in Buffers |-> IF s[1] = 0 THEN s[2] ELSE f[next(s)]]
  BY DEF LongDigits, Buffers
<1> HIDE DEF next
<1>5. g = [s \in Buffers |-> IF s[1] = 0 THEN s[2] ELSE g[next(s)]]
  BY <1>2, <1>3 DEF IsLoop, DigitStops, DigitOut
<1>6. LongDigits = [s \in Buffers |-> IF s[1] = 0 THEN s[2] ELSE LongDigits[next(s)]]
  BY <1>4, <1>5
<1> QED  BY <1>3, <1>6 DEF IsLoop, DigitStops, DigitOut

\* Decimal digits, with the last that was written in front.
Tens(s) == s \in Seq(Nat) /\ \A i \in 1 .. Len(s) : s[i] \in 0 .. 9

LEMMA TensFronted ==
    ASSUME NEW c \in 0 .. 9, NEW s, Tens(s)
    PROVE  Tens(<< c >> \o s) /\ << c >> \o s # << >> /\ (<< c >> \o s)[1] = c
<1>1. s \in Seq(Nat) /\ c \in Nat /\ \A i \in 1 .. Len(s) : s[i] \in 0 .. 9
  BY DEF Tens
<1>1a. PICK n \in Nat : n = Len(s)
  BY <1>1
<1>1b. PICK u : u = << c >> \o s
  OBVIOUS
<1>2. u = << c >> \o s /\ n = Len(s)
  BY <1>1a, <1>1b
<1>3. u \in Seq(Nat) /\ Len(u) = n + 1 /\ u[1] = c /\ \A i \in 1 .. n : u[i + 1] = s[i]
  BY <1>1, <1>2, Fronted
<1>4. ASSUME NEW i \in 1 .. n + 1 PROVE u[i] \in 0 .. 9
  <2>1. CASE i = 1
    BY <1>3, <2>1
  <2>2. CASE i # 1
    <3>1. i - 1 \in 1 .. n /\ (i - 1) + 1 = i
      BY <2>2
    <3> QED  BY <1>1, <1>2, <1>3, <3>1
  <2> QED  BY <2>1, <2>2
<1>5. u # << >>
  BY <1>3
<1> QED  BY <1>2, <1>3, <1>4, <1>5 DEF Tens

LEMMA Empty == << >> \in Seq(Nat)
  OBVIOUS

LEMMA TensNone == Tens(<< >>)
  BY DEF Tens

\* The buffer, read behind what is left, is the number.
Filled(num, s) ==
    /\ s \in Buffers /\ Tens(s[2]) /\ Read(s[1], s[2], 10) = num
    /\ s[1] = 0 => s[2] # << >> /\ s[2][1] # 0

LEMMA FilledNext ==
    ASSUME NEW num \in Nat, NEW s, Filled(num, s), s \notin DigitStops
    PROVE  Filled(num, DigitNext[s]) /\ DigitNext[s][1] < s[1]
<1>1. s \in Buffers /\ s[1] \in Nat /\ s[2] \in Seq(Nat) /\ Tens(s[2]) /\ Read(s[1], s[2], 10) = num
  BY DEF Filled, Buffers
<1>2. PICK a \in Nat \ {0} : a = s[1]
  BY <1>1 DEF DigitStops
<1>3. PICK q \in Nat, c \in 0 .. 9 : q = a \div 10 /\ c = a % 10 /\ q * 10 + c = a /\ q < a
  OBVIOUS
<1>4. PICK t : t = << c >> \o s[2]
  OBVIOUS
<1>5. DigitNext[s] = << q, t >>
  BY <1>1, <1>2, <1>3, <1>4 DEF DigitNext
<1>6. Tens(t) /\ t # << >> /\ t[1] = c /\ t \in Seq(Nat)
  BY <1>1, <1>4, TensFronted DEF Tens
<1>7. Read(q, t, 10) = num
  <2>1. Read(q, t, 10) = Read(q * 10 + c, s[2], 10)
    BY <1>1, <1>4, ReadFront
  <2> QED  BY <1>1, <1>2, <1>3, <2>1
<1>8. q = 0 => c # 0
  BY <1>3
<1>9. << q, t >> \in Buffers /\ << q, t >>[1] = q /\ << q, t >>[2] = t
  BY <1>6 DEF Buffers
<1>10. Filled(num, << q, t >>)
  BY <1>6, <1>7, <1>8, <1>9 DEF Filled
<1> QED  BY <1>2, <1>3, <1>5, <1>9, <1>10

LEMMA DigitsAre ==
    ASSUME NEW num \in Nat \ {0}
    PROVE  LET s == Digits[<< num, << >> >>]
           IN  Tens(s) /\ s # << >> /\ s[1] # 0 /\ Read(0, s, 10) = num
<1> DEFINE inv == { x \in Buffers : Filled(num, x) }
<1> DEFINE mu == [x \in Buffers |-> x[1]]
<1>1. Kept(Buffers, DigitStops, DigitNext, inv, mu)
  <2>1. mu \in [Buffers -> Nat]
    BY DEF Buffers
  <2>2. ASSUME NEW x \in inv, x \notin DigitStops
        PROVE  DigitNext[x] \in inv /\ mu[DigitNext[x]] < mu[x]
    <3>1. Filled(num, DigitNext[x]) /\ DigitNext[x][1] < x[1]
      BY <2>2, FilledNext
    <3>2. DigitNext[x] \in Buffers
      BY <3>1 DEF Filled
    <3> QED  BY <3>1, <3>2
  <2>3. inv \subseteq Buffers
    OBVIOUS
  <2> HIDE DEF inv, mu
  <2> QED  BY <2>1, <2>2, <2>3 DEF Kept
<1>2. << num, << >> >> \in inv
  <2>1. PICK e \in Seq(Nat) : e = << >>
    BY Empty, Zenon
  <2>1a. << num, e >> \in Buffers /\ << num, e >>[1] = num /\ << num, e >>[2] = e
    BY DEF Buffers
  <2>2. Read(num, << >>, 10) = num
    BY ReadNone
  <2>3. Filled(num, << num, e >>)
    BY <2>1, <2>1a, <2>2, TensNone DEF Filled
  <2> QED  BY <2>1, <2>1a, <2>3
<1>3. PICK t \in inv : t \in DigitStops /\ Digits[<< num, << >> >>] = DigitOut[t]
  <2> HIDE DEF inv, mu
  <2> QED  BY <1>1, <1>2, DigitsLoop, LoopRule
<1>4. t \in Buffers /\ Filled(num, t) /\ t[1] = 0
  BY <1>3 DEF DigitStops
<1>5. Digits[<< num, << >> >>] = t[2]
  BY <1>3, <1>4 DEF DigitOut
<1> QED  BY <1>4, <1>5 DEF Filled

\* Digits that are the number in base ten.
UIntOk(s, num) == Tens(s) /\ s # << >> /\ Decimal(s, num)

LEMMA ReadOne ==
    ASSUME NEW c \in Nat
    PROVE  Read(0, << c >>, 10) = c
<1>0. PICK e \in Seq(Nat) : e = << >>
  BY Empty, Zenon
<1>0a. PICK z \in Nat : z = 0
  OBVIOUS
<1>1. e = << >> /\ z = 0
  BY <1>0, <1>0a
<1>2. << c >> \o e = << c >>
  BY <1>1, One, ConcatEmptySeq
<1>3. Read(z, << c >> \o e, 10) = Read(z * 10 + c, e, 10)
  BY ReadFront
<1>4. z * 10 + c = c
  BY <1>1
<1>5. Read(c, e, 10) = c
  BY <1>1, ReadNone
<1> QED  BY <1>1, <1>2, <1>3, <1>4, <1>5

LEMMA ZeroOk == UIntOk(<< 0 >>, 0)
<1>0. PICK z \in Nat : z = 0
  OBVIOUS
<1>0a. PICK s \in Seq(Nat) : s = << z >>
  BY One, Zenon
<1>1. s = << z >> /\ s = << 0 >>
  BY <1>0, <1>0a
<1>2. Len(s) = 1 /\ s[1] = z /\ s # << >>
  BY <1>1, One
<1>3. Read(0, s, 10) = 0
  BY <1>1, ReadOne
<1>4. Tens(s)
  BY <1>1, <1>2 DEF Tens
<1>5. Decimal(s, 0)
  BY <1>2, <1>3, <1>4 DEF Decimal, Value, Tens
<1> QED  BY <1>1, <1>2, <1>4, <1>5 DEF UIntOk

\* What writeUInt prints is the number in base ten.
LEMMA UIntIs ==
    ASSUME NEW num \in Nat
    PROVE  UIntOk(writeUInt(num), num)
<1>1. CASE num = 0
  BY <1>1, ZeroOk DEF writeUInt
<1>2. CASE num # 0
  <2>1. PICK s : s = writeUInt(num)
    OBVIOUS
  <2>2. s = Digits[<< num, << >> >>]
    BY <1>2, <2>1 DEF writeUInt
  <2>3. Tens(s) /\ s # << >> /\ s[1] # 0 /\ Read(0, s, 10) = num
    BY <1>2, <2>2, DigitsAre
  <2>4. UIntOk(s, num)
    BY <2>3 DEF UIntOk, Decimal, Value, Tens
  <2> QED  BY <2>1, <2>4
<1> QED  BY <1>1, <1>2
-----------------------------------------------------------------------------
(* Signs.                                                                  *)

LEMMA SignedIs ==
    ASSUME NEW width \in Nat \ {0, 1}, NEW num \in 0 .. width - 1
    PROVE  /\ num >= width \div 2 => /\ Signed(num, width) = num - width
                                     /\ Signed(num, width) < 0
                                     /\ (width - num) % width = width - num
           /\ ~(num >= width \div 2) => Signed(num, width) = num
           /\ Magnitude(Signed(num, width)) =
                  IF num >= width \div 2 THEN (width - num) % width ELSE num
           /\ width \div 2 \in Nat \ {0}
<1>1. PICK h \in Nat \ {0} : h = width \div 2
  OBVIOUS
<1>2. CASE num >= h
  <2>1. PICK m \in Nat : m = width - num /\ m < width
    BY <1>1, <1>2
  <2>2. m % width = m
    BY <2>1
  <2>3. Signed(num, width) = num - width
    BY <1>1, <1>2 DEF Signed
  <2>4. Magnitude(num - width) = width - num /\ num - width < 0
    BY DEF Magnitude
  <2> QED  BY <1>1, <1>2, <2>1, <2>2, <2>3, <2>4
<1>3. CASE ~(num >= h)
  <2>1. Signed(num, width) = num
    BY <1>1, <1>3 DEF Signed
  <2>2. Magnitude(num) = num
    BY DEF Magnitude
  <2> QED  BY <1>1, <1>3, <2>1, <2>2
<1> QED  BY <1>2, <1>3

LEMMA TailFronted ==
    ASSUME NEW c \in Nat, NEW s \in Seq(Nat)
    PROVE  Tail(<< c >> \o s) = s
<1>0. PICK u : u = << c >> \o s
  OBVIOUS
<1>1. PICK n \in Nat : n = Len(s)
  OBVIOUS
<1>2. u \in Seq(Nat) /\ Len(u) = n + 1 /\ \A i \in 1 .. n : u[i + 1] = s[i]
  BY <1>0, <1>1, Fronted
<1>3. u # << >>
  BY <1>2
<1>4. Tail(u) \in Seq(Nat) /\ Len(Tail(u)) = n /\ \A i \in 1 .. n : Tail(u)[i] = u[i + 1]
  BY <1>2, <1>3
<1>5. \A i \in 1 .. n : Tail(u)[i] = s[i]
  BY <1>2, <1>4
<1>6. Tail(u) = s
  BY <1>1, <1>4, <1>5, SeqEqual
<1> QED  BY <1>0, <1>6

\* The sign is right whatever the digits are.
LEMMA SignOk ==
    ASSUME NEW width \in Nat \ {0, 1}, NEW num \in 0 .. width - 1,
           NEW s, Tens(s), s # << >>
    PROVE  IntExact(IF num >= width \div 2 THEN << Minus >> \o s ELSE s, num, width)
               <=> Decimal(s, Magnitude(Signed(num, width)))
<1>1. s \in Seq(Nat) /\ s[1] \in 0 .. 9 /\ Minus \in Nat /\ Minus \notin 0 .. 9
  BY DEF Tens, Minus
<1>2. CASE num >= width \div 2
  <2>1. PICK t : t = << Minus >> \o s
    OBVIOUS
  <2>2. t[1] = Minus /\ Tail(t) = s
    BY <1>1, <2>1, Fronted, TailFronted
  <2>3. Signed(num, width) < 0
    BY <1>2, SignedIs
  <2>4. IntExact(t, num, width) <=> Decimal(s, Magnitude(Signed(num, width)))
    BY <2>2, <2>3 DEF IntExact
  <2> QED  BY <1>2, <2>1, <2>4
<1>3. CASE ~(num >= width \div 2)
  <2>1. ~(Signed(num, width) < 0)
    BY <1>3, SignedIs
  <2>2. IntExact(s, num, width) <=> Decimal(s, Magnitude(Signed(num, width)))
    BY <1>1, <2>1 DEF IntExact
  <2> QED  BY <1>3, <2>2
<1> QED  BY <1>2, <1>3

LEMMA IntIs ==
    ASSUME NEW num \in 0 .. U32 - 1
    PROVE  IntExact(writeInt(num), num, U32)
<1>1. PICK m \in Nat : m = Magnitude(Signed(num, U32))
  <2>1. U32 \in Nat \ {0, 1}
    BY U32Is
  <2>2. Magnitude(Signed(num, U32)) \in Nat
    BY <2>1, SignedIs
  <2> QED  BY <2>2
<1>2. m = IF num >= U32 \div 2 THEN (U32 - num) % U32 ELSE num
  BY <1>1, U32Is, SignedIs
<1>3. UIntOk(writeUInt(m), m)
  BY UIntIs
<1>4. writeInt(num) =
          IF num >= U32 \div 2 THEN << Minus >> \o writeUInt(m) ELSE writeUInt(m)
  BY <1>2 DEF writeInt
<1> QED  BY <1>1, <1>3, <1>4, U32Is, SignOk DEF UIntOk
-----------------------------------------------------------------------------
(* Long integers.  Once one division has gone wrong, less than the number  *)
(* is printed.                                                             *)

LEMMA WrongAtIs ==
    \A q \in Nat : WrongAt[q] = IF q = 0 \/ Short(q, 10) THEN q ELSE WrongAt[q \div 10]
<1> DEFINE stop == { q \in Nat : q = 0 \/ Short(q, 10) }
<1> DEFINE out == [q \in Nat |-> q]
<1> DEFINE nxt == [q \in Nat |-> q \div 10]
<1>1. nxt \in [Nat -> Nat]
  BY DivNat
<1>2. PICK g : IsLoop(g, Nat, stop, out, nxt)
  <2> HIDE DEF stop, out, nxt
  <2> QED  BY <1>1, Loop
<1>3. g = [q \in Nat |-> IF q = 0 \/ Short(q, 10) THEN q ELSE g[q \div 10]]
  BY <1>2 DEF IsLoop
<1>4. WrongAt = [q \in Nat |-> IF q = 0 \/ Short(q, 10) THEN q ELSE WrongAt[q \div 10]]
  <2>1. WrongAt = CHOOSE f : f = [q \in Nat |-> IF q = 0 \/ Short(q, 10) THEN q ELSE f[q \div 10]]
    BY DEF WrongAt
  <2> QED  BY <1>3, <2>1
<1> QED  BY <1>4

\* The number as long as every division was right, and less afterwards.
AllRight(num, x, s) == Read(x, s, 10) = num /\ WrongAt[x] = WrongAt[num] /\ (x = 0 => s[1] # 0)
LessRead(num, x, s) == Read(x, s, 10) < num /\ WrongAt[num] # 0
LongFilled(num, s) ==
    /\ s \in Buffers /\ Tens(s[2]) /\ (s[1] = 0 => s[2] # << >>)
    /\ AllRight(num, s[1], s[2]) \/ LessRead(num, s[1], s[2])

LEMMA ReadMono ==
    ASSUME NEW x \in Nat, NEW y \in Nat, x <= y, NEW s \in Seq(Nat)
    PROVE  Read(x, s, 10) <= Read(y, s, 10)
<1>1. Read(x, s, 10) \in Nat /\ Read(y, s, 10) \in Nat
  BY ReadNat
<1>2. CASE x = y
  BY <1>1, <1>2
<1>3. CASE x < y
  BY <1>1, <1>3, ReadLess
<1> QED  BY <1>2, <1>3

LEMMA RightNext ==
    ASSUME NEW num \in Nat, NEW x \in Nat \ {0}, NEW s \in Seq(Nat), NEW q \in Nat, NEW r \in 0 .. 9,
           ~Short(x, 10), q = x \div 10, r = x % 10, AllRight(num, x, s)
    PROVE  AllRight(num, q, << r >> \o s)
<1>1. Read(q, << r >> \o s, 10) = Read(q * 10 + r, s, 10)
  BY ReadFront
<1>2. q * 10 + r = x
  OBVIOUS
<1>3. WrongAt[x] = WrongAt[q]
  BY WrongAtIs
<1>4. (<< r >> \o s)[1] = r
  BY Fronted
<1>5. q = 0 => r # 0
  BY <1>2
<1> QED  BY <1>1, <1>2, <1>3, <1>4, <1>5 DEF AllRight

LEMMA WrongNext ==
    ASSUME NEW num \in Nat, NEW x \in Nat \ {0}, NEW s \in Seq(Nat), NEW q \in Nat, NEW r \in 0 .. 9,
           Short(x, 10), 10 * q + r < x, AllRight(num, x, s)
    PROVE  LessRead(num, q, << r >> \o s)
<1>1. Read(q, << r >> \o s, 10) = Read(q * 10 + r, s, 10)
  BY ReadFront
<1>2. PICK y \in Nat : y = q * 10 + r /\ y < x
  OBVIOUS
<1>3. Read(y, s, 10) < Read(x, s, 10)
  BY <1>2, ReadLess
<1>4. WrongAt[x] = x
  BY WrongAtIs
<1> QED  BY <1>1, <1>2, <1>3, <1>4 DEF AllRight, LessRead

LEMMA LessNext ==
    ASSUME NEW num \in Nat, NEW x \in Nat, NEW s \in Seq(Nat), NEW q \in Nat, NEW r \in 0 .. 9,
           10 * q + r <= x, LessRead(num, x, s)
    PROVE  LessRead(num, q, << r >> \o s)
<1>1. Read(q, << r >> \o s, 10) = Read(q * 10 + r, s, 10)
  BY ReadFront
<1>2. PICK y \in Nat : y = q * 10 + r /\ y <= x
  OBVIOUS
<1>3. Read(y, s, 10) <= Read(x, s, 10) /\ Read(y, s, 10) \in Nat /\ Read(x, s, 10) \in Nat
  BY <1>2, ReadMono, ReadNat
<1> QED  BY <1>1, <1>2, <1>3 DEF LessRead

LEMMA LongFilledNext ==
    ASSUME NEW num \in Nat, NEW s, LongFilled(num, s), s \notin DigitStops
    PROVE  LongFilled(num, LongNext[s]) /\ LongNext[s][1] < s[1]
<1>1. s \in Buffers /\ s[1] \in Nat /\ s[2] \in Seq(Nat) /\ Tens(s[2])
  BY DEF LongFilled, Buffers
<1>2. PICK x \in Nat \ {0} : x = s[1]
  BY <1>1 DEF DigitStops
<1>3. PICK b \in Seq(Nat) : b = s[2]
  BY <1>1
<1>4. PICK qr : qr = div64_slow(x, 10)
  OBVIOUS
<1>5. TenDivided(x, qr)
  BY <1>4, TenDividedIs
<1>6. PICK q \in Nat, r \in 0 .. 9 : q = qr.quotient /\ r = qr.remainder
  BY <1>5 DEF TenDivided
<1>7. /\ q < x
      /\ ~Short(x, 10) => q = x \div 10 /\ r = x % 10
      /\ Short(x, 10) => 10 * q + r < x
  BY <1>5, <1>6 DEF TenDivided
<1>8. PICK t : t = << r >> \o b
  OBVIOUS
<1>9. LongNext[s] = << q, t >>
  BY <1>1, <1>2, <1>3, <1>4, <1>6, <1>8 DEF LongNext
<1>10. Tens(t) /\ t # << >> /\ t \in Seq(Nat)
  BY <1>1, <1>3, <1>8, TensFronted DEF Tens
<1>11. AllRight(num, x, b) \/ LessRead(num, x, b)
  BY <1>2, <1>3 DEF LongFilled
<1>12. AllRight(num, q, t) \/ LessRead(num, q, t)
  <2>1. CASE LessRead(num, x, b)
    <3>1. 10 * q + r <= x
      <4>1. CASE Short(x, 10)
        BY <1>7, <4>1
      <4>2. CASE ~Short(x, 10)
        BY <1>7, <4>2
      <4> QED  BY <4>1, <4>2
    <3> QED  BY <1>8, <2>1, <3>1, LessNext
  <2>2. CASE AllRight(num, x, b) /\ Short(x, 10)
    BY <1>7, <1>8, <2>2, WrongNext
  <2>3. CASE AllRight(num, x, b) /\ ~Short(x, 10)
    BY <1>7, <1>8, <2>3, RightNext
  <2> QED  BY <1>11, <2>1, <2>2, <2>3
<1>13. << q, t >> \in Buffers /\ << q, t >>[1] = q /\ << q, t >>[2] = t
  BY <1>10 DEF Buffers
<1>14. LongFilled(num, << q, t >>)
  BY <1>10, <1>12, <1>13 DEF LongFilled
<1> QED  BY <1>2, <1>7, <1>9, <1>13, <1>14

\* What writeUInt64 prints is the number when every division on the way is
\* right, and only then.
LongOk(s, num) == Tens(s) /\ s # << >> /\ (Decimal(s, num) <=> LongExact(num))

LEMMA LongDigitsAre ==
    ASSUME NEW num \in Nat \ {0}
    PROVE  LongOk(LongDigits[<< num, << >> >>], num)
<1> DEFINE inv == { x \in Buffers : LongFilled(num, x) }
<1> DEFINE mu == [x \in Buffers |-> x[1]]
<1>1. Kept(Buffers, DigitStops, LongNext, inv, mu)
  <2>1. mu \in [Buffers -> Nat]
    BY DEF Buffers
  <2>2. ASSUME NEW x \in inv, x \notin DigitStops
        PROVE  LongNext[x] \in inv /\ mu[LongNext[x]] < mu[x]
    <3>1. LongFilled(num, LongNext[x]) /\ LongNext[x][1] < x[1]
      BY <2>2, LongFilledNext
    <3>2. LongNext[x] \in Buffers
      BY <3>1 DEF LongFilled
    <3> QED  BY <3>1, <3>2
  <2>3. inv \subseteq Buffers
    OBVIOUS
  <2> HIDE DEF inv, mu
  <2> QED  BY <2>1, <2>2, <2>3 DEF Kept
<1>2. << num, << >> >> \in inv
  <2>1. PICK e \in Seq(Nat) : e = << >>
    BY Empty, Zenon
  <2>2. << num, e >> \in Buffers /\ << num, e >>[1] = num /\ << num, e >>[2] = e
    BY DEF Buffers
  <2>3. Read(num, e, 10) = num
    BY <2>1, ReadNone
  <2>4. AllRight(num, num, e)
    BY <2>3 DEF AllRight
  <2>5. LongFilled(num, << num, e >>)
    BY <2>1, <2>2, <2>4, TensNone DEF LongFilled
  <2> QED  BY <2>1, <2>2, <2>5
<1>3. PICK t \in inv : t \in DigitStops /\ LongDigits[<< num, << >> >>] = DigitOut[t]
  <2> HIDE DEF inv, mu
  <2> QED  BY <1>1, <1>2, LongDigitsLoop, LoopRule
<1>4. t \in Buffers /\ LongFilled(num, t) /\ t[1] = 0
  BY <1>3 DEF DigitStops
<1>5. PICK s : s = t[2]
  OBVIOUS
<1>6. LongDigits[<< num, << >> >>] = s
  BY <1>3, <1>4, <1>5 DEF DigitOut
<1>7. Tens(s) /\ s # << >> /\ (AllRight(num, 0, s) \/ LessRead(num, 0, s))
  BY <1>4, <1>5 DEF LongFilled
<1>8. CASE AllRight(num, 0, s)
  <2>1. WrongAt[0] = 0
    BY WrongAtIs
  <2>2. LongExact(num)
    BY <1>8, <2>1 DEF AllRight, LongExact
  <2>3. Decimal(s, num)
    BY <1>7, <1>8 DEF AllRight, Decimal, Value, Tens
  <2> QED  BY <1>6, <1>7, <2>2, <2>3 DEF LongOk
<1>9. CASE LessRead(num, 0, s)
  <2>1. ~LongExact(num)
    BY <1>9 DEF LessRead, LongExact
  <2>2. ~Decimal(s, num)
    BY <1>9 DEF LessRead, Decimal, Value
  <2> QED  BY <1>6, <1>7, <2>1, <2>2 DEF LongOk
<1> QED  BY <1>7, <1>8, <1>9

LEMMA LongUIntIs ==
    ASSUME NEW num \in Nat
    PROVE  LongOk(writeUInt64(num), num)
<1>1. CASE num = 0
  <2>1. LongExact(0)
    BY WrongAtIs DEF LongExact
  <2> QED  BY <1>1, <2>1, ZeroOk DEF writeUInt64, LongOk, UIntOk
<1>2. CASE num # 0
  BY <1>2, LongDigitsAre DEF writeUInt64
<1> QED  BY <1>1, <1>2

LEMMA LongIntIs ==
    ASSUME NEW num \in 0 .. U64 - 1
    PROVE  IntExact(writeInt64(num), num, U64) <=> LongExact(Magnitude(Signed(num, U64)))
<1>1. PICK m \in Nat : m = Magnitude(Signed(num, U64))
  <2>1. U64 \in Nat \ {0, 1}
    BY U32Is
  <2>2. Magnitude(Signed(num, U64)) \in Nat
    BY <2>1, SignedIs
  <2> QED  BY <2>2
<1>2. m = IF num >= U64 \div 2 THEN (U64 - num) % U64 ELSE num
  BY <1>1, U32Is, SignedIs
<1>3. LongOk(writeUInt64(m), m)
  BY LongUIntIs
<1>4. writeInt64(num) =
          IF num >= U64 \div 2 THEN << Minus >> \o writeUInt64(m) ELSE writeUInt64(m)
  BY <1>2 DEF writeInt64
<1>5. IntExact(writeInt64(num), num, U64) <=> Decimal(writeUInt64(m), m)
  BY <1>1, <1>3, <1>4, U32Is, SignOk DEF LongOk
<1> QED  BY <1>1, <1>3, <1>5 DEF LongOk
-----------------------------------------------------------------------------
(* Hexadecimal and binary places.                                          *)

LEMMA After ==
    ASSUME NEW p \in Seq(Nat), NEW s \in Seq(Nat), NEW k, k = Len(p) + 1
    PROVE  SubSeq(p \o s, k, Len(p \o s)) = s
<1>0. PICK u : u = p \o s
  OBVIOUS
<1>1. PICK m \in Nat : m = Len(p)
  OBVIOUS
<1>2. PICK n \in Nat : n = Len(s)
  OBVIOUS
<1>3. u \in Seq(Nat) /\ Len(u) = m + n /\ \A j \in 1 .. n : u[m + j] = s[j]
  BY <1>0, <1>1, <1>2, Join
<1>3a. PICK a \in Int, b \in Int : a = m + 1 /\ b = m + n
  OBVIOUS
<1>4. PICK t : t = SubSeq(u, a, b)
  OBVIOUS
<1>5. \A i \in a .. b : u[i] \in Nat
  BY <1>3, <1>3a
<1>6. /\ t \in Seq(Nat) /\ Len(t) = n
      /\ \A i \in 1 .. n : t[i] = u[m + i]
  <2>1. /\ t \in Seq(Nat) /\ Len(t) = IF a <= b THEN b - a + 1 ELSE 0
        /\ \A i \in 1 .. b - a + 1 : t[i] = u[a + i - 1]
    BY <1>4, <1>5, SubSeqProperties
  <2>2. b - a + 1 = n /\ (a <= b <=> n # 0)
    BY <1>3a
  <2>3. \A i \in 1 .. n : a + i - 1 = m + i
    BY <1>3a
  <2>4. ASSUME NEW i \in 1 .. n PROVE t[i] = u[m + i]
    <3>1. t[i] = u[a + i - 1]
      BY <2>1, <2>2
    <3> QED  BY <2>3, <3>1
  <2>5. Len(t) = n
    BY <2>1, <2>2
  <2> QED  BY <2>1, <2>4, <2>5
<1>7. \A i \in 1 .. n : t[i] = s[i]
  BY <1>3, <1>6
<1>8. t = s
  BY <1>2, <1>6, <1>7, SeqEqual
<1>9. k = m + 1
  BY <1>1
<1> QED  BY <1>0, <1>3, <1>3a, <1>4, <1>8, <1>9

LEMMA PlacesAre ==
    ASSUME NEW num \in Nat, NEW base \in Nat \ {0}, NEW n \in Nat, num < Power(base, n)
    PROVE  /\ Places(num, base, n) \in Seq(Nat)
           /\ Value(Places(num, base, n), base) = num
<1> DEFINE s == [j \in 1 .. n |-> (num \div Power(base, n - j)) % base]
<1> DEFINE v == [j \in 0 .. n |-> num \div Power(base, n - j)]
<1>1. ASSUME NEW j \in 0 .. n
      PROVE  n - j \in Nat /\ Power(base, n - j) \in Nat \ {0} /\ num \div Power(base, n - j) \in Nat
  <2>1. PICK i \in Nat : i = n - j
    OBVIOUS
  <2>2. Power(base, i) \in Nat \ {0}
    BY PowerPositive
  <2> QED  BY <2>1, <2>2, DivNat
<1>2. s \in Seq(Nat) /\ Len(s) = n
  <2>1. ASSUME NEW j \in 1 .. n PROVE (num \div Power(base, n - j)) % base \in Nat
    BY <1>1, DivNat
  <2> QED  BY <2>1
<1>3. v[0] = 0
  <2>1. v[0] = num \div Power(base, n - 0) /\ n - 0 = n
    OBVIOUS
  <2>2. Power(base, n) \in Nat \ {0}
    BY PowerPositive
  <2> HIDE DEF v
  <2> QED  BY <2>1, <2>2, Small
<1>4. ASSUME NEW j \in 1 .. n PROVE v[j] = v[j - 1] * base + s[j]
  <2>1. PICK i \in Nat : i = n - j
    OBVIOUS
  <2>2. n - (j - 1) = i + 1
    BY <2>1
  <2>3. PICK p \in Nat \ {0} : p = Power(base, i)
    BY PowerPositive
  <2>4. Power(base, i + 1) = p * base
    BY <2>3, PowerIs
  <2>5. PICK x \in Nat : x = num \div p
    BY DivNat
  <2>6. num \div (p * base) = x \div base
    BY <2>5, Twice
  <2>7. v[j] = x
    BY <2>1, <2>3, <2>5
  <2>8. v[j - 1] = x \div base
    BY <2>2, <2>4, <2>6
  <2>9. s[j] = x % base
    BY <2>1, <2>3, <2>5
  <2> HIDE DEF v, s
  <2> QED  BY <2>7, <2>8, <2>9, DivMod
<1>5. v[n] = num
  <2>1. v[n] = num \div Power(base, n - n) /\ n - n = 0
    OBVIOUS
  <2>2. Power(base, 0) = 1
    BY PowerIs
  <2> HIDE DEF v
  <2> QED  BY <2>1, <2>2
<1>6. Places(num, base, n) = s
  BY DEF Places
<1> HIDE DEF v, s
<1>7. Reading(v, 0, s, base, n)
  BY <1>3, <1>4 DEF Reading
<1>8. Read(0, s, base) = v[n]
  BY <1>2, <1>7, ReadIs
<1> QED  BY <1>2, <1>5, <1>6, <1>8 DEF Value

LEMMA PairIs ==
    ASSUME NEW a \in Nat, NEW b \in Nat
    PROVE  << a, b >> \in Seq(Nat) /\ Len(<< a, b >>) = 2
  OBVIOUS

LEMMA HexIs ==
    ASSUME NEW num \in 0 .. U32 - 1, NEW r, r = writeHex_bytes(num, HexDigits)
    PROVE  Value(SubSeq(r, 3, Len(r)), 16) = num
<1>1. PICK s : s = Places(num, 16, HexDigits)
  OBVIOUS
<1>2. U32 \in Nat /\ HexDigits \in Nat /\ num < Power(16, HexDigits)
  BY U32Is, WidthAssumption
<1>3. s \in Seq(Nat) /\ Value(s, 16) = num
  BY <1>1, <1>2, PlacesAre
<1>4. r = << 0, 120 >> \o s
  BY <1>1 DEF writeHex_bytes
<1>5. SubSeq(r, 3, Len(r)) = s
  <2>1. << 0, 120 >> \in Seq(Nat) /\ 3 = Len(<< 0, 120 >>) + 1
    BY PairIs
  <2> QED  BY <1>3, <1>4, <2>1, After
<1> QED  BY <1>3, <1>5

LEMMA BinaryIs ==
    ASSUME NEW num \in 0 .. U32 - 1, NEW r, r = writeBinary(num, 4 * HexDigits)
    PROVE  Value(SubSeq(r, 3, Len(r)), 2) = num
<1>1. PICK s : s = Places(num, 2, 4 * HexDigits)
  OBVIOUS
<1>2. U32 \in Nat /\ 4 * HexDigits \in Nat /\ num < Power(2, 4 * HexDigits)
  BY U32Is, WidthAssumption, PowerOfSixteen
<1>3. s \in Seq(Nat) /\ Value(s, 2) = num
  BY <1>1, <1>2, PlacesAre
<1>4. r = << 0, 98 >> \o s
  BY <1>1 DEF writeBinary, writeBinary_b
<1>5. SubSeq(r, 3, Len(r)) = s
  <2>1. << 0, 98 >> \in Seq(Nat) /\ 3 = Len(<< 0, 98 >>) + 1
    BY PairIs
  <2> QED  BY <1>3, <1>4, <2>1, After
<1> QED  BY <1>3, <1>5
-----------------------------------------------------------------------------
(* Fractions.                                                              *)

LEMMA DigitIs ==
    ASSUME NEW c \in 0 .. 9
    PROVE  writeInt(c) = << c >>
<1>1. U32 \div 2 > 9
  <2>1. PICK h \in Nat : HexDigits = h + 2
    <3>1. HexDigits - 2 \in Nat /\ HexDigits = (HexDigits - 2) + 2
      BY WidthAssumption
    <3> QED  BY <3>1
  <2>2. PICK a \in Nat \ {0} : a = Power(16, h)
    BY PowerPositive
  <2>3. Power(16, h + 1) = 16 * a
    BY <2>2, PowerIs
  <2>4. Power(16, (h + 1) + 1) = 16 * Power(16, h + 1)
    <3>1. h + 1 \in Nat /\ 16 \in Nat
      OBVIOUS
    <3> QED  BY <3>1, PowerIs
  <2>5. (h + 1) + 1 = HexDigits
    BY <2>1
  <2>6. U32 = 16 * (16 * a)
    BY <2>3, <2>4, <2>5, WidthAssumption
  <2> QED  BY <2>2, <2>6
<1>2. U32 \div 2 \in Nat
  BY U32Is, DivNat
<1>3. writeInt(c) = writeUInt(c)
  BY <1>1, <1>2 DEF writeInt
<1>4. CASE c = 0
  BY <1>3, <1>4 DEF writeUInt
<1>5. CASE c # 0
  <2>1. writeUInt(c) = Digits[<< c, << >> >>]
    BY <1>5 DEF writeUInt
  <2>2. PICK e \in Seq(Nat) : e = << >>
    BY Empty, Zenon
  <2>3. << c, e >> \in Buffers /\ << c, e >> \notin DigitStops
    BY <1>5 DEF Buffers, DigitStops
  <2>4. PICK t : t = << c >> \o e
    OBVIOUS
  <2>5. t = << c >> /\ t \in Seq(Nat)
    BY <2>2, <2>4, One, ConcatEmptySeq
  <2>6. DigitNext[<< c, e >>] = << 0, t >>
    <3>1. c \div 10 = 0 /\ c % 10 = c
      OBVIOUS
    <3> QED  BY <2>3, <2>4, <3>1 DEF DigitNext
  <2>7. << 0, t >> \in Buffers /\ << 0, t >> \in DigitStops
    BY <2>5 DEF Buffers, DigitStops
  <2>8. Digits[<< c, e >>] = Digits[<< 0, t >>]
    BY <2>3, <2>6, DigitsLoop DEF IsLoop
  <2>9. Digits[<< 0, t >>] = t
    BY <2>7, DigitsLoop DEF IsLoop, DigitOut
  <2> QED  BY <1>3, <2>1, <2>2, <2>5, <2>8, <2>9
<1> QED  BY <1>4, <1>5

LEMMA TensAppend ==
    ASSUME NEW c \in 0 .. 9, NEW s, Tens(s)
    PROVE  Tens(s \o << c >>) /\ Len(s \o << c >>) = Len(s) + 1
<1>1. s \in Seq(Nat) /\ c \in Nat /\ \A i \in 1 .. Len(s) : s[i] \in 0 .. 9
  BY DEF Tens
<1>2. PICK n \in Nat : n = Len(s)
  BY <1>1
<1>3. PICK u : u = s \o << c >>
  OBVIOUS
<1>4. /\ u \in Seq(Nat) /\ Len(u) = n + 1
      /\ \A i \in 1 .. n : u[i] = s[i]
      /\ u[n + 1] = c
  <2>1. << c >> \in Seq(Nat) /\ Len(<< c >>) = 1 /\ << c >>[1] = c
    BY <1>1, One
  <2>2. /\ u \in Seq(Nat) /\ Len(u) = n + 1
        /\ \A i \in 1 .. n : u[i] = s[i]
        /\ \A j \in 1 .. 1 : u[n + j] = << c >>[j]
    BY <1>1, <1>2, <1>3, <2>1, Join
  <2> QED  BY <2>1, <2>2
<1>5. ASSUME NEW i \in 1 .. n + 1 PROVE u[i] \in 0 .. 9
  <2>1. CASE i = n + 1
    BY <1>4, <2>1
  <2>2. CASE i # n + 1
    <3>1. i \in 1 .. n
      BY <2>2
    <3>2. u[i] = s[i]
      BY <1>4, <3>1
    <3> QED  BY <1>1, <1>2, <3>1, <3>2
  <2> QED  BY <2>1, <2>2
<1> QED  BY <1>2, <1>3, <1>4, <1>5 DEF Tens

FractionStops == { s \in Fractional : s.left = 0 \/ (s.out # << >> /\ s.f * Tolerance <= s.d) }
FractionOut   == [s \in Fractional |-> s.out]
FractionNext  == [s \in Fractional |-> IF s.left = 0 THEN s ELSE NextDigit(s)]

LEMMA UIntSeq ==
    ASSUME NEW num \in Nat
    PROVE  writeInt(num) \in Seq(Nat)
<1>1. U32 \in Nat \ {0}
  BY U32Is
<1>2. PICK m \in Nat : m = (U32 - num) % U32
  BY <1>1
<1>3. writeUInt(m) \in Seq(Nat) /\ writeUInt(num) \in Seq(Nat)
  BY UIntIs DEF UIntOk, Tens
<1>4. << Minus >> \o writeUInt(m) \in Seq(Nat)
  BY <1>3, Fronted DEF Minus
<1> QED  BY <1>2, <1>3, <1>4 DEF writeInt

LEMMA FractionLoop == IsLoop(Fraction, Fractional, FractionStops, FractionOut, FractionNext)
<1>1. FractionNext \in [Fractional -> Fractional]
  <2>1. ASSUME NEW s \in Fractional, s.left # 0 PROVE NextDigit(s) \in Fractional
    <3>1. s.f \in Nat /\ s.d \in Nat \ {0} /\ s.left - 1 \in Nat /\ s.out \in Seq(Nat)
      BY <2>1 DEF Fractional
    <3>2. (10 * s.f) \div s.d \in Nat /\ (10 * s.f) % s.d \in Nat
      <4>1. PICK x \in Nat : x = 10 * s.f
        BY <3>1
      <4>2. x \div s.d \in Nat /\ x % s.d \in Nat
        BY <3>1, DivNat
      <4> QED  BY <4>1, <4>2
    <3>3. writeInt((10 * s.f) \div s.d) \in Seq(Nat)
      BY <3>2, UIntSeq
    <3>4. s.out \o writeInt((10 * s.f) \div s.d) \in Seq(Nat)
      BY <3>1, <3>3, Join
    <3> QED  BY <3>1, <3>2, <3>4 DEF NextDigit, Fractional
  <2> QED  BY <2>1 DEF FractionNext
<1>2. PICK g : IsLoop(g, Fractional, FractionStops, FractionOut, FractionNext)
  BY <1>1, Loop
<1>3. g = [s \in Fractional |->
               IF s.left = 0 \/ (s.out # << >> /\ s.f * Tolerance <= s.d) THEN s.out
               ELSE g[NextDigit(s)]]
  BY <1>2 DEF IsLoop, FractionStops, FractionOut, FractionNext
<1>4. Fraction = [s \in Fractional |->
               IF s.left = 0 \/ (s.out # << >> /\ s.f * Tolerance <= s.d) THEN s.out
               ELSE Fraction[NextDigit(s)]]
  <2>1. Fraction = CHOOSE h : h = [s \in Fractional |->
               IF s.left = 0 \/ (s.out # << >> /\ s.f * Tolerance <= s.d) THEN s.out
               ELSE h[NextDigit(s)]]
    BY DEF Fraction
  <2> QED  BY <1>3, <2>1
<1> QED  BY <1>4 DEF IsLoop, FractionStops, FractionOut, FractionNext

\* What is printed and what is left of the fraction are the fraction.
Printed(f0, d, s) ==
    /\ s \in Fractional /\ s.d = d /\ s.f < d /\ Tens(s.out)
    /\ Len(s.out) + s.left = MaxFractionalDigits
    /\ Read(0, s.out, 10) * d + s.f = f0 * Power(10, Len(s.out))

LEMMA Horner ==
    ASSUME NEW a \in Nat, NEW d \in Nat, NEW f \in Nat, NEW c \in Nat, NEW r \in Nat, NEW b \in Nat,
           a * d + f = b, 10 * f = c * d + r
    PROVE  (a * 10 + c) * d + r = 10 * b
<1>1. (a * 10 + c) * d = 10 * (a * d) + c * d
  OBVIOUS
<1>2. a * d \in Nat /\ c * d \in Nat
  BY Times
<1> QED  BY <1>1, <1>2

LEMMA PrintedNext ==
    ASSUME NEW f0 \in Nat, NEW d \in Nat \ {0}, NEW s, Printed(f0, d, s), s.left # 0
    PROVE  Printed(f0, d, NextDigit(s)) /\ NextDigit(s).left < s.left
<1>1. /\ s \in Fractional /\ s.d = d /\ s.f \in Nat /\ s.f < d /\ s.left \in Nat
      /\ s.out \in Seq(Nat) /\ Tens(s.out)
  BY DEF Printed, Fractional
<1>2. PICK f \in Nat : f = s.f /\ f < d
  BY <1>1
<1>3. PICK o \in Seq(Nat) : o = s.out
  BY <1>1
<1>4. PICK k \in Nat : k = Len(o)
  OBVIOUS
<1>4a. PICK x \in Nat : x = 10 * f
  OBVIOUS
<1>5. PICK c \in Nat : c = x \div d
  BY DivNat
<1>5a. PICK r \in Nat : r = x % d /\ r < d
  BY DivNat
<1>6. 10 * f = c * d + r
  BY <1>4a, <1>5, <1>5a, DivMod
<1>7. c \in 0 .. 9
  <2>1. x < d * 10
    BY <1>2, <1>4a
  <2>2. c < 10
    BY <1>5, <2>1, QuotientBound
  <2> QED  BY <2>2
<1>8. PICK u : u = o \o << c >>
  OBVIOUS
<1>9. Tens(u) /\ Len(u) = k + 1 /\ u \in Seq(Nat)
  BY <1>1, <1>3, <1>4, <1>7, <1>8, TensAppend DEF Tens
<1>10. NextDigit(s) = [f |-> r, d |-> d, left |-> s.left - 1, out |-> u]
  BY <1>1, <1>2, <1>3, <1>4a, <1>5, <1>5a, <1>7, <1>8, DigitIs DEF NextDigit
<1>11. NextDigit(s) \in Fractional
  BY <1>1, <1>9, <1>10 DEF Fractional
<1>12. Read(0, u, 10) * d + r = f0 * Power(10, k + 1)
  <2>1. PICK a \in Nat : a = Read(0, o, 10)
    BY ReadNat
  <2>2. Read(0, u, 10) = a * 10 + c
    <3>1. 0 \in Nat /\ 10 \in Nat
      OBVIOUS
    <3> QED  BY <1>8, <2>1, <3>1, ReadBack
  <2>3. PICK p \in Nat : p = Power(10, k)
    BY PowerIs
  <2>4. a * d + f = f0 * p
    BY <1>1, <1>2, <1>3, <1>4, <2>1, <2>3 DEF Printed
  <2>5. (a * 10 + c) * d + r = 10 * (f0 * p)
    BY <1>6, <2>4, Times, Horner
  <2>6. Power(10, k + 1) = 10 * p
    BY <2>3, PowerIs
  <2>7. 10 * (f0 * p) = f0 * (10 * p)
    OBVIOUS
  <2> QED  BY <2>2, <2>5, <2>6, <2>7
<1>13. (k + 1) + (s.left - 1) = MaxFractionalDigits
  <2>1. k + s.left = 10
    BY <1>3, <1>4 DEF Printed, MaxFractionalDigits
  <2> QED  BY <1>1, <2>1 DEF MaxFractionalDigits
<1>14. PICK t : t = NextDigit(s)
  OBVIOUS
<1>15. t.f = r /\ t.d = d /\ t.left = s.left - 1 /\ t.out = u
  BY <1>10, <1>14
<1>16. Printed(f0, d, t)
  BY <1>5a, <1>9, <1>11, <1>12, <1>13, <1>14, <1>15 DEF Printed
<1> QED  BY <1>1, <1>14, <1>15, <1>16

LEMMA TolerancePower ==
    Tolerance \in Nat /\ Power(10, 10) \in Nat /\ Tolerance <= Power(10, 10)
<1>1. PICK t \in Nat : t = Power(10, 7)
  BY PowerIs
<1>2. Power(10, 7 + 1) = 10 * t
  BY <1>1, PowerIs
<1>3. Power(10, 8 + 1) = 10 * Power(10, 8)
  BY PowerIs
<1>4. Power(10, 9 + 1) = 10 * Power(10, 9)
  BY PowerIs
<1>5. 7 + 1 = 8 /\ 8 + 1 = 9 /\ 9 + 1 = 10
  OBVIOUS
<1>6. Power(10, 10) = 10 * (10 * (10 * t))
  BY <1>2, <1>3, <1>4, <1>5
<1> QED  BY <1>1, <1>6 DEF Tolerance

LEMMA PrintedEnds ==
    ASSUME NEW f0 \in Nat, NEW d \in Nat \ {0}, NEW s, Printed(f0, d, s), s \in FractionStops
    PROVE  FractionExact(s.out, f0, d)
<1>1. /\ s.f \in Nat /\ s.f < d /\ s.left \in Nat /\ s.d = d /\ s.out \in Seq(Nat)
      /\ Len(s.out) + s.left = 10
  BY DEF Printed, Fractional, MaxFractionalDigits
<1>2. PICK f \in Nat : f = s.f /\ f < d
  BY <1>1
<1>3. PICK o \in Seq(Nat) : o = s.out
  BY <1>1
<1>4. PICK k \in Nat : k = Len(o)
  OBVIOUS
<1>4a. k <= 10
  BY <1>1, <1>3, <1>4
<1>5. PICK t \in Nat : t = Tolerance
  BY TolerancePower
<1>6. s.left = 0 \/ (o # << >> /\ f * t <= d)
  BY <1>1, <1>2, <1>3, <1>5 DEF FractionStops
<1>7. PICK p \in Nat \ {0} : p = Power(10, k)
  <2>1. 10 \in Nat \ {0}
    OBVIOUS
  <2>2. Power(10, k) \in Nat \ {0}
    BY <2>1, PowerPositive
  <2> QED  BY <2>2
<1>8. PICK a \in Nat : a = Read(0, o, 10) * d
  BY ReadNat, Times
<1>9. PICK b \in Nat : b = f0 * p
  BY Times
<1>10. a + f = b
  BY <1>2, <1>3, <1>4, <1>7, <1>8, <1>9 DEF Printed
<1>11. k \in 1 .. 10
  <2>1. CASE s.left = 0
    BY <1>1, <1>3, <1>4, <2>1
  <2>2. CASE o # << >>
    <3>1. k # 0
      BY <1>4, <2>2
    <3> QED  BY <1>4a, <3>1
  <2> QED  BY <1>6, <2>1, <2>2
<1>12. f * t <= d * p
  <2>0. d <= d * p /\ d * p \in Nat /\ f * t \in Nat
    BY Times, TimesPositive
  <2>1. CASE s.left = 0
    <3>1. k = 10
      BY <1>1, <1>3, <1>4, <2>1
    <3>2. t <= p
      BY <1>5, <1>7, <3>1, TolerancePower
    <3>3. PICK x \in Nat : x = f * t
      BY Times
    <3>4. PICK y \in Nat : y = d * t
      BY Times
    <3>5. PICK z \in Nat : z = d * p
      BY Times
    <3>6. x <= y
      BY <1>2, <3>3, <3>4, TimesMono
    <3>7. t * d = y /\ p * d = z
      BY <3>4, <3>5
    <3>8. y <= z
      BY <3>2, <3>7, TimesMono
    <3>9. x <= z
      BY <3>6, <3>8
    <3> QED  BY <3>3, <3>5, <3>9
  <2>2. CASE f * t <= d
    BY <2>0, <2>2
  <2> QED  BY <1>6, <2>1, <2>2
<1>13. (b - a) * t <= d * p
  <2>1. b - a = f
    BY <1>10
  <2> QED  BY <1>12, <2>1
<1>14. a <= b
  BY <1>10
<1>15. FractionExact(o, f0, d)
  BY <1>4, <1>5, <1>7, <1>8, <1>9, <1>11, <1>13, <1>14
     DEF FractionExact, Value, MaxFractionalDigits
<1> QED  BY <1>3, <1>15

LEMMA FractionIs ==
    ASSUME NEW f0 \in Nat, NEW d \in Nat, f0 < d
    PROVE  LET s == [f |-> f0, d |-> d, left |-> MaxFractionalDigits, out |-> << >>]
           IN  FractionExact(Fraction[s], f0, d) /\ Tens(Fraction[s])
<1> DEFINE start == [f |-> f0, d |-> d, left |-> MaxFractionalDigits, out |-> << >>]
<1> DEFINE inv == { x \in Fractional : Printed(f0, d, x) }
<1> DEFINE mu == [x \in Fractional |-> x.left]
<1>0. d \in Nat \ {0}
  OBVIOUS
<1>1. Kept(Fractional, FractionStops, FractionNext, inv, mu)
  <2>1. mu \in [Fractional -> Nat]
    BY DEF Fractional
  <2>2. ASSUME NEW x \in inv, x \notin FractionStops
        PROVE  FractionNext[x] \in inv /\ mu[FractionNext[x]] < mu[x]
    <3>1. x \in Fractional /\ x.left # 0 /\ Printed(f0, d, x)
      BY <2>2 DEF FractionStops
    <3>2. FractionNext[x] = NextDigit(x)
      BY <3>1 DEF FractionNext
    <3>3. Printed(f0, d, NextDigit(x)) /\ NextDigit(x).left < x.left
      BY <1>0, <3>1, PrintedNext
    <3>4. NextDigit(x) \in Fractional
      BY <3>3 DEF Printed
    <3> QED  BY <3>1, <3>2, <3>3, <3>4
  <2>3. inv \subseteq Fractional
    OBVIOUS
  <2> HIDE DEF inv, mu
  <2> QED  BY <2>1, <2>2, <2>3 DEF Kept
<1>2. start \in inv
  <2>1. PICK e \in Seq(Nat) : e = << >> /\ Len(e) = 0
    BY Empty, Zenon, EmptySeq
  <2>2. PICK t : t = [f |-> f0, d |-> d, left |-> 10, out |-> e]
    OBVIOUS
  <2>3. t \in Fractional /\ t.f = f0 /\ t.d = d /\ t.left = 10 /\ t.out = e
    BY <1>0, <2>1, <2>2 DEF Fractional
  <2>4. Read(0, e, 10) * d + f0 = f0 * Power(10, 0)
    <3>1. Read(0, e, 10) = 0
      BY <2>1, ReadNone
    <3>2. Power(10, 0) = 1
      BY PowerIs
    <3> QED  BY <3>1, <3>2
  <2>5. Tens(e)
    BY <2>1, TensNone
  <2>6. Printed(f0, d, t)
    BY <2>1, <2>3, <2>4, <2>5 DEF Printed, MaxFractionalDigits
  <2> QED  BY <2>1, <2>2, <2>3, <2>6 DEF MaxFractionalDigits
<1>3. PICK t \in inv : t \in FractionStops /\ Fraction[start] = FractionOut[t]
  <2> HIDE DEF inv, mu, start
  <2> QED  BY <1>1, <1>2, FractionLoop, LoopRule
<1>4. t \in Fractional /\ Printed(f0, d, t)
  OBVIOUS
<1>5. Fraction[start] = t.out
  BY <1>3, <1>4 DEF FractionOut
<1>6. FractionExact(t.out, f0, d) /\ Tens(t.out)
  BY <1>0, <1>3, <1>4, PrintedEnds DEF Printed
<1> QED  BY <1>5, <1>6
-----------------------------------------------------------------------------
(* Reals.  There is one point, the whole part before and the fraction      *)
(* behind it.                                                              *)

Plain(s) == s \in Seq(Nat) /\ \A i \in 1 .. Len(s) : s[i] # Point

LEMMA MinusPlain ==
    ASSUME NEW s, Plain(s)
    PROVE  Plain(<< Minus >> \o s) /\ (<< Minus >> \o s)[1] = Minus
<1>1. PICK n \in Nat : n = Len(s)
  BY DEF Plain
<1>2. PICK u : u = << Minus >> \o s
  OBVIOUS
<1>3. u \in Seq(Nat) /\ Len(u) = n + 1 /\ u[1] = Minus /\ \A i \in 1 .. n : u[i + 1] = s[i]
  BY <1>1, <1>2, Fronted DEF Plain, Minus
<1>4. ASSUME NEW i \in 1 .. n + 1 PROVE u[i] # Point
  <2>1. CASE i = 1
    BY <1>3, <2>1 DEF Minus, Point
  <2>2. CASE i # 1
    <3>1. i - 1 \in 1 .. n /\ (i - 1) + 1 = i
      BY <2>2
    <3>2. u[i] = s[i - 1]
      BY <1>3, <3>1
    <3> QED  BY <1>1, <3>1, <3>2 DEF Plain
  <2> QED  BY <2>1, <2>2
<1> QED  BY <1>2, <1>3, <1>4 DEF Plain

LEMMA TensPlain ==
    ASSUME NEW s, Tens(s)
    PROVE  Plain(s)
<1>1. Point \notin 0 .. 9
  BY DEF Point
<1> QED  BY <1>1 DEF Tens, Plain

\* What is inside a sequence.
LEMMA Part ==
    ASSUME NEW r \in Seq(Nat), NEW s \in Seq(Nat), NEW k \in Nat, k + Len(s) <= Len(r),
           \A i \in 1 .. Len(s) : r[k + i] = s[i]
    PROVE  SubSeq(r, k + 1, k + Len(s)) = s
<1>1. PICK n \in Nat : n = Len(s)
  OBVIOUS
<1>2. PICK a \in Int, b \in Int : a = k + 1 /\ b = k + n
  OBVIOUS
<1>3. PICK t : t = SubSeq(r, a, b)
  OBVIOUS
<1>4. \A i \in a .. b : r[i] \in Nat
  <2>1. PICK l \in Nat : l = Len(r)
    OBVIOUS
  <2>2. \A i \in 1 .. l : r[i] \in Nat
    BY <2>1
  <2> QED  BY <1>1, <1>2, <2>1, <2>2
<1>5. /\ t \in Seq(Nat) /\ Len(t) = IF a <= b THEN b - a + 1 ELSE 0
      /\ \A i \in 1 .. b - a + 1 : t[i] = r[a + i - 1]
  BY <1>3, <1>4, SubSeqProperties
<1>6. b - a + 1 = n /\ (a <= b <=> n # 0) /\ \A i \in 1 .. n : a + i - 1 = k + i
  BY <1>2
<1>7. Len(t) = n
  BY <1>5, <1>6
<1>8. ASSUME NEW i \in 1 .. n PROVE t[i] = s[i]
  <2>1. t[i] = r[a + i - 1]
    BY <1>5, <1>6
  <2>2. r[k + i] = s[i]
    BY <1>1
  <2> QED  BY <1>6, <2>1, <2>2
<1>9. t = s
  BY <1>1, <1>5, <1>7, <1>8, SeqEqual
<1> QED  BY <1>1, <1>2, <1>3, <1>9

\* The first point is behind what has none.
Dot(r) == CHOOSE i \in 1 .. Len(r) : r[i] = Point

DotOk(r, p, s) ==
    /\ Dot(r) = Len(p) + 1 /\ SubSeq(r, Dot(r) + 1, Len(r)) = s
    /\ r \in Seq(Nat) /\ Len(p) <= Len(r)
    /\ \A i \in 1 .. Len(p) : r[i] = p[i]

LEMMA DotIs ==
    ASSUME NEW p, Plain(p), NEW s, Plain(s)
    PROVE  DotOk((p \o << Point >>) \o s, p, s)
<1>0. PICK r : r = (p \o << Point >>) \o s
  OBVIOUS
<1>1. p \in Seq(Nat) /\ s \in Seq(Nat)
  BY DEF Plain
<1>2. PICK m \in Nat : m = Len(p)
  BY <1>1
<1>3. PICK n \in Nat : n = Len(s)
  BY <1>1
<1>4. PICK q : q = p \o << Point >>
  OBVIOUS
<1>5. /\ q \in Seq(Nat) /\ Len(q) = m + 1
      /\ \A i \in 1 .. m : q[i] = p[i]
      /\ q[m + 1] = Point
  <2>1. << Point >> \in Seq(Nat) /\ Len(<< Point >>) = 1 /\ << Point >>[1] = Point
    BY One DEF Point
  <2>2. /\ q \in Seq(Nat) /\ Len(q) = m + 1
        /\ \A i \in 1 .. m : q[i] = p[i]
        /\ \A j \in 1 .. 1 : q[m + j] = << Point >>[j]
    BY <1>1, <1>2, <1>4, <2>1, Join
  <2> QED  BY <2>1, <2>2
<1>6. /\ r \in Seq(Nat) /\ Len(r) = (m + 1) + n
      /\ \A i \in 1 .. m + 1 : r[i] = q[i]
      /\ \A j \in 1 .. n : r[(m + 1) + j] = s[j]
  <2>1. PICK k \in Nat : k = m + 1
    OBVIOUS
  <2>2. k = Len(q) /\ q \in Seq(Nat) /\ r = q \o s
    BY <1>0, <1>4, <1>5, <2>1
  <2>2a. /\ q \o s \in Seq(Nat) /\ Len(q \o s) = Len(q) + Len(s)
         /\ \A i \in 1 .. Len(q) : (q \o s)[i] = q[i]
         /\ \A j \in 1 .. Len(s) : (q \o s)[Len(q) + j] = s[j]
    BY <1>1, <2>2, Join
  <2>3. /\ r \in Seq(Nat) /\ Len(r) = k + n
        /\ \A i \in 1 .. k : r[i] = q[i]
        /\ \A j \in 1 .. n : r[k + j] = s[j]
    BY <1>3, <2>2, <2>2a, Zenon
  <2> QED  BY <2>1, <2>3
<1>7. PICK l \in Nat : l = Len(r) /\ l = (m + 1) + n
  BY <1>6
<1>8. m + 1 \in 1 .. l /\ r[m + 1] = Point
  <2>1. m + 1 \in 1 .. l /\ m + 1 \in 1 .. m + 1
    BY <1>7
  <2>2. r[m + 1] = q[m + 1]
    BY <1>6, <2>1
  <2> QED  BY <1>5, <2>1, <2>2
<1>9. ASSUME NEW i \in 1 .. l, i # m + 1 PROVE r[i] # Point
  <2>1. CASE i <= m
    <3>1. i \in 1 .. m /\ i \in 1 .. m + 1
      BY <2>1
    <3>2. r[i] = p[i]
      BY <1>5, <1>6, <3>1
    <3> QED  BY <1>2, <3>1, <3>2 DEF Plain
  <2>2. CASE ~(i <= m)
    <3>1. PICK j \in 1 .. n : i = (m + 1) + j
      <4>1. i - (m + 1) \in 1 .. n /\ i = (m + 1) + (i - (m + 1))
        BY <1>7, <1>9, <2>2
      <4> QED  BY <4>1
    <3>2. r[i] = s[j]
      BY <1>6, <3>1
    <3> QED  BY <1>3, <3>2 DEF Plain
  <2> QED  BY <2>1, <2>2
<1>10. PICK dot : dot = CHOOSE i \in 1 .. l : r[i] = Point
  OBVIOUS
<1>11. dot = m + 1
  BY <1>8, <1>9, <1>10
<1>12. dot + 1 = Len(q) + 1
  BY <1>5, <1>11
<1>13. SubSeq(r, dot + 1, Len(r)) = s
  BY <1>0, <1>1, <1>4, <1>5, <1>12, After
<1>14. ASSUME NEW i \in 1 .. m PROVE r[i] = p[i]
  <2>1. i \in 1 .. m + 1
    OBVIOUS
  <2> QED  BY <1>5, <1>6, <2>1
<1>15. m <= l /\ dot = m + 1
  BY <1>7, <1>11
<1>16. dot = Dot(r)
  BY <1>7, <1>10 DEF Dot
<1> QED  BY <1>0, <1>2, <1>6, <1>7, <1>13, <1>14, <1>15, <1>16 DEF DotOk

\* What has the component's form, but for the sign, is the whole part, the
\* point and the fraction.
ComponentOk(r, w, s, signed) ==
    /\ r[1] = Minus <=> signed
    /\ Decimal(SubSeq(r, IF signed THEN 2 ELSE 1, Dot(r) - 1), w) <=> LongExact(w)
    /\ SubSeq(r, Dot(r) + 1, Len(r)) = s

LEMMA ComponentIs ==
    ASSUME NEW w \in Nat, w < U64 \div 2, NEW s, Plain(s), NEW signed \in BOOLEAN,
           NEW sign, sign = IF signed THEN << Minus >> ELSE << >>,
           NEW r, r = ((sign \o writeInt64(w)) \o << Point >>) \o s
    PROVE  ComponentOk(r, w, s, signed)
<1>1. PICK u : u = writeUInt64(w)
  OBVIOUS
<1>2. Tens(u) /\ u # << >> /\ (Decimal(u, w) <=> LongExact(w))
  BY <1>1, LongUIntIs DEF LongOk
<1>3. writeInt64(w) = u
  <2>1. U64 \div 2 \in Nat
    BY U32Is
  <2>2. ~(w >= U64 \div 2)
    BY <2>1
  <2> QED  BY <1>1, <2>2 DEF writeInt64
<1>4. u \in Seq(Nat) /\ Plain(u)
  BY <1>2, TensPlain DEF Plain
<1>5. PICK n \in Nat : n = Len(u)
  BY <1>4
<1>6. PICK k \in Nat : k = IF signed THEN 1 ELSE 0
  OBVIOUS
<1>7. PICK p : p = sign \o u
  OBVIOUS
<1>8. /\ Plain(p) /\ Len(p) = k + n
      /\ \A i \in 1 .. n : p[k + i] = u[i]
      /\ signed => p[1] = Minus
  <2>1. CASE signed
    <3>1. p = << Minus >> \o u /\ k = 1
      BY <1>6, <1>7, <2>1
    <3>2. Plain(p) /\ p[1] = Minus
      BY <1>4, <3>1, MinusPlain
    <3>3. Len(p) = n + 1 /\ \A i \in 1 .. n : p[i + 1] = u[i]
      BY <1>4, <1>5, <3>1, Fronted DEF Minus
    <3>4. \A i \in 1 .. n : 1 + i = i + 1
      OBVIOUS
    <3>5. \A i \in 1 .. n : p[1 + i] = u[i]
      BY <3>3, <3>4
    <3>6. k = 1
      BY <3>1
    <3>7. Len(p) = k + n /\ \A i \in 1 .. n : p[k + i] = u[i]
      BY <3>3, <3>5, <3>6
    <3> QED  BY <3>2, <3>7, Zenon
  <2>2. CASE ~signed
    <3>1. p = u /\ k = 0
      <4>1. sign = << >>
        BY <2>2
      <4>2. << >> \o u = u
        BY <1>4, ConcatEmptySeq
      <4> QED  BY <1>6, <1>7, <2>2, <4>1, <4>2
    <3> QED  BY <1>4, <1>5, <2>2, <3>1
  <2> QED  BY <2>1, <2>2
<1>9. n # 0
  BY <1>2, <1>4, <1>5, EmptySeq
<1>10. PICK dot : dot = Dot(r)
  OBVIOUS
<1>11. /\ dot = (k + n) + 1 /\ SubSeq(r, dot + 1, Len(r)) = s
       /\ r \in Seq(Nat) /\ k + n <= Len(r)
       /\ \A i \in 1 .. k + n : r[i] = p[i]
  <2>1. r = (p \o << Point >>) \o s
    BY <1>3, <1>7
  <2>2. /\ dot = Len(p) + 1 /\ SubSeq(r, dot + 1, Len(r)) = s
        /\ r \in Seq(Nat) /\ Len(p) <= Len(r)
        /\ \A i \in 1 .. Len(p) : r[i] = p[i]
    <3>1. DotOk((p \o << Point >>) \o s, p, s)
      BY <1>8, DotIs, Zenon
    <3>2. DotOk(r, p, s)
      BY <2>1, <3>1, Zenon
    <3> QED  BY <1>10, <3>2, Zenon DEF DotOk
  <2> QED  BY <1>8, <2>2
<1>12. \A i \in 1 .. n : r[k + i] = u[i]
  <2>1. ASSUME NEW i \in 1 .. n PROVE r[k + i] = u[i]
    <3>1. k + i \in 1 .. k + n
      OBVIOUS
    <3> QED  BY <1>8, <1>11, <3>1
  <2> QED  BY <2>1
<1>13. SubSeq(r, k + 1, k + n) = u
  BY <1>4, <1>5, <1>11, <1>12, Part
<1>14. SubSeq(r, IF signed THEN 2 ELSE 1, dot - 1) = u
  <2>1. k + 1 = (IF signed THEN 2 ELSE 1) /\ dot - 1 = k + n
    BY <1>6, <1>11
  <2> QED  BY <1>13, <2>1
<1>15. r[1] = Minus <=> signed
  <2>1. CASE signed
    <3>1. 1 \in 1 .. k + n
      BY <1>6, <1>9, <2>1
    <3> QED  BY <1>8, <1>11, <2>1, <3>1
  <2>2. CASE ~signed
    <3>1. k = 0 /\ 1 \in 1 .. n /\ k + 1 = 1
      BY <1>6, <1>9, <2>2
    <3>2. r[1] = u[1]
      BY <1>12, <3>1
    <3>3. u[1] \in 0 .. 9
      BY <1>2, <1>5, <3>1 DEF Tens
    <3> QED  BY <2>2, <3>2, <3>3 DEF Minus
  <2> QED  BY <2>1, <2>2
<1> QED  BY <1>2, <1>10, <1>11, <1>14, <1>15 DEF ComponentOk

DebugOk(r, m, e) ==
    LET tail == <<42, 2, 94>> \o writeInt(e)
        low == m % U32
        digits == SubSeq(r, 3, Len(r) - Len(tail))
    IN  /\ r = (<<1, Point>> \o digits) \o tail
        /\ Decimal(digits, low) <=> LongExact(low)

LEMMA DebugIs ==
    ASSUME NEW m \in Nat, NEW e \in Nat, NEW r, r = writeRealDebug(m, e)
    PROVE  DebugOk(r, m, e)
<1>1. PICK low \in Nat : low = m % U32
  BY U32Is
<1>2. PICK u : u = writeUInt64(low)
  OBVIOUS
<1>3. u \in Seq(Nat) /\ (Decimal(u, low) <=> LongExact(low))
  BY <1>2, LongUIntIs DEF LongOk, Tens
<1>4. PICK n \in Nat : n = Len(u)
  BY <1>3
<1>5. PICK tail : tail = <<42, 2, 94>> \o writeInt(e)
  OBVIOUS
<1>6. tail \in Seq(Nat)
  <2>1. <<42, 2, 94>> \in Seq(Nat)
    OBVIOUS
  <2> QED  BY <1>5, <2>1, UIntSeq, Join
<1>7. PICK q : q = <<1, Point>> \o u
  OBVIOUS
<1>8. q \in Seq(Nat) /\ Len(q) = 2 + n /\ \A i \in 1 .. n : q[2 + i] = u[i]
  <2>1. <<1, Point>> \in Seq(Nat) /\ Len(<<1, Point>>) = 2
    BY PairIs DEF Point
  <2> QED  BY <1>3, <1>4, <1>7, <2>1, Join
<1>9. r = q \o tail
  BY <1>1, <1>2, <1>5, <1>7 DEF writeRealDebug
<1>10. PICK k \in Nat : k = Len(tail)
  BY <1>6
<1>11. /\ r \in Seq(Nat) /\ Len(r) = (2 + n) + k
       /\ \A i \in 1 .. 2 + n : r[i] = q[i]
  <2>1. PICK h \in Nat : h = 2 + n
    OBVIOUS
  <2>2. /\ q \o tail \in Seq(Nat) /\ Len(q \o tail) = Len(q) + Len(tail)
        /\ \A i \in 1 .. Len(q) : (q \o tail)[i] = q[i]
    BY <1>6, <1>8, Join
  <2>3. h = Len(q)
    BY <1>8, <2>1
  <2>4. r \in Seq(Nat) /\ Len(r) = h + k /\ \A i \in 1 .. h : r[i] = q[i]
    BY <1>9, <1>10, <2>2, <2>3, Zenon
  <2> QED  BY <2>1, <2>4
<1>12. \A i \in 1 .. n : r[2 + i] = u[i]
  <2>1. ASSUME NEW i \in 1 .. n PROVE r[2 + i] = u[i]
    <3>1. 2 + i \in 1 .. 2 + n
      OBVIOUS
    <3> QED  BY <1>8, <1>11, <3>1
  <2> QED  BY <2>1
<1>13. SubSeq(r, 3, Len(r) - Len(tail)) = u
  <2>1. 2 + n <= Len(r) /\ 2 + 1 = 3 /\ Len(r) - Len(tail) = 2 + n
    BY <1>10, <1>11
  <2>2. SubSeq(r, 2 + 1, 2 + n) = u
    BY <1>3, <1>4, <1>11, <1>12, <2>1, Part
  <2> QED  BY <2>1, <2>2
<1> QED  BY <1>1, <1>3, <1>5, <1>7, <1>9, <1>13 DEF DebugOk

LEMMA RealIs ==
    ASSUME NEW neg \in BOOLEAN, NEW n \in Nat, NEW d \in Nat \ {0}, NEW m \in Nat, NEW e \in Nat,
           n < (U64 \div 2) * d,
           NEW real, real = [neg |-> neg, n |-> n, d |-> d, mantissa |-> m, exponent |-> e]
    PROVE  RealPrinted(writeReal(real), real)
<1> DEFINE signed == real.neg /\ real.n # 0
<1>1. /\ real.neg = neg /\ real.n = n /\ real.d = d
      /\ real.mantissa = m /\ real.exponent = e
  OBVIOUS
<1>2. PICK r : r = writeReal(real)
  OBVIOUS
<1>3. CASE ~real.neg /\ real.n > (U32 \div 2 - 1) * real.d
  <2>1. r = writeRealDebug(real.mantissa, real.exponent)
    BY <1>2, <1>3 DEF writeReal
  <2>2. real.mantissa \in Nat /\ real.exponent \in Nat
    BY <1>1
  <2> HIDE DEF signed
  <2>3. DebugOk(r, real.mantissa, real.exponent)
    BY <2>1, <2>2, DebugIs
  <2> QED  BY <1>2, <1>3, <2>3, Zenon DEF RealPrinted, DebugOk
<1>4. CASE ~(~real.neg /\ real.n > (U32 \div 2 - 1) * real.d)
  <2>1. PICK w \in Nat : w = n \div d
    BY DivNat
  <2>2. w < U64 \div 2
    <3>1. U64 \div 2 \in Nat
      BY U32Is
    <3>2. n < d * (U64 \div 2)
      BY <3>1
    <3> QED  BY <2>1, <3>1, <3>2, QuotientLess
  <2>3. PICK f \in Nat : f = n % d /\ f < d
    BY DivNat
  <2>4. PICK s : s = Fraction[[f |-> f, d |-> d, left |-> MaxFractionalDigits, out |-> << >>]]
    OBVIOUS
  <2>5. FractionExact(s, f, d) /\ Plain(s)
    BY <2>3, <2>4, FractionIs, TensPlain
  <2>6. PICK sign : sign = IF signed THEN << Minus >> ELSE << >>
    OBVIOUS
  <2>7. r = ((sign \o writeInt64(w)) \o << Point >>) \o s
    <3>1. r = writeReal_component(real)
      BY <1>2, <1>4 DEF writeReal
    <3>2. (real.neg /\ real.n > 0) <=> signed
      BY <1>1
    <3>3. sign = IF real.neg /\ real.n > 0 THEN << Minus >> ELSE << >>
      BY <2>6, <3>2
    <3> HIDE DEF signed
    <3> QED  BY <1>1, <2>1, <2>3, <2>4, <3>1, <3>3 DEF writeReal_component
  <2>8. signed \in BOOLEAN
    OBVIOUS
  <2> HIDE DEF signed
  <2>9. ComponentOk(r, w, s, signed)
    BY <2>2, <2>5, <2>6, <2>7, <2>8, ComponentIs
  <2>10. ComponentOk(r, real.n \div real.d, s, signed)
    BY <1>1, <2>1, <2>9, Zenon
  <2>11. FractionExact(s, real.n % real.d, real.d)
    BY <1>1, <2>3, <2>5, Zenon
  <2> QED  BY <1>2, <1>4, <2>10, <2>11, Zenon DEF RealPrinted, ComponentOk, Dot, signed
<1> QED  BY <1>3, <1>4
-----------------------------------------------------------------------------
(* trace.  Only the lengths matter.                                        *)

Outputs == [out : Seq(Nat), cursor : Nat]
Counts(v, length, cursor) == v \in Outputs /\ Len(v.out) = length /\ v.cursor = cursor

LEMMA SpacesAre ==
    ASSUME NEW n \in Nat
    PROVE  Spaces(n) \in Seq(Nat) /\ Len(Spaces(n)) = n
  BY DEF Spaces, Space

LEMMA PadCounts ==
    ASSUME NEW v, NEW l \in Nat, NEW c \in Nat, Counts(v, l, c), NEW a \in Nat,
           NEW n \in Nat, n = IF a > c THEN a - c ELSE 0
    PROVE  Counts(Written(v, Item("pad", a)), l + n, c + n)
<1>1. PICK o \in Seq(Nat) : o = v.out
  BY DEF Counts, Outputs
<1>2. v.cursor = c /\ Len(o) = l
  BY <1>1 DEF Counts
<1>3. PICK i : i = Item("pad", a)
  OBVIOUS
<1>4. i.conv = "pad" /\ i.arg = a
  BY <1>3 DEF Item
<1>5. PICK t : t = o \o Spaces(n)
  OBVIOUS
<1>6. t \in Seq(Nat) /\ Len(t) = l + n
  <2>1. PICK b \in Seq(Nat) : b = Spaces(n) /\ Len(b) = n
    BY SpacesAre
  <2>2. t = o \o b
    BY <1>5, <2>1
  <2>3. o \o b \in Seq(Nat) /\ Len(o \o b) = Len(o) + Len(b)
    BY Join, Zenon
  <2> QED  BY <1>2, <2>1, <2>2, <2>3
<1>7. Written(v, i) = [out |-> t, cursor |-> c + n]
  BY <1>1, <1>2, <1>4, <1>5 DEF Written
<1>8. Counts([out |-> t, cursor |-> c + n], l + n, c + n)
  BY <1>6 DEF Counts, Outputs
<1> QED  BY <1>3, <1>7, <1>8

LEMMA ItemCounts ==
    ASSUME NEW v, NEW l \in Nat, NEW c \in Nat, Counts(v, l, c), NEW i, i.conv # "pad",
           NEW s \in Seq(Nat), s = Converted(i), NEW n \in Nat, n = Len(s),
           NEW k \in Nat, k = IF i.conv = "char" THEN 1 ELSE 0
    PROVE  Counts(Written(v, i), l + n, (c + n) + k)
<1>1. PICK o \in Seq(Nat) : o = v.out
  BY DEF Counts, Outputs
<1>2. v.cursor = c /\ Len(o) = l
  BY <1>1 DEF Counts
<1>5. PICK t : t = o \o s
  OBVIOUS
<1>6. t \in Seq(Nat) /\ Len(t) = l + n
  BY <1>2, <1>5, Join
<1>7. Written(v, i) = [out |-> t, cursor |-> (c + n) + k]
  BY <1>1, <1>2, <1>5 DEF Written
<1>8. Counts([out |-> t, cursor |-> (c + n) + k], l + n, (c + n) + k)
  BY <1>6 DEF Counts, Outputs
<1> QED  BY <1>7, <1>8

LEMMA CharCounts ==
    ASSUME NEW v, NEW l \in Nat, NEW c \in Nat, Counts(v, l, c), NEW a \in Nat
    PROVE  Counts(Written(v, Item("char", a)), l + 1, c + 2)
<1>1. PICK i : i = Item("char", a)
  OBVIOUS
<1>2. i.conv = "char" /\ i.arg = a
  BY <1>1 DEF Item
<1>3. Converted(i) = << a >>
  BY <1>2 DEF Converted
<1>4. << a >> \in Seq(Nat) /\ Len(<< a >>) = 1
  BY One
<1>5. Counts(Written(v, i), l + 1, (c + 1) + 1)
  BY <1>2, <1>3, <1>4, ItemCounts
<1> QED  BY <1>1, <1>5

LEMMA StringCounts ==
    ASSUME NEW v, NEW l \in Nat, NEW c \in Nat, Counts(v, l, c), NEW a \in Seq(Nat),
           NEW n \in Nat, n = Len(a)
    PROVE  Counts(Written(v, Item("s", a)), l + n, c + n)
<1>1. PICK i : i = Item("s", a)
  OBVIOUS
<1>2. i.conv = "s" /\ i.arg = a
  BY <1>1 DEF Item
<1>3. Converted(i) = a
  BY <1>2 DEF Converted
<1>5. Counts(Written(v, i), l + n, (c + n) + 0)
  BY <1>2, <1>3, ItemCounts
<1> QED  BY <1>1, <1>5

LEMMA NumberCounts ==
    ASSUME NEW v, NEW l \in Nat, NEW c \in Nat, Counts(v, l, c), NEW a \in Nat,
           NEW n \in Nat, n = Len(writeInt(a))
    PROVE  Counts(Written(v, Item("d", a)), l + n, c + n)
<1>1. PICK i : i = Item("d", a)
  OBVIOUS
<1>2. i.conv = "d" /\ i.arg = a
  BY <1>1 DEF Item
<1>3. Converted(i) = writeInt(a)
  BY <1>2 DEF Converted
<1>4. writeInt(a) \in Seq(Nat)
  BY UIntSeq
<1>5. Counts(Written(v, i), l + n, (c + n) + 0)
  BY <1>2, <1>3, <1>4, ItemCounts
<1> QED  BY <1>1, <1>5

\* The same, for one round of kwritef.
LEMMA CharRound ==
    ASSUME NEW v, NEW l \in Nat, NEW c \in Nat, Counts(v, l, c), NEW a \in Nat,
           NEW u, NEW i, u = Written(v, i), i = Item("char", a),
           NEW l2 \in Nat, l2 = l + 1, NEW c2 \in Nat, c2 = c + 2
    PROVE  Counts(u, l2, c2)
  BY CharCounts

LEMMA StringRound ==
    ASSUME NEW v, NEW l \in Nat, NEW c \in Nat, Counts(v, l, c), NEW a \in Seq(Nat),
           NEW u, NEW i, u = Written(v, i), i = Item("s", a), NEW n \in Nat, n = Len(a),
           NEW l2 \in Nat, l2 = l + n, NEW c2 \in Nat, c2 = c + n
    PROVE  Counts(u, l2, c2)
  BY StringCounts

LEMMA NumberRound ==
    ASSUME NEW v, NEW l \in Nat, NEW c \in Nat, Counts(v, l, c), NEW a \in Nat,
           NEW u, NEW i, u = Written(v, i), i = Item("d", a), NEW n \in Nat, n = Len(writeInt(a)),
           NEW l2 \in Nat, l2 = l + n, NEW c2 \in Nat, c2 = c + n
    PROVE  Counts(u, l2, c2)
  BY NumberCounts

Padding(a, c) == IF a > c THEN a - c ELSE 0

LEMMA PaddingIs ==
    ASSUME NEW a \in Nat, NEW c \in Nat
    PROVE  Padding(a, c) \in Nat /\ (a > c => Padding(a, c) = a - c)
           /\ (~(a > c) => Padding(a, c) = 0)
  BY DEF Padding

\* What kwritef goes through.
Writing(w, format, n) ==
    /\ w[0] = [out |-> << >>, cursor |-> 0]
    /\ \A i \in 1 .. n : w[i] = Written(w[i - 1], format[i])

LEMMA KwritefIs ==
    ASSUME NEW format, NEW n \in Nat, Len(format) = n,
           \A i \in 1 .. n : \A v \in Outputs : Written(v, format[i]) \in Outputs
    PROVE  \E w : Writing(w, format, n) /\ kwritef(format) = w[n].out
<1> DEFINE start == [out |-> << >>, cursor |-> 0]
<1> DEFINE step == [x \in (1 .. n) \X Outputs |-> Written(x[2], format[x[1]])]
<1> DEFINE v == CHOOSE f : f = [i \in 0 .. n |-> IF i = 0 THEN start
                                               ELSE Written(f[i - 1], format[i])]
<1>1. start \in Outputs
  BY Empty DEF Outputs
<1>2. step \in [(1 .. n) \X Outputs -> Outputs]
  <2>1. ASSUME NEW x \in (1 .. n) \X Outputs PROVE Written(x[2], format[x[1]]) \in Outputs
    <3>1. x[1] \in 1 .. n /\ x[2] \in Outputs
      OBVIOUS
    <3> QED  BY <3>1
  <2> QED  BY <2>1
<1>3. kwritef(format) = v[n].out
  BY DEF kwritef
<1>4. \A i \in 1 .. n : \A x \in Outputs : step[<< i, x >>] = Written(x, format[i])
  OBVIOUS
<1> HIDE DEF step, start
<1>5. PICK g \in [0 .. n -> Outputs] : IsCount(g, n, start, step)
  BY <1>1, <1>2, Count
<1>6. g = [i \in 0 .. n |-> IF i = 0 THEN start ELSE Written(g[i - 1], format[i])]
  <2>1. ASSUME NEW i \in 0 .. n
        PROVE g[i] = IF i = 0 THEN start ELSE Written(g[i - 1], format[i])
    <3>1. g[i] = IF i = 0 THEN start ELSE step[<< i, g[i - 1] >>]
      BY <1>5 DEF IsCount
    <3>2. i = 0 \/ (i \in 1 .. n /\ g[i - 1] \in Outputs)
      OBVIOUS
    <3> QED  BY <3>1, <3>2, <1>4
  <2> QED  BY <2>1
<1>7. v = [i \in 0 .. n |-> IF i = 0 THEN start ELSE Written(v[i - 1], format[i])]
  BY <1>6
<1> HIDE DEF v
<1>8. v[0] = start /\ \A i \in 1 .. n : v[i] = Written(v[i - 1], format[i])
  BY <1>7
<1>9. Writing(v, format, n)
  BY <1>8 DEF Writing, start
<1> QED  BY <1>3, <1>9

Eight(f, a1, a2, a3, a4, a5, a6, a7, a8) ==
    /\ Len(f) = 8 /\ f[1] = a1 /\ f[2] = a2 /\ f[3] = a3 /\ f[4] = a4
    /\ f[5] = a5 /\ f[6] = a6 /\ f[7] = a7 /\ f[8] = a8

Lengthened(f, t, n, c) == Len(f) = n + 1 /\ (\A i \in 1 .. n : f[i] = t[i]) /\ f[n + 1] = c

LEMMA OneMore ==
    ASSUME NEW S, NEW t \in Seq(S), NEW m \in Seq(S), Len(m) = 1, NEW n \in Nat, Len(t) = n,
           NEW f, f = t \o m
    PROVE  Lengthened(f, t, n, m[1])
<1>1. /\ Len(f) = Len(t) + Len(m)
      /\ \A i \in 1 .. Len(t) + Len(m) : f[i] = IF i <= Len(t) THEN t[i] ELSE m[i - Len(t)]
  BY ConcatProperties
<1>2. \A i \in 1 .. n + 1 : f[i] = IF i <= n THEN t[i] ELSE m[i - n]
  BY <1>1
<1>3. \A i \in 1 .. n : i \in 1 .. n + 1 /\ i <= n
  OBVIOUS
<1>4. n + 1 \in 1 .. n + 1 /\ ~(n + 1 <= n) /\ (n + 1) - n = 1
  OBVIOUS
<1> QED  BY <1>1, <1>2, <1>3, <1>4 DEF Lengthened

LEMMA SevenAndOne ==
    ASSUME NEW S, NEW a1 \in S, NEW a2 \in S, NEW a3 \in S, NEW a4 \in S, NEW a5 \in S,
           NEW a6 \in S, NEW a7 \in S, NEW m \in Seq(S), Len(m) = 1,
           NEW f, f = << a1, a2, a3, a4, a5, a6, a7 >> \o m
    PROVE  Eight(f, a1, a2, a3, a4, a5, a6, a7, m[1])
<1>0. << a1, a2, a3, a4, a5, a6, a7 >> \in Seq(S)
  OBVIOUS
<1>1. PICK t \in Seq(S) : t = << a1, a2, a3, a4, a5, a6, a7 >>
  BY <1>0, Zenon
<1>2. /\ Len(t) = 7 /\ t[1] = a1 /\ t[2] = a2 /\ t[3] = a3 /\ t[4] = a4
      /\ t[5] = a5 /\ t[6] = a6 /\ t[7] = a7
  BY <1>1
<1>5. f = t \o m
  BY <1>1
<1>6. Len(f) = 7 + 1 /\ (\A i \in 1 .. 7 : f[i] = t[i]) /\ f[7 + 1] = m[1]
  <2>1. PICK n \in Nat : n = 7 /\ Len(t) = n
    BY <1>2
  <2>2. Lengthened(f, t, n, m[1])
    BY <1>5, <2>1, OneMore
  <2> QED  BY <2>1, <2>2 DEF Lengthened
<1>7. f[8] = m[1] /\ Len(f) = 8 /\ \A i \in 1 .. 7 : f[i] = t[i]
  <2>1. 7 + 1 = 8
    OBVIOUS
  <2> QED  BY <1>6, <2>1, Zenon
<1>8. /\ f[1] = t[1] /\ f[2] = t[2] /\ f[3] = t[3] /\ f[4] = t[4]
      /\ f[5] = t[5] /\ f[6] = t[6] /\ f[7] = t[7]
  BY <1>7
<1> QED  BY <1>2, <1>7, <1>8 DEF Eight

\* The items of trace's format.
TraceFormat(f, file, line, c) ==
    Eight(f, Item("s", file), Item("char", Colon), Item("char", Colon), Item("d", line),
          Item("char", Colon), Item("char", Space), Item("pad", 30), Item("char", c))

LEMMA FormatIs ==
    ASSUME NEW file, NEW line, NEW c, NEW m, m = [i \in 1 .. 1 |-> Item("char", c)],
           NEW f, f = << Item("s", file), Item("char", Colon), Item("char", Colon),
                         Item("d", line), Item("char", Colon), Item("char", Space),
                         Item("pad", 30) >> \o m
    PROVE  TraceFormat(f, file, line, c)
<1>1. PICK a1, a2, a4, a6, a7, a8 :
          /\ a1 = Item("s", file) /\ a2 = Item("char", Colon) /\ a4 = Item("d", line)
          /\ a6 = Item("char", Space) /\ a7 = Item("pad", 30) /\ a8 = Item("char", c)
  OBVIOUS
<1>2. PICK S : S = {a1, a2, a4, a6, a7, a8}
  OBVIOUS
<1>3. a1 \in S /\ a2 \in S /\ a4 \in S /\ a6 \in S /\ a7 \in S /\ a8 \in S
  BY <1>2
<1>4. m \in Seq(S) /\ Len(m) = 1 /\ m[1] = a8
  <2>1. m = [i \in 1 .. 1 |-> a8]
    BY <1>1
  <2> QED  BY <1>3, <2>1
<1>5. f = << a1, a2, a2, a4, a2, a6, a7 >> \o m
  BY <1>1
<1>6. Eight(f, a1, a2, a2, a4, a2, a6, a7, m[1])
  BY <1>3, <1>4, <1>5, SevenAndOne
<1> QED  BY <1>1, <1>4, <1>6 DEF TraceFormat

LEMMA WrittenOutput ==
    ASSUME NEW v \in Outputs
    PROVE  /\ \A a \in Seq(Nat) : Written(v, Item("s", a)) \in Outputs
           /\ \A a \in Nat : /\ Written(v, Item("char", a)) \in Outputs
                             /\ Written(v, Item("d", a)) \in Outputs
                             /\ Written(v, Item("pad", a)) \in Outputs
<1>1. PICK n \in Nat : n = Len(v.out)
  BY DEF Outputs
<1>2. PICK c \in Nat : c = v.cursor
  BY DEF Outputs
<1>3. Counts(v, n, c)
  BY <1>1, <1>2 DEF Counts
<1>4. ASSUME NEW a \in Seq(Nat) PROVE Written(v, Item("s", a)) \in Outputs
  <2>1. PICK k \in Nat : k = Len(a)
    OBVIOUS
  <2>2. Counts(Written(v, Item("s", a)), n + k, c + k)
    BY <1>3, <2>1, StringCounts
  <2> QED  BY <2>2 DEF Counts
<1>5. ASSUME NEW a \in Nat PROVE Written(v, Item("char", a)) \in Outputs
  <2>2. Counts(Written(v, Item("char", a)), n + 1, c + 2)
    BY <1>3, CharCounts
  <2> QED  BY <2>2 DEF Counts
<1>6. ASSUME NEW a \in Nat PROVE Written(v, Item("d", a)) \in Outputs
  <2>1. PICK k \in Nat : k = Len(writeInt(a))
    BY UIntSeq
  <2>2. Counts(Written(v, Item("d", a)), n + k, c + k)
    BY <1>3, <2>1, NumberCounts
  <2> QED  BY <2>2 DEF Counts
<1>7. ASSUME NEW a \in Nat PROVE Written(v, Item("pad", a)) \in Outputs
  <2>1. PICK k \in Nat : k = Padding(a, c)
    BY PaddingIs
  <2>2. Counts(Written(v, Item("pad", a)), n + k, c + k)
    BY <1>3, <2>1, PadCounts DEF Padding
  <2> QED  BY <2>2 DEF Counts
<1> QED  BY <1>4, <1>5, <1>6, <1>7

LEMMA TraceCounts ==
    ASSUME NEW file \in Seq(Nat), NEW n \in Nat, n = Len(file), NEW line \in Nat,
           NEW l \in Nat, l = Len(writeInt(line)), NEW z \in Nat,
           NEW f, TraceFormat(f, file, line, z), NEW w, Writing(w, f, 8),
           NEW p \in Nat, p = (n + 4) + l
    PROVE  Len(w[8].out) = 1 + IF p <= 26 THEN 26 ELSE p
<1>f1. f[1] = Item("s", file)
  BY DEF TraceFormat, Eight
<1>f2. f[2] = Item("char", Colon)
  BY DEF TraceFormat, Eight
<1>f3. f[3] = Item("char", Colon)
  BY DEF TraceFormat, Eight
<1>f4. f[4] = Item("d", line)
  BY DEF TraceFormat, Eight
<1>f5. f[5] = Item("char", Colon)
  BY DEF TraceFormat, Eight
<1>f6. f[6] = Item("char", Space)
  BY DEF TraceFormat, Eight
<1>f7. f[7] = Item("pad", 30)
  BY DEF TraceFormat, Eight
<1>f8. f[8] = Item("char", z)
  BY DEF TraceFormat, Eight
<1>2. \A i \in 1 .. 8 : w[i] = Written(w[i - 1], f[i])
  BY DEF Writing
<1>w1. w[1] = Written(w[0], f[1])
  BY <1>2
<1>w2. w[2] = Written(w[1], f[2])
  BY <1>2
<1>w3. w[3] = Written(w[2], f[3])
  BY <1>2
<1>w4. w[4] = Written(w[3], f[4])
  BY <1>2
<1>w5. w[5] = Written(w[4], f[5])
  BY <1>2
<1>w6. w[6] = Written(w[5], f[6])
  BY <1>2
<1>w7. w[7] = Written(w[6], f[7])
  BY <1>2
<1>w8. w[8] = Written(w[7], f[8])
  BY <1>2
<1>4. Colon \in Nat
  BY DEF Colon
<1>4a. Space \in Nat
  BY DEF Space
<1>4b. PICK e \in Nat : e = 30 /\ f[7] = Item("pad", e)
  BY <1>f7
<1>5. Counts(w[0], 0, 0)
  BY Empty, EmptySeq DEF Writing, Counts, Outputs
<1>6. Counts(w[1], n, n)
  <2>1. PICK o \in Nat : o = 0 /\ n = o + n
    OBVIOUS
  <2> QED  BY <1>f1, <1>w1, <1>5, <2>1, StringRound
<1>7. PICK l2 \in Nat, l3 \in Nat : l2 = n + 1 /\ l3 = l2 + 1
  OBVIOUS
<1>8. PICK c2 \in Nat, c3 \in Nat : c2 = n + 2 /\ c3 = c2 + 2
  OBVIOUS
<1>9. Counts(w[2], l2, c2)
  BY <1>f2, <1>w2, <1>4, <1>6, <1>7, <1>8, CharRound
<1>10. Counts(w[3], l3, c3)
  BY <1>f3, <1>w3, <1>4, <1>7, <1>8, <1>9, CharRound
<1>11. PICK l4 \in Nat, c4 \in Nat : l4 = l3 + l /\ c4 = c3 + l
  OBVIOUS
<1>12. Counts(w[4], l4, c4)
  BY <1>f4, <1>w4, <1>10, <1>11, NumberRound
<1>13. PICK l5 \in Nat, c5 \in Nat : l5 = l4 + 1 /\ c5 = c4 + 2
  OBVIOUS
<1>14. Counts(w[5], l5, c5)
  BY <1>f5, <1>w5, <1>4, <1>12, <1>13, CharRound
<1>15. PICK l6 \in Nat, c6 \in Nat : l6 = l5 + 1 /\ c6 = c5 + 2
  OBVIOUS
<1>16. Counts(w[6], l6, c6)
  BY <1>f6, <1>w6, <1>4a, <1>14, <1>15, CharRound
<1>17. PICK k \in Nat : k = Padding(e, c6)
  BY <1>4b, PaddingIs
<1>18. PICK l7 \in Nat, c7 \in Nat : l7 = l6 + k /\ c7 = c6 + k
  OBVIOUS
<1>19. Counts(w[7], l7, c7)
  <2>1. Counts(Written(w[6], Item("pad", e)), l6 + k, c6 + k)
    BY <1>16, <1>17, PadCounts DEF Padding
  <2>2. w[7] = Written(w[6], Item("pad", e))
    BY <1>w7, <1>4b
  <2> QED  BY <1>18, <2>1, <2>2
<1>20. PICK l8 \in Nat, c8 \in Nat : l8 = l7 + 1 /\ c8 = c7 + 2
  OBVIOUS
<1>21. Counts(w[8], l8, c8)
  BY <1>f8, <1>w8, <1>19, <1>20, CharRound
<1>22. l6 = p /\ c6 = p + 4
  BY <1>7, <1>8, <1>11, <1>13, <1>15
<1>22a. (30 > c6 => k = 30 - c6) /\ (~(30 > c6) => k = 0)
  BY <1>4b, <1>17, PaddingIs
<1>23. l8 = (p + k) + 1 /\ (30 > p + 4 => k = 30 - (p + 4)) /\ (~(30 > p + 4) => k = 0)
  BY <1>18, <1>20, <1>22, <1>22a
<1>24. l8 = 1 + IF p <= 26 THEN 26 ELSE p
  <2>1. CASE p <= 25
    BY <1>23, <2>1
  <2>2. CASE p = 26
    BY <1>23, <2>2
  <2>3. CASE p > 26
    BY <1>23, <2>3
  <2> QED  BY <2>1, <2>2, <2>3
<1> QED  BY <1>21, <1>24 DEF Counts

LEMMA TraceIs ==
    ASSUME NEW name \in Nat, NEW line \in Nat, NEW r,
           r = trace([i \in 1 .. name |-> 102], line, << 109 >>)
    PROVE  LET prefix == (name + 4) + Len(writeInt(line))
           IN  Len(r) = 1 + IF prefix <= 26 THEN 26 ELSE prefix
<1>1. PICK file \in Seq(Nat) : file = [i \in 1 .. name |-> 102] /\ Len(file) = name
  <2>1. [i \in 1 .. name |-> 102] \in Seq(Nat) /\ Len([i \in 1 .. name |-> 102]) = name
    OBVIOUS
  <2> QED  BY <2>1
<1>2. PICK l \in Nat : l = Len(writeInt(line))
  BY UIntSeq
<1>3. PICK z \in Nat : z = 109
  OBVIOUS
<1>4. PICK m : m = [i \in 1 .. Len(<< z >>) |-> Item("char", << z >>[i])]
  OBVIOUS
<1>5. m = [i \in 1 .. 1 |-> Item("char", z)]
  <2>1. Len(<< z >>) = 1 /\ << z >>[1] = z
    BY One
  <2>2. m = [i \in 1 .. 1 |-> Item("char", << z >>[i])]
    BY <1>4, <2>1
  <2> QED  BY <2>1, <2>2
<1>6. PICK f : f = << Item("s", file), Item("char", Colon), Item("char", Colon), Item("d", line),
                      Item("char", Colon), Item("char", Space), Item("pad", 30) >> \o m
  OBVIOUS
<1>7. TraceFormat(f, file, line, z)
  BY <1>5, <1>6, FormatIs
<1>8. r = kwritef(f)
  BY <1>1, <1>3, <1>4, <1>6 DEF trace
<1>9. Colon \in Nat /\ Space \in Nat /\ 30 \in Nat
  BY DEF Colon, Space
<1>10. ASSUME NEW i \in 1 .. 8, NEW v \in Outputs PROVE Written(v, f[i]) \in Outputs
  <2>1. i = 1 \/ i = 2 \/ i = 3 \/ i = 4 \/ i = 5 \/ i = 6 \/ i = 7 \/ i = 8
    OBVIOUS
  <2>2. \/ f[i] = Item("s", file) \/ f[i] = Item("d", line) \/ f[i] = Item("pad", 30)
        \/ f[i] = Item("char", Colon) \/ f[i] = Item("char", Space) \/ f[i] = Item("char", z)
    BY <1>7, <2>1 DEF TraceFormat, Eight
  <2> QED  BY <1>9, <2>2, WrittenOutput
<1>11. PICK w : Writing(w, f, 8) /\ kwritef(f) = w[8].out
  <2>1. Len(f) = 8
    BY <1>7 DEF TraceFormat, Eight
  <2> QED  BY <1>10, <2>1, KwritefIs
<1>12. PICK p \in Nat : p = (name + 4) + l
  OBVIOUS
<1>13. Len(w[8].out) = 1 + IF p <= 26 THEN 26 ELSE p
  BY <1>1, <1>2, <1>7, <1>11, <1>12, TraceCounts
<1> QED  BY <1>2, <1>8, <1>11, <1>12, <1>13
-----------------------------------------------------------------------------
(* What the calls print.                                                   *)

LEMMA PrintCall ==
    ASSUME LInv, done, call.op \in PrintOps
    PROVE  PrintCalls /\ result = Formatted(call.op, call.args)
  BY CallIs

TracePrinted(r, args) ==
    LET prefix == args[1] + 4 + Len(writeInt(args[2]))
    IN  Len(r) = 1 + IF prefix <= 26 THEN 26 ELSE prefix

\* Numbers are printed as they are, but where div64_slow stops doubling too
\* early or a mantissa has more than 32 bits, and messages line up: scrn.c's
\* div64_slow, writeInt, writeInt64, writeHex_bytes, writeBinary, writeReal, for
\* reals of 50 binary places at most, and kwritef.
THEOREM Printing_Exact == Spec => []PrintingExact
<1>1. LInv => PrintingExact
  <2> SUFFICES ASSUME LInv PROVE PrintingExact
    OBVIOUS
  <2>1. CASE Returned("div64_slow")
    <3>1. PrintCalls /\ result = Formatted(call.op, call.args) /\ call.op = "div64_slow"
      BY <2>1, PrintCall DEF Returned, PrintOps
    <3>2. PICK A \in Dividends, B \in Divisors : call.args = << A, B >>
      BY <3>1 DEF PrintCalls, Called
    <3>3. A \in Nat /\ B \in Nat \ {0}
      BY LibraryAssumption
    <3>4. call.args[1] = A /\ call.args[2] = B
      BY <3>2
    <3>5. result = div64_slow(A, B)
      BY <3>1, <3>4 DEF Formatted
    <3>6. DivisionExact(result, call.args[1], call.args[2])
      BY <3>3, <3>4, <3>5, DivisionIs
    <3> QED  BY <3>1, <3>6 DEF PrintingExact, Returned
  <2>2. CASE Returned("writeInt")
    <3>1. PrintCalls /\ result = Formatted(call.op, call.args) /\ call.op = "writeInt"
      BY <2>2, PrintCall DEF Returned, PrintOps
    <3>2. PICK num \in 0 .. U32 - 1 : call.args = num
      BY <3>1 DEF PrintCalls, Called
    <3>3. result = writeInt(num)
      BY <3>1, <3>2 DEF Formatted
    <3>4. IntExact(result, call.args, U32)
      BY <3>2, <3>3, IntIs
    <3> QED  BY <3>1, <3>4 DEF PrintingExact, Returned
  <2>3. CASE Returned("writeHex_bytes")
    <3>1. PrintCalls /\ result = Formatted(call.op, call.args) /\ call.op = "writeHex_bytes"
      BY <2>3, PrintCall DEF Returned, PrintOps
    <3>2. PICK num \in 0 .. U32 - 1 : call.args = num
      BY <3>1 DEF PrintCalls, Called
    <3>3. result = writeHex_bytes(num, HexDigits)
      BY <3>1, <3>2 DEF Formatted
    <3>4. Value(SubSeq(result, 3, Len(result)), 16) = call.args
      BY <3>2, <3>3, HexIs
    <3> QED  BY <3>1, <3>4 DEF PrintingExact, Returned
  <2>4. CASE Returned("writeBinary")
    <3>1. PrintCalls /\ result = Formatted(call.op, call.args) /\ call.op = "writeBinary"
      BY <2>4, PrintCall DEF Returned, PrintOps
    <3>2. PICK num \in 0 .. U32 - 1 : call.args = num
      BY <3>1 DEF PrintCalls, Called
    <3>3. result = writeBinary(num, 4 * HexDigits)
      BY <3>1, <3>2 DEF Formatted
    <3>4. Value(SubSeq(result, 3, Len(result)), 2) = call.args
      BY <3>2, <3>3, BinaryIs
    <3> QED  BY <3>1, <3>4 DEF PrintingExact, Returned
  <2>5. CASE Returned("writeInt64")
    <3>1. PrintCalls /\ result = Formatted(call.op, call.args) /\ call.op = "writeInt64"
      BY <2>5, PrintCall DEF Returned, PrintOps
    <3>2. PICK num \in Longs : call.args = num
      BY <3>1 DEF PrintCalls, Called
    <3>3. num \in 0 .. U64 - 1
      BY LibraryAssumption
    <3>4. result = writeInt64(num)
      BY <3>1, <3>2 DEF Formatted
    <3>5. IntExact(result, call.args, U64) <=> LongExact(Magnitude(Signed(call.args, U64)))
      BY <3>2, <3>3, <3>4, LongIntIs
    <3> QED  BY <3>1, <3>5 DEF PrintingExact, Returned
  <2>6. CASE Returned("writeReal")
    <3>1. PrintCalls /\ result = Formatted(call.op, call.args) /\ call.op = "writeReal"
      BY <2>6, PrintCall DEF Returned, PrintOps
    <3>2. PICK p \in BinaryPlaces, n \in Dividends, neg \in BOOLEAN, high \in {0, 1} :
              n < (U64 \div 2) * Power(2, p) /\ call.args = Real(neg, n, p, high)
      BY <3>1 DEF PrintCalls, Called
    <3>3. n \in Nat /\ Power(2, p) \in Nat \ {0}
      <4>1. p \in Nat
        BY LibraryAssumption DEF ExactPlaces
      <4> QED  BY <4>1, PowerPositive, LibraryAssumption
    <3>4. PICK m \in Nat : m = high * U32 + n
      BY <3>3, U32Is
    <3>5. call.args = [neg |-> neg, n |-> n, d |-> Power(2, p), mantissa |-> m, exponent |-> 7]
      BY <3>2, <3>4 DEF Real
    <3>6. result = writeReal(call.args)
      BY <3>1 DEF Formatted
    <3>7. RealPrinted(result, call.args)
      BY <3>2, <3>3, <3>5, <3>6, RealIs
    <3> QED  BY <3>1, <3>7, Zenon DEF PrintingExact, Returned
  <2>7. CASE Returned("trace")
    <3>1. PrintCalls /\ result = Formatted(call.op, call.args) /\ call.op = "trace"
      BY <2>7, PrintCall DEF Returned, PrintOps
    <3>2. PICK name \in 1 .. 24, line \in 1 .. U32 \div 2 - 1 : call.args = << name, line >>
      BY <3>1 DEF PrintCalls, Called
    <3>3. call.args[1] = name /\ call.args[2] = line /\ name \in Nat
      BY <3>2
    <3>4. line \in Nat
      BY U32Is
    <3>5. result = trace([i \in 1 .. name |-> 102], line, << 109 >>)
      BY <3>1, <3>3 DEF Formatted
    <3>6. TracePrinted(result, call.args)
      BY <3>3, <3>4, <3>5, TraceIs DEF TracePrinted
    <3> QED  BY <3>1, <3>6, Zenon DEF PrintingExact, Returned, TracePrinted
  <2> QED  BY <2>1, <2>2, <2>3, <2>4, <2>5, <2>6, <2>7, Zenon DEF PrintingExact, Returned
<1> QED  BY <1>1, LInvHolds, PTL
=============================================================================
