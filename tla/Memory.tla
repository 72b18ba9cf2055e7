------------------------------- MODULE Memory -------------------------------
(***************************************************************************)
(* The memory functions of main.c on a small memory: mem maps addresses to *)
(* bytes, and every function that writes gives the memory after it.        *)
(***************************************************************************)
EXTENDS Integers, SequencesExt

CONSTANTS
    Byte,           \* values of a byte: 256, a power of two
    Word,           \* sizeof(size_t): 4
    ByteXor(_, _)   \* the processor's, of two bytes

ASSUME MemoryAssumption == Byte \in Nat \ {0, 1} /\ Byte % 2 = 0 /\ Word \in Nat \ {0}
ASSUME XorAssumption ==
    \A a, b \in 0 .. Byte - 1 :
        ByteXor(a, b) \in 0 .. Byte - 1 /\ (ByteXor(a, b) = 0 <=> a = b)

\* k bytes are read, and then written.
Move(mem, d, s, k) ==
    [a \in DOMAIN mem |-> IF a \in d .. d + k - 1 THEN mem[s + a - d] ELSE mem[a]]

\* One Move for each <<offset, size>>, in their order.
Moves(mem, d, s, pieces) ==
    LET moved[i \in 0 .. Len(pieces)] ==
            IF i = 0 THEN mem
            ELSE Move(moved[i - 1], d + pieces[i][1], s + pieces[i][1], pieces[i][2])
    IN  moved[Len(pieces)]

Bytes(from, n) == [i \in 1 .. n |-> <<from + i - 1, 1>>]
Words(from, n) == [i \in 1 .. n |-> <<from + (i - 1) * Word, Word>>]

-----------------------------------------------------------------------------
(* Copying and setting.                                                    *)

\* rep movsb
kmemcpy(mem, dest, src, n) == Moves(mem, dest, src, Bytes(0, n))

\* The bytes before a is a multiple of the word.
Least(a, b) == IF a < b THEN a ELSE b
Unaligned(a, n) == Least((Word - (a % Word)) % Word, n)

\* Upwards: bytes until d is aligned, words, the rest.  Downwards the other
\* way round: bytes until the end is aligned, words, the rest.
Upwards(d, n) ==
    LET head == Unaligned(d, n)
        whole == (n - head) \div Word
    IN  Bytes(0, head) \o Words(head, whole)
        \o Bytes(head + whole * Word, n - head - whole * Word)
Downwards(d, n) ==
    LET tail == Least((d + n) % Word, n)
        whole == (n - tail) \div Word
        rest == n - tail - whole * Word
    IN  Reverse(Bytes(n - tail, tail)) \o Reverse(Words(rest, whole))
        \o Reverse(Bytes(0, rest))

\* Upwards, whichever of the two is above.
MutantMove(mem, d, s, n) ==
    IF s = d THEN mem
    ELSE IF s + n <= d \/ d + n <= s THEN kmemcpy(mem, d, s, n)
    ELSE Moves(mem, d, s, IF s % Word = d % Word THEN Upwards(d, n) ELSE Bytes(0, n))

kmemmove(mem, d, s, n) ==
    IF s = d THEN mem
    ELSE IF s + n <= d \/ d + n <= s THEN kmemcpy(mem, d, s, n)
    ELSE LET aligned == s % Word = d % Word
         IN  Moves(mem, d, s,
                   CASE d < s /\ aligned  -> Upwards(d, n)
                     [] d < s /\ ~aligned -> Bytes(0, n)
                     [] d > s /\ aligned  -> Downwards(d, n)
                     [] OTHER             -> Reverse(Bytes(0, n)))

kmemset(mem, dest, c, n) ==
    [a \in DOMAIN mem |-> IF a \in dest .. dest + n - 1 THEN c % Byte ELSE mem[a]]

-----------------------------------------------------------------------------
(* Searching.  An address, or -1 for none.                                 *)

\* The least i of 0 .. n that is n or passes.
FirstOf(n, Passes(_)) ==
    CHOOSE i \in 0 .. n : (i = n \/ Passes(i)) /\ \A j \in 0 .. i - 1 : ~Passes(j)

\* ((x) - ONES & ~(x) & HIGHS) of the word with these bytes, the lowest first:
\* the subtraction borrows from byte to byte.
HasZero(x) ==
    LET borrow[i \in 0 .. Word] == IF i > 0 /\ x[i] < 1 + borrow[i - 1] THEN 1 ELSE 0
    IN  \E i \in 1 .. Word :
            (x[i] - 1 - borrow[i - 1]) % Byte >= Byte \div 2 /\ x[i] < Byte \div 2

\* Bytes until s is aligned, words that hold no c, bytes.
kmemchr(mem, src, char, n) ==
    LET c == char % Byte
        i == FirstOf(Unaligned(src, n), LAMBDA j : mem[src + j] = c)
        w == IF i < n /\ mem[src + i] # c
             THEN FirstOf((n - i) \div Word, LAMBDA j :
                      HasZero([b \in 1 .. Word |-> ByteXor(mem[src + i + j * Word + b - 1], c)]))
             ELSE 0
        s == i + w * Word
        t == FirstOf(n - s, LAMBDA j : mem[src + s + j] = c)
    IN  IF s + t = n THEN -1 ELSE src + s + t

kmemcmp(mem, vl, vr, n) ==
    LET i == FirstOf(n, LAMBDA j : mem[vl + j] # mem[vr + j])
    IN  IF i = n THEN 0 ELSE mem[vl + i] - mem[vr + i]

kmemrchr(mem, m, char, n) ==
    LET c == char % Byte
        i == FirstOf(n, LAMBDA j : mem[m + n - 1 - j] = c)
    IN  IF i = n THEN -1 ELSE m + n - 1 - i

kstrlen(mem, str, n) == FirstOf(n, LAMBDA j : mem[str + j] = 0)

=============================================================================
