------------------------------- MODULE Format -------------------------------
(***************************************************************************)
(* The conversions of scrn.c's kwritef, as functions from a value to the   *)
(* characters passed to the writer: a digit is its value, any other        *)
(* character its code.  Values are unsigned as in the code: a negative int *)
(* is U32 less its magnitude.  A real is a fraction of ExactPlaces binary  *)
(* places at most.  A buffer that is filled from its end is a sequence     *)
(* that grows at its front.                                                *)
(***************************************************************************)
EXTENDS Integers, Sequences

CONSTANTS
    HexDigits,      \* 8: of a u32
    U32, U64        \* 2^32 and 2^64

Minus == 45
Point == 46
Colon == 58
Space == 32

Power(b, n) == LET p[i \in 0 .. n] == IF i = 0 THEN 1 ELSE b * p[i - 1] IN p[n]

ASSUME WidthAssumption ==
    HexDigits \in Nat \ {0, 1} /\ U32 = Power(16, HexDigits) /\ U64 = U32 * U32

-----------------------------------------------------------------------------
(* 64-bit division by doubling and halving the divisor.                    *)

Division == [A : Nat, B : Nat \ {0}, X : Nat, per : Nat, quotient : Nat]

Begun(dividend, divisor) ==
    [A |-> dividend, B |-> divisor, X |-> divisor, per |-> 1, quotient |-> 0]

\* while (X < A/2)
Doubling(s) ==
    [A |-> s.A, B |-> s.B, X |-> 2 * s.X, per |-> 2 * s.per, quotient |-> s.quotient]
Doubled[s \in Division] == IF s.X < s.A \div 2 THEN Doubled[Doubling(s)] ELSE s

\* while (A >= B), which never ends once X is 0.
Halving(s) ==
    LET fits == s.A >= s.X
    IN  [A |-> IF fits THEN s.A - s.X ELSE s.A, B |-> s.B, X |-> s.X \div 2,
         per |-> s.per \div 2, quotient |-> IF fits THEN s.quotient + s.per ELSE s.quotient]
Subtracted[s \in Division] ==
    IF s.A < s.B \/ s.X = 0
    THEN [quotient |-> s.quotient, remainder |-> s.A, ends |-> s.A < s.B]
    ELSE Subtracted[Halving(s)]

\* The divisor is doubled once more.
MutantDivide(dividend, divisor) == Subtracted[Doubling(Doubled[Begun(dividend, divisor)])]

div64_slow(dividend, divisor) == Subtracted[Doubled[Begun(dividend, divisor)]]

modulo(A, B) == div64_slow(A, B).remainder

-----------------------------------------------------------------------------
(* Integers.  Of what is left of the number and what is in the buffer.     *)

Digits[s \in Nat \X Seq(Nat)] ==
    IF s[1] = 0 THEN s[2] ELSE Digits[<<s[1] \div 10, <<s[1] % 10>> \o s[2]>>]
writeUInt(num) == IF num = 0 THEN <<0>> ELSE Digits[<<num, <<>>>>]

\* The cast of the negated int to u32, which is right for the least int too.
writeInt(num) ==
    IF num >= U32 \div 2 THEN <<Minus>> \o writeUInt((U32 - num) % U32) ELSE writeUInt(num)

LongDigits[s \in Nat \X Seq(Nat)] ==
    IF s[1] = 0 THEN s[2]
    ELSE LET qr == div64_slow(s[1], 10)
         IN  LongDigits[<<qr.quotient, <<qr.remainder>> \o s[2]>>]
writeUInt64(num) == IF num = 0 THEN <<0>> ELSE LongDigits[<<num, <<>>>>]
writeInt64(num) ==
    IF num >= U64 \div 2 THEN <<Minus>> \o writeUInt64((U64 - num) % U64) ELSE writeUInt64(num)

\* The digits of num in a base that is a power of two, by shifts and masks.
Places(num, base, n) == [j \in 1 .. n |-> (num \div Power(base, n - j)) % base]
writeHex_bytes(num, nibbles) == <<0, 120>> \o Places(num, 16, nibbles)
writeBinary_b(num, bits) == Places(num, 2, bits)
writeBinary(num, bits) == <<0, 98>> \o writeBinary_b(num, bits)

-----------------------------------------------------------------------------
(* Reals.  real is [neg, n, d], n / d with its sign; neg and n = 0 is -0.0, *)
(* and mantissa and exponent are the fields of its bits.                   *)

\* Up to here the loop's arithmetic on doubles is exact: a fraction f / 2^50 has
\* 5 * f < 2^53, so that ten times it and what is left of that are doubles too,
\* and no multiple of 2^-50 lies between 0.0000001 and the double next to it.
ExactPlaces == 50

MaxFractionalDigits == 10
Tolerance == Power(10, 7)

\* One digit of the fraction f / d, of at most left.
NextDigit(s) ==
    [f |-> (10 * s.f) % s.d, d |-> s.d, left |-> s.left - 1,
     out |-> s.out \o writeInt((10 * s.f) \div s.d)]
Fractional == [f : Nat, d : Nat \ {0}, left : Nat, out : Seq(Nat)]
Fraction[s \in Fractional] ==
    IF s.left = 0 \/ (s.out # <<>> /\ s.f * Tolerance <= s.d) THEN s.out
    ELSE Fraction[NextDigit(s)]

writeReal_component(real) ==
    (IF real.neg /\ real.n > 0 THEN <<Minus>> ELSE <<>>) \o writeInt64(real.n \div real.d) \o <<Point>>
        \o Fraction[[f |-> real.n % real.d, d |-> real.d, left |-> MaxFractionalDigits,
                     out |-> <<>>]]

\* bit_mask(52) is a mask of 32 bits.
writeRealDebug(mantissa, exponent) ==
    (<<1, Point>> \o writeUInt64(mantissa % U32)) \o (<<42, 2, 94>> \o writeInt(exponent))

writeReal(real) ==
    IF ~real.neg /\ real.n > (U32 \div 2 - 1) * real.d
    THEN writeRealDebug(real.mantissa, real.exponent)
    ELSE writeReal_component(real)

-----------------------------------------------------------------------------
(* kwritef.  An item of the format is a character or a conversion.         *)

Converted(item) ==
    CASE item.conv = "char" -> <<item.arg>>
      [] item.conv = "d"    -> writeInt(item.arg)
      [] item.conv = "u"    -> writeUInt(item.arg)
      [] item.conv = "q"    -> writeUInt64(item.arg)
      [] item.conv = "f"    -> writeReal(item.arg)
      [] item.conv = "x"    -> writeHex_bytes(item.arg, HexDigits)
      [] item.conv = "b"    -> writeBinary(item.arg, 4 * HexDigits)
      [] item.conv = "s"    -> item.arg

Spaces(n) == [i \in 1 .. n |-> Space]

\* The writer, serial_write_b, counts what it gets in cursor, and kwritef counts
\* the format's own characters once more.
Written(s, item) ==
    IF item.conv = "pad"
    THEN LET n == IF item.arg > s.cursor THEN item.arg - s.cursor ELSE 0
         IN  [out |-> s.out \o Spaces(n), cursor |-> s.cursor + n]
    ELSE LET chars == Converted(item)
         IN  [out |-> s.out \o chars,
              cursor |-> s.cursor + Len(chars) + IF item.conv = "char" THEN 1 ELSE 0]

kwritef(format) ==
    LET s[i \in 0 .. Len(format)] ==
            IF i = 0 THEN [out |-> <<>>, cursor |-> 0] ELSE Written(s[i - 1], format[i])
    IN  s[Len(format)].out

\* trace's format: the file, the line, and padding to 30 before the message.
Item(conv, arg) == [conv |-> conv, arg |-> arg]
trace(file, line, message) ==
    kwritef(<<Item("s", file), Item("char", Colon), Item("char", Colon), Item("d", line),
              Item("char", Colon), Item("char", Space), Item("pad", 30)>>
            \o [i \in 1 .. Len(message) |-> Item("char", message[i])])

-----------------------------------------------------------------------------
(* What the conversions are meant to be.                                   *)

\* start, with the digits read behind it.
Read(start, digits, base) ==
    LET v[i \in 0 .. Len(digits)] == IF i = 0 THEN start ELSE v[i - 1] * base + digits[i]
    IN  v[Len(digits)]
Value(digits, base) == Read(0, digits, base)

\* The digits of num in base ten, without a leading zero.
Decimal(digits, num) ==
    Value(digits, 10) = num /\ \A i \in 1 .. Len(digits) : digits[i] \in 0 .. 9
        /\ (Len(digits) > 1 => digits[1] # 0)

OddPart[q \in Nat] == IF q = 0 \/ q % 2 = 1 THEN q ELSE OddPart[q \div 2]
PowerOfTwo(q) == OddPart[q] = 1

\* Where the loop that doubles the divisor stops one doubling short: half the
\* dividend, rounded down, is the divisor times a power of two.
Short(A, B) == (A \div 2) % B = 0 /\ PowerOfTwo((A \div 2) \div B)

DivisionExact(qr, A, B) ==
    qr.ends /\ qr.quotient = A \div B /\ qr.remainder = A % B <=> ~Short(A, B)

\* The quotients on the way to the last digit must be right too: the first that
\* is not, or 0.
WrongAt[num \in Nat] == IF num = 0 \/ Short(num, 10) THEN num ELSE WrongAt[num \div 10]
LongExact(num) == WrongAt[num] = 0

Signed(num, width) == IF num >= width \div 2 THEN num - width ELSE num
Magnitude(n) == IF n < 0 THEN -n ELSE n

IntExact(chars, num, width) ==
    LET n == Signed(num, width)
        digits == IF n < 0 THEN Tail(chars) ELSE chars
    IN  (n < 0 <=> chars[1] = Minus) /\ Decimal(digits, Magnitude(n))

\* The fraction's digits, read back, are the fraction, to seven places.
FractionExact(digits, f, d) ==
    LET scale == Power(10, Len(digits))
        value == Value(digits, 10) * d
    IN  /\ Len(digits) \in 1 .. MaxFractionalDigits
        /\ value <= f * scale
        /\ (f * scale - value) * Tolerance <= d * scale

=============================================================================
