------------------------------ MODULE MCLibrary -----------------------------
(* Words of two digits and double words of four, a memory of four words.   *)
EXTENDS Library, Bitwise

MCDividends == 0 .. 200
MCDivisors == 1 .. 12
MCLongs == (0 .. 1000) \cup (32760 .. 32780) \cup (65000 .. 65535)
MCPlaces == {0, 1, 3, 6}
MCReach == 0 .. 10
MCXor(a, b) == a ^^ b
=============================================================================
