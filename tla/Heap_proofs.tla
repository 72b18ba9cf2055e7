----------------------------- MODULE Heap_proofs -----------------------------
(***************************************************************************)
(* For every heap size and every set of requested sizes that do not wrap,  *)
(* the blocks of kmalloc_b lie in the heap, never overlap and leave no     *)
(* gap, and blocks_used marks no free byte.                                *)
(***************************************************************************)
EXTENDS Heap, TLAPS

\* free_ptr stays in the heap, and every block lies below it.
RangeInv ==
    /\ heap_ptr <= free_ptr /\ free_ptr <= heap_ptr + MaxBlocks
    /\ \A b \in blocks : b.start >= heap_ptr /\ b.start + b.size <= free_ptr

IInv ==
    /\ TypeOK
    /\ RangeInv
    /\ Disjoint
    /\ NothingWasted
    /\ NoFreeByteMarked

\* The sum that kmalloc_b computes in u32 does not wrap.
LEMMA NoWrap ==
    ASSUME TypeOK, RangeInv, NEW n \in Sizes
    PROVE  /\ n \in Nat /\ offset \in 0 .. MaxBlocks
           /\ (offset + n) % U32 = offset + n
  <1>1. n \in Nat /\ n <= U32 - 1 - MaxBlocks
    BY SizesAssumption, U32Assumption, MaxBlocksAssumption
  <1>2. offset \in Nat /\ offset <= MaxBlocks
    BY MaxBlocksAssumption DEF TypeOK, RangeInv, offset, heap_ptr
  <1>3. offset + n \in 0 .. U32 - 1
    BY <1>1, <1>2, U32Assumption, MaxBlocksAssumption
  <1>4. \A x \in 0 .. U32 - 1 : x % U32 = x
    BY U32Assumption
  <1> QED BY <1>1, <1>2, <1>3, <1>4, MaxBlocksAssumption

LEMMA InitIInv == Init => IInv
  <1> SUFFICES ASSUME Init PROVE IInv
    OBVIOUS
  <1> USE MaxBlocksAssumption, ByteAssumption DEF Init, heap_ptr
  <1>1. TypeOK
    BY DEF TypeOK
  <1>2. RangeInv /\ Disjoint
    BY DEF RangeInv, Disjoint
  <1>3. NothingWasted
    BY DEF NothingWasted
  <1>4. NoFreeByteMarked
    BY DEF NoFreeByteMarked, Used, Entries
  <1> QED BY <1>1, <1>2, <1>3, <1>4 DEF IInv

\* A refusal changes nothing but the record of it.
LEMMA RefuseIInv ==
    ASSUME IInv, NEW n \in Sizes, Refuse(n)
    PROVE  IInv'
  <1>1. n \in Nat /\ offset \in 0 .. MaxBlocks /\ (offset + n) % U32 = offset + n
    BY NoWrap DEF IInv
  <1>2. /\ refused' = [size |-> n, offset |-> offset]
        /\ offset + n > MaxBlocks
        /\ UNCHANGED <<free_ptr, blocks_used, blocks>>
    BY <1>1 DEF Refuse
  <1>3. TypeOK'
    BY <1>1, <1>2, MaxBlocksAssumption DEF IInv, TypeOK
  <1>4. NothingWasted'
    BY <1>1, <1>2 DEF IInv, NothingWasted, Bytes
  <1>5. RangeInv' /\ Disjoint' /\ NoFreeByteMarked'
    BY <1>2 DEF IInv, RangeInv, Disjoint, NoFreeByteMarked, Used, InBlock, Bytes
  <1> QED BY <1>3, <1>4, <1>5 DEF IInv

\* A new block begins where all the others have ended.
LEMMA AllocateIInv ==
    ASSUME IInv, NEW n \in Sizes, Allocate(n)
    PROVE  IInv'
  <1> DEFINE new == [start |-> free_ptr, size |-> n]
  <1> USE MaxBlocksAssumption, ByteAssumption
  <1>1. n \in Nat /\ offset \in 0 .. MaxBlocks /\ (offset + n) % U32 = offset + n
    BY NoWrap DEF IInv
  <1>2. /\ offset + n <= MaxBlocks
        /\ blocks_used' = Mark(offset, n)
        /\ blocks' = blocks \cup {new}
        /\ free_ptr' = free_ptr + n
        /\ refused' = refused
    BY <1>1 DEF Allocate
  <1>3. free_ptr \in Nat /\ free_ptr = offset + heap_ptr /\ heap_ptr = 1
    BY DEF IInv, TypeOK, offset, heap_ptr
  <1>4. new \in Blocks
    BY <1>3 DEF Blocks
  <1>5. \A b \in blocks : /\ b.start \in Nat /\ b.size \in Nat
                          /\ b.start >= heap_ptr /\ b.start + b.size <= free_ptr
    <2>1. \A s \in Sizes : s \in Nat
      BY SizesAssumption, U32Assumption
    <2>2. \A b \in blocks : b.start \in Nat /\ b.size \in Sizes
      BY DEF IInv, TypeOK, Blocks
    <2> QED BY <2>1, <2>2 DEF IInv, RangeInv
  <1>6. TypeOK'
    <2>1. n % Byte \in 0 .. Byte - 1
      BY <1>1
    <2>2. blocks_used' \in [0 .. 4 * MaxBlocks - 1 -> 0 .. Byte - 1]
      BY <1>2, <2>1 DEF Mark, IInv, TypeOK
    <2> QED BY <1>1, <1>2, <1>3, <1>4, <2>2 DEF IInv, TypeOK
  <1>7. RangeInv'
    BY <1>1, <1>2, <1>3, <1>5 DEF RangeInv, heap_ptr
  <1>8. Disjoint'
    <2>1. \A b \in blocks : Bytes(b) \cap Bytes(new) = {}
      BY <1>1, <1>3, <1>5 DEF Bytes
    <2> QED BY <1>2, <2>1 DEF IInv, Disjoint, Bytes
  <1>9. NothingWasted'
    <2>1. ASSUME NEW a \in heap_ptr .. free_ptr' - 1
          PROVE  \E b \in blocks' : a \in Bytes(b)
      <3>1. CASE a < free_ptr
        <4>1. a \in heap_ptr .. free_ptr - 1
          BY <1>3, <3>1
        <4> QED BY <1>2, <4>1 DEF IInv, NothingWasted
      <3>2. CASE a >= free_ptr
        <4>1. a \in Bytes(new)
          BY <1>1, <1>2, <1>3, <3>2 DEF Bytes
        <4> QED BY <1>2, <4>1
      <3> QED BY <1>1, <1>2, <1>3, <3>1, <3>2
    <2>2. refused'.offset + refused'.size > MaxBlocks
      BY <1>2 DEF IInv, NothingWasted
    <2> QED BY <2>1, <2>2 DEF NothingWasted
  <1>10. NoFreeByteMarked'
    <2> SUFFICES ASSUME NEW i \in Entries, Used(i)' PROVE InBlock(i)'
      BY DEF NoFreeByteMarked
    <2>1. PICK b \in 4 * i .. 4 * i + 3 : blocks_used'[b] # 0
      BY DEF Used
    <2>2. i \in Nat /\ i < MaxBlocks /\ b \in 0 .. 4 * MaxBlocks - 1
      BY DEF Entries
    <2>3. blocks_used'[b] = IF 4 * offset <= b /\ b < 4 * offset + n
                            THEN n % Byte ELSE blocks_used[b]
      BY <1>2, <2>2 DEF Mark, IInv, TypeOK
    <2>4. CASE 4 * offset <= b /\ b < 4 * offset + n
      <3>1. offset <= i /\ i < offset + n
        BY <1>1, <2>1, <2>2, <2>4
      <3>2. heap_ptr + i \in Bytes(new)
        BY <1>1, <1>3, <2>2, <3>1 DEF Bytes
      <3> QED BY <1>2, <3>2 DEF InBlock, Bytes, heap_ptr
    <2>5. CASE ~(4 * offset <= b /\ b < 4 * offset + n)
      <3>1. Used(i)
        BY <2>1, <2>3, <2>5 DEF Used
      <3>2. InBlock(i)
        BY <3>1 DEF IInv, NoFreeByteMarked
      <3> QED BY <1>2, <3>2 DEF InBlock, Bytes
    <2> QED BY <2>4, <2>5
  <1> QED BY <1>6, <1>7, <1>8, <1>9, <1>10 DEF IInv

THEOREM Invariant == Spec => []IInv
  <1>1. IInv /\ [Next]_vars => IInv'
    <2> SUFFICES ASSUME IInv, [Next]_vars PROVE IInv'
      OBVIOUS
    <2>1. CASE Next
      BY <2>1, RefuseIInv, AllocateIInv DEF Next, kmalloc_b
    <2>2. CASE UNCHANGED vars
      BY <2>2 DEF vars, IInv, TypeOK, RangeInv, Disjoint, NothingWasted,
                  NoFreeByteMarked, Used, InBlock, Bytes
    <2> QED BY <2>1, <2>2
  <1> QED BY <1>1, InitIInv, PTL DEF Spec

\* The heap's variables keep their types; marks stay within blocks_used.
THEOREM TypeCorrect == Spec => []TypeOK
  <1>1. IInv => TypeOK
    BY DEF IInv
  <1> QED BY <1>1, Invariant, PTL

\* No byte is handed out twice.
THEOREM BlocksDisjoint == Spec => []Disjoint
  <1>1. IInv => Disjoint
    BY DEF IInv
  <1> QED BY <1>1, Invariant, PTL

\* No byte is handed out that is not of the MaxBlocks bytes from heap_ptr on.
THEOREM BlocksInHeap == Spec => []InHeap
  <1>1. IInv => InHeap
    BY DEF IInv, RangeInv, InHeap
  <1> QED BY <1>1, Invariant, PTL

\* The blocks fill the heap without gaps; a refused size did not fit.
THEOREM NoGaps == Spec => []NothingWasted
  <1>1. IInv => NothingWasted
    BY DEF IInv
  <1> QED BY <1>1, Invariant, PTL

\* A mark in blocks_used is never on a free byte.
THEOREM MarksAreUsed == Spec => []NoFreeByteMarked
  <1>1. IInv => NoFreeByteMarked
    BY DEF IInv
  <1> QED BY <1>1, Invariant, PTL
=============================================================================
