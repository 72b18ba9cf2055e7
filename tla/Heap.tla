-------------------------------- MODULE Heap --------------------------------
(***************************************************************************)
(* The kernel heap of mm.c: kmalloc_b hands out bytes from heap_ptr        *)
(* upwards and never takes one back; blocks_used, an array of u32, is to   *)
(* say which of the byte-sized blocks are in use.  Addresses are counted   *)
(* from sys_heap_bottom; u32 arithmetic wraps at U32.                      *)
(***************************************************************************)
EXTENDS Naturals, FiniteSets

CONSTANTS
    MaxBlocks,  \* MAX_BLOCKS: 2048
    U32,        \* 2^32
    Byte,       \* 256: the values of a byte
    Sizes       \* the sizes callers ask for

ASSUME MaxBlocksAssumption == MaxBlocks \in Nat
ASSUME U32Assumption == U32 \in Nat /\ MaxBlocks < U32
ASSUME ByteAssumption == Byte \in Nat \ {0}
\* No caller asks for a size so large that offset + nblks wraps.
ASSUME SizesAssumption == Sizes \subseteq 0 .. U32 - 1 - MaxBlocks

VARIABLES
    free_ptr,       \* the next byte to hand out
    blocks_used,    \* the array, byte by byte: entry i is the bytes 4i .. 4i+3
    blocks,         \* history: the blocks handed out, as records
    refused         \* history: the size and the offset of the last NULL

vars == <<free_ptr, blocks_used, blocks, refused>>

heap_ptr == 1               \* init_mm: sys_heap_bottom + 1
offset   == free_ptr - heap_ptr
Entries  == 0 .. MaxBlocks - 1

\* Mutant: the marks begin one entry too far.
MarkNext(o, nblks) ==
    [b \in DOMAIN blocks_used |->
        IF 4 * (o + 1) <= b /\ b < 4 * (o + 1) + nblks
        THEN nblks % Byte ELSE blocks_used[b]]

\* kmemset(blocks_used + o, nblks, nblks): nblks bytes of the value nblks.
Mark(o, nblks) ==
    [b \in DOMAIN blocks_used |->
        IF 4 * o <= b /\ b < 4 * o + nblks THEN nblks % Byte ELSE blocks_used[b]]

\* init_mm before its two test allocations.
Init ==
    /\ free_ptr = heap_ptr
    /\ blocks_used = [b \in 0 .. 4 * MaxBlocks - 1 |-> 0]
    /\ blocks = {}
    /\ refused = [size |-> 0, offset |-> MaxBlocks + 1]

Refuse(nblks) ==
    /\ (offset + nblks) % U32 > MaxBlocks
    /\ refused' = [size |-> nblks, offset |-> offset]
    /\ UNCHANGED <<free_ptr, blocks_used, blocks>>

\* Mutant: the next block overlaps this one by a byte.
AllocateShort(nblks) ==
    /\ (offset + nblks) % U32 <= MaxBlocks
    /\ blocks_used' = Mark(offset, nblks)
    /\ blocks' = blocks \cup {[start |-> free_ptr, size |-> nblks]}
    /\ free_ptr' = IF nblks > 1 THEN free_ptr + nblks - 1 ELSE free_ptr + nblks
    /\ UNCHANGED refused

\* Mutant: a byte is skipped behind every block.
AllocateGap(nblks) ==
    /\ (offset + nblks) % U32 <= MaxBlocks
    /\ blocks_used' = Mark(offset, nblks)
    /\ blocks' = blocks \cup {[start |-> free_ptr, size |-> nblks]}
    /\ free_ptr' = free_ptr + nblks + 1
    /\ UNCHANGED refused

\* Mutant: the check forgets the size of the request.
AllocateUnchecked(nblks) ==
    /\ offset < MaxBlocks
    /\ blocks_used' = Mark(offset, nblks)
    /\ blocks' = blocks \cup {[start |-> free_ptr, size |-> nblks]}
    /\ free_ptr' = free_ptr + nblks
    /\ UNCHANGED refused

\* The debug build fills the block with 0xee; it writes no other byte.
Allocate(nblks) ==
    /\ (offset + nblks) % U32 <= MaxBlocks
    /\ blocks_used' = Mark(offset, nblks)
    /\ blocks' = blocks \cup {[start |-> free_ptr, size |-> nblks]}
    /\ free_ptr' = free_ptr + nblks
    /\ UNCHANGED refused

kmalloc_b(nblks) == Refuse(nblks) \/ Allocate(nblks)

Next == \E nblks \in Sizes : kmalloc_b(nblks)

Spec == Init /\ [][Next]_vars

-----------------------------------------------------------------------------
(* Properties.                                                             *)

Blocks == [start : Nat, size : Sizes]

TypeOK ==
    /\ free_ptr \in Nat
    /\ blocks_used \in [0 .. 4 * MaxBlocks - 1 -> 0 .. Byte - 1]
    /\ blocks \subseteq Blocks
    /\ refused \in [size : Nat, offset : 0 .. MaxBlocks + 1]

Bytes(b) == b.start .. b.start + b.size - 1

\* Two blocks handed out never share a byte.
Disjoint == \A a, b \in blocks : a # b => Bytes(a) \cap Bytes(b) = {}

\* Every block lies in the MaxBlocks bytes from heap_ptr on, below free_ptr.
InHeap ==
    \A b \in blocks : b.start >= heap_ptr /\ b.start + b.size <= free_ptr
                      /\ free_ptr <= heap_ptr + MaxBlocks

\* No byte is lost: the blocks fill the heap up to free_ptr without a gap, and
\* a request was refused only when it did not fit in what was left.
NothingWasted ==
    /\ \A a \in heap_ptr .. free_ptr - 1 : \E b \in blocks : a \in Bytes(b)
    /\ refused.offset + refused.size > MaxBlocks

Used(i) == \E b \in 4 * i .. 4 * i + 3 : blocks_used[b] # 0
InBlock(i) == \E b \in blocks : heap_ptr + i \in Bytes(b)

\* blocks_used marks no byte of the heap that is free.
NoFreeByteMarked == \A i \in Entries : Used(i) => InBlock(i)

\* mm.c: "current kernel blocks are byte-sized", "mark used": every byte handed
\* out is marked in blocks_used.
UsedBytesMarked == \A i \in Entries : InBlock(i) => Used(i)
=============================================================================
