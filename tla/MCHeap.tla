------------------------------- MODULE MCHeap -------------------------------
(***************************************************************************)
(* Heap with eight bytes, so that blocks of several sizes fill it, leave  *)
(* a rest or do not fit.  A byte takes five values, so that the mark of a  *)
(* block of five bytes is 0, as it is for 256 bytes in mm.c.               *)
(***************************************************************************)
EXTENDS Heap

MCSizes == {0, 1, 2, 5, 9}
=============================================================================
