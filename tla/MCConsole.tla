------------------------------ MODULE MCConsole -----------------------------
(* A screen of four columns and two rows; the address takes two digits of  *)
(* base four, so that the bytes of different rows differ.  The column of a *)
(* cursor below zero is far from the screen.                               *)
EXTENDS Console
=============================================================================
