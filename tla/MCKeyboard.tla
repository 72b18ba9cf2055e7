----------------------------- MODULE MCKeyboard -----------------------------
(***************************************************************************)
(* Keyboard with a buffer of three entries: the indices wrap at four, and  *)
(* the fourth slot lies behind the array.  Two make codes tell the order   *)
(* of the keys, and F2 is a third; all are below the wrap, as every make   *)
(* code of a keyboard (1 .. 127) is below 256.                             *)
(***************************************************************************)
EXTENDS Keyboard

MCKeys == {1, 2, 3}
=============================================================================
