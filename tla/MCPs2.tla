------------------------------- MODULE MCPs2 --------------------------------
(* Every kind of mouse on one or two ports; the code of the key 2 is the   *)
(* identity 3.                                                             *)
EXTENDS Ps2

MCKeys == {3}
=============================================================================
