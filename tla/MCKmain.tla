------------------------------- MODULE MCKmain ------------------------------
(* A count of four bits, sectors of two words, the last seconds before     *)
(* noon and before a new year.                                             *)
EXTENDS Kmain

MCStarts == { <<59, 59, 11, 31, 12, 2017>>, <<58, 59, 23, 31, 12, 2099>> }
MCDelays == {2, 7, 9}
=============================================================================
