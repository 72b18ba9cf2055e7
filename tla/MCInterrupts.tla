---------------------------- MODULE MCInterrupts ----------------------------
(***************************************************************************)
(* Interrupts with the three lines the kernel handles (timer, keyboard,    *)
(* mouse) and line 7 of the first controller, which nobody handles.        *)
(***************************************************************************)
EXTENDS Interrupts

MCLines      == {0, 1, 7, 12}
MCNoisyLines == {7, 12}
\* Nothing masked; the mouse masked; the second controller masked.
MCMasks      == {{}, {12}, {2}}
=============================================================================
