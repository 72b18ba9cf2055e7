------------------------------ MODULE MCMouse -------------------------------
(* Movements whose deltas are positive and negative, with and without bit  *)
(* 3 set in their bytes, too large, and with the wheel turning either way. *)
EXTENDS Mouse

Move(dx, dy, wheel, buttons) ==
    [dx |-> dx, dy |-> dy, wheel |-> wheel, buttons |-> buttons,
     overflow |-> FALSE]

MCMoves ==
    { Move(0, 0, 0, {"left"}), Move(1, 2, 1, {}), Move(8, 0, -1, {"right"}),
      Move(-16, -3, 0, {"middle"}), Move(-8, 2, 1, {}),
      [Move(255, 1, 0, {}) EXCEPT !.overflow = TRUE] }

\* Three bytes and the default mode; four bytes with and without ps2_install
\* having found out.
MCModes == {<<3, 0>>, <<4, 1>>, <<4, 0>>}
=============================================================================
