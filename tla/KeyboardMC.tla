---------------------------- MODULE KeyboardMC ----------------------------
(***************************************************************************)
(* Model values for Keyboard: the keys A and L (press, and A's release),  *)
(* backspace, enter, and the modifiers shift, ctrl, alt (press and        *)
(* release) and caps lock.  Callers pass sizes -1 (clamped to 128, like  *)
(* any size over 128), 0 and 2; the user types up to three keys per read. *)
(***************************************************************************)
EXTENDS Keyboard

MC_Scancodes ==
    {\h1E, \h1E + PR_CONVER, KEY_L, BACKSPACE, KEY_ENTER,
     SHIFT_LEFT, SHIFT_LEFT + PR_CONVER, CTRL, CTRL + PR_CONVER,
     ALT, ALT + PR_CONVER, CAPS}
MC_NBytes == {-1, 0, 2}
MC_MaxKeys == 3
\* Sizes for the overrun run: an empty buffer (max = 0) and a full line of
\* two characters (max = 2); both put the NUL at buf[max].
MC_OverrunNBytes == {0, 2}
=============================================================================
