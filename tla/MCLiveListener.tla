-------------------------- MODULE MCLiveListener --------------------------
(***************************************************************************)
(* LiveListener for TLC: two operators, delays of 1, 2 and 3 time   *)
(* units (3 is not a power of two times the minimum, so the cap is         *)
(* exercised) and an attempt that counts as healthy after 2.               *)
(***************************************************************************)
EXTENDS LiveListener

CONSTANTS s1, s2

TwoOperators == {s1, s2}
=============================================================================
