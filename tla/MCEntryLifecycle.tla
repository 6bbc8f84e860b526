-------------------------- MODULE MCEntryLifecycle --------------------------
(***************************************************************************)
(* EntryLifecycle for TLC.                                                 *)
(***************************************************************************)
EXTENDS EntryLifecycle

CONSTANTS s1, s2, g1, g2, g3

TwoSerials == {s1, s2}

ThreeCoordinators == {g1, g2, g3}
=============================================================================
