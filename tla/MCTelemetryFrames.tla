------------------------- MODULE MCTelemetryFrames -------------------------
(***************************************************************************)
(* TelemetryFrames for TLC: lengths and codes on both sides of every       *)
(* boundary of the tables.                                                 *)
(***************************************************************************)
EXTENDS TelemetryFrames

BoundaryLengths == {23, 24, 28, 35, 36, 37, 38, 40, 52, 64}
BoundaryCodes == {NoCode, 0, 24, 25, 27, 28, 32, 34, 39, 40, 41, 43, 44}
=============================================================================
