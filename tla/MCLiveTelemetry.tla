-------------------------- MODULE MCLiveTelemetry --------------------------
(***************************************************************************)
(* LiveTelemetry for TLC.                                                  *)
(***************************************************************************)
EXTENDS LiveTelemetry

CONSTANTS s1, closed

OneOperator == {s1}
OneCycle == {"scheduled"}
OneLabel == {closed}
=============================================================================
