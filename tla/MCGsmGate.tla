---------------------------- MODULE MCGsmGate ----------------------------
(***************************************************************************)
(* GsmGate for TLC.                                                        *)
(***************************************************************************)
EXTENDS GsmGate

CONSTANTS p1

OnePress  == {p1}
TwoCycles == {"scheduled", "debounced"}
=============================================================================
