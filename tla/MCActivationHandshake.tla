----------------------- MODULE MCActivationHandshake -----------------------
(***************************************************************************)
(* ActivationHandshake for TLC.                                            *)
(***************************************************************************)
EXTENDS ActivationHandshake

ThreeVersions == {0, 1, 2}

\* An operator accepts one version, or several with or without version 0.
StrictAndLenient == {{0}, {1}, {0, 1}, {1, 2}}

\* A reply that is no cmd 04 may be decoded to anything, or to nothing special.
AnyCode == Codes
=============================================================================
