--------------------------- MODULE MCGateControl ---------------------------
(***************************************************************************)
(* GateControl for TLC.                                                    *)
(***************************************************************************)
EXTENDS GateControl

CONSTANTS c1, c2

OneCall  == {c1}
TwoCalls == {c1, c2}

Message(length, code) == [length |-> length, code |-> code]

\* A slider and a swing that tag some messages, a gate with a code that is not
\* in the tables and one that never reports any.
GateModels ==
    {{Message(36, 41), Message(36, NoCode)}, {Message(38, 25), Message(40, 25)},
     {Message(36, 51)}, {Message(52, NoCode)}}

\* Garages that tag every message, gate-sized ones too.
TaggedGarages ==
    {{Message(24, 39), Message(36, 39)}, {Message(28, 51), Message(36, 51)}}

\* A garage that leaves the code out of a gate-sized message.
UntaggedGarage == {{Message(24, 39), Message(36, 39), Message(36, NoCode)}}

\* What the proofs assume of the messages is true of these models.
ASSUME TruthfulAssumption == Garages = TaggedGarages => FramesTruthful
ASSUME AgreeAssumption == CodesAgree
=============================================================================
