-------------------------- MODULE MCSharedTrigger --------------------------
(***************************************************************************)
(* SharedTrigger for TLC.  Update cycles that overlap and triggers beyond  *)
(* the first are of different behaviours, chosen at their start.           *)
(***************************************************************************)
EXTENDS SharedTrigger

CONSTANTS gate, io1, p1, p2

OneAction  == {gate}
OneIo      == {io1}
TwoPresses == {p1, p2}
TwoCycles  == {"scheduled", "debounced"}

VARIABLE overlap

MCInit == Init /\ overlap \in BOOLEAN

MCNext ==
    /\ Next
    /\ overlap' = overlap
    /\ ~overlap => cycle'["debounced"] = Quiet
    /\ overlap => triggered' < 2

MCSpec == MCInit /\ [][MCNext]_<<vars, overlap>> /\ Fairness
=============================================================================
