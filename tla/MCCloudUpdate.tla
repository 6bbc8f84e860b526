--------------------------- MODULE MCCloudUpdate ---------------------------
(***************************************************************************)
(* CloudUpdate for TLC.  The operator, the output and the balance share    *)
(* nothing but the cycles that read them, so that each behaviour changes   *)
(* one of the three, chosen at its start; the others rest and their own    *)
(* lookups are answered.  The list of GSM devices, which the output and    *)
(* the balance share, may lose the device in either's behaviours.          *)
(***************************************************************************)
EXTENDS CloudUpdate

CONSTANTS cycle1, user1, user2, job1, job2, open, closed, low, high

OneCycle == {cycle1}

TwoUsers == {user1, user2}

TwoJobs == {job1, job2}

TwoPositions == {open, closed}

TwoBalances == {low, high}

VARIABLE changing

MCInit ==
    /\ CloudInit
    /\ changing \in {"operator", "output", "balance"}
    /\ position = closed

OperatorRests ==
    /\ UNCHANGED <<remote, admin, position>>
    /\ \A c \in Cycles : ~Fails(c) /\ ~Statuses(c, FALSE)

OutputRests ==
    /\ UNCHANGED <<output, pulses, call>>
    /\ \A c \in Cycles : ~IoFails(c) /\ ~IoAnswered(c, FALSE)

\* A balance that rests is Unknown, so that the answer without one is the answer.
BalanceRests ==
    /\ UNCHANGED <<balance, requested, tries>>
    /\ \A c \in Cycles : ~DiagFails(c)

MCNext ==
    /\ CloudNext
    /\ changing' = changing
    /\ changing # "operator" => OperatorRests
    /\ changing # "output" => OutputRests
    /\ changing # "balance" => BalanceRests
    /\ changing = "operator" => ~\E c \in Cycles : Unlisted(c)

MCSpec == MCInit /\ [][MCNext]_<<updateVars, changing>> /\ CloudFairness
=============================================================================
