------------------------------ MODULE GsmGate ------------------------------
(***************************************************************************)
(* The cover of a legacy GSM/ULTRA gate (cover.py).  The gateway relays a  *)
(* trigger to the operator and reports the states of its inputs on request *)
(* (client.py, models.py); the update cycle asks for them (coordinator.py) *)
(* and, after a trigger, a follower asks much more often for a while.      *)
(* One operator with a feedback input, listed from the start.  Time is     *)
(* discrete; the follower's pauses take any time, none included.           *)
(***************************************************************************)
EXTENDS Naturals

CONSTANTS
    Presses,       \* service calls that may be in progress together
    Cycles,        \* update cycles that may overlap, "scheduled" among them
    Unknown,       \* no gate position
    FollowTime,    \* LIVE_FOLLOW_SECONDS
    TTL,           \* LIVE_STATUS_TTL
    MaxFollowers   \* bound: jobs of _start_live_poll that run together

ASSUME GsmAssumption ==
    /\ "scheduled" \in Cycles
    /\ {FollowTime, TTL, MaxFollowers} \subseteq Nat \ {0}
    /\ Unknown \notin {"open", "closing", "closed"}

Followers == 1..MaxFollowers

Positions == {"closed", "opening", "open", "closing"}
Labels    == {"open", "closing", "closed"}
Reports   == Labels \cup {Unknown}

VARIABLES
    position,   \* external: where the gate is
    online,     \* external: the gateway reaches the operator
    status,     \* coordinator._gsm_status: the gate_state of the last report
    data,       \* coordinator.data: the status it shows
    cycle,      \* the update cycles in progress
    press,      \* the service calls in progress
    polling,    \* _polling
    follower,   \* the followers and the time to their deadline
    live        \* coordinator._live_status, with the time left of its TTL

cycleVars  == <<status, data, cycle>>
followVars == <<polling, follower, live>>
vars == <<position, online, cycleVars, press, followVars>>

NoLabel == [left |-> 0, label |-> Unknown]
Absent  == [at |-> "none", left |-> 0, answer |-> Unknown]
Quiet   == [at |-> "idle", answer |-> Unknown]

TypeOK ==
    /\ position \in Positions
    /\ online \in BOOLEAN
    /\ {status, data} \subseteq Reports
    /\ cycle \in [Cycles -> [at : {"idle", "asked", "answered", "rest"}, answer : Reports]]
    /\ press \in [Presses -> {"idle", "sending"}]
    /\ polling \in BOOLEAN
    /\ follower \in [Followers -> [at : {"none", "paused", "asked", "answered"},
                                   left : 0..FollowTime, answer : Reports]]
    /\ live \in [left : 0..TTL, label : Reports]
    /\ live.left > 0 => live.label # Unknown

Init ==
    /\ position \in Positions
    /\ online \in BOOLEAN
    /\ status = Unknown
    /\ data = Unknown
    /\ cycle = [c \in Cycles |-> Quiet]
    /\ press = [p \in Presses |-> "idle"]
    /\ polling = FALSE
    /\ follower = [f \in Followers |-> Absent]
    /\ live = NoLabel

-----------------------------------------------------------------------------
(***************************************************************************)
(* The gate and the gateway.                                               *)
(***************************************************************************)
\* A trigger, whoever sends it, moves the gate on or turns it round.
Moves ==
    /\ position' \in CASE position = "closed"  -> {"opening"}
                       [] position = "opening" -> {"open", "closing"}
                       [] position = "open"    -> {"closing"}
                       [] position = "closing" -> {"closed", "opening"}
    /\ UNCHANGED <<online, cycleVars, press, followVars>>

Connects ==
    /\ online' = ~online
    /\ UNCHANGED <<position, cycleVars, press, followVars>>

\* gate_state: an offline operator has none, and neither has one whose gate is
\* opening, as the code for that is also what unused inputs report.
Reported == IF online /\ position \in Labels THEN position ELSE Unknown

-----------------------------------------------------------------------------
(***************************************************************************)
(* The update cycle: _refresh_gsm_status, then other awaits, then the new  *)
(* coordinator.data.                                                       *)
(***************************************************************************)
\* Fault: an operator that has reported once is not asked again.
FaultAskedOnce(c) ==
    /\ cycle[c].at = "idle"
    /\ cycle' = [cycle EXCEPT ![c].at = IF status = Unknown THEN "asked" ELSE "rest"]
    /\ UNCHANGED <<position, online, status, data, press, followVars>>

CycleAsks(c) ==
    /\ cycle[c].at = "idle"
    /\ cycle' = [cycle EXCEPT ![c].at = "asked"]
    /\ UNCHANGED <<position, online, status, data, press, followVars>>

GatewayAnswersCycle(c) ==
    /\ cycle[c].at = "asked"
    /\ cycle' = [cycle EXCEPT ![c] = [at |-> "answered", answer |-> Reported]]
    /\ UNCHANGED <<position, online, status, data, press, followVars>>

StatusStored(c) ==
    /\ cycle[c].at = "answered"
    /\ status' = cycle[c].answer
    /\ cycle' = [cycle EXCEPT ![c] = [at |-> "rest", answer |-> Unknown]]
    /\ UNCHANGED <<position, online, data, press, followVars>>

\* The request failed or its answer cannot be parsed: the last report is kept.
StatusKept(c) ==
    /\ cycle[c].at \in {"asked", "answered"}
    /\ cycle' = [cycle EXCEPT ![c] = [at |-> "rest", answer |-> Unknown]]
    /\ UNCHANGED <<position, online, status, data, press, followVars>>

CycleEnds(c) ==
    /\ cycle[c].at = "rest"
    /\ data' = status
    /\ cycle' = [cycle EXCEPT ![c] = Quiet]
    /\ UNCHANGED <<position, online, status, press, followVars>>

-----------------------------------------------------------------------------
(***************************************************************************)
(* A press of the cover.                                                   *)
(***************************************************************************)
Press(p) ==
    /\ press[p] = "idle"
    /\ press' = [press EXCEPT ![p] = "sending"]
    /\ UNCHANGED <<position, online, cycleVars, followVars>>

\* MCRActEn raises: offline, time barred, no connection.
TriggerFails(p) ==
    /\ press[p] = "sending"
    /\ press' = [press EXCEPT ![p] = "idle"]
    /\ UNCHANGED <<position, online, cycleVars, followVars>>

\* A job with a deadline of its own begins; f is the first number free.
Spawned(f) ==
    /\ follower[f] = Absent /\ \A g \in 1..(f - 1) : follower[g] # Absent
    /\ follower' = [follower EXCEPT ![f] = [Absent EXCEPT !.at = "paused", !.left = FollowTime]]

\* Fault: the flag is left to the job, which runs later.
FaultFlagLeftToJob ==
    /\ \E f \in Followers : Spawned(f)
    /\ UNCHANGED <<polling, live>>

\* _start_live_poll.
Start ==
    \/ /\ polling
       /\ UNCHANGED followVars
    \/ /\ ~polling
       /\ polling' = TRUE
       /\ \E f \in Followers : Spawned(f)
       /\ UNCHANGED live

\* The gateway has queued the trigger.  The gate is followed if the status that
\* the entity has shows a position.
Triggered(p) ==
    /\ press[p] = "sending"
    /\ press' = [press EXCEPT ![p] = "idle"]
    /\ IF data # Unknown THEN Start ELSE UNCHANGED followVars
    /\ UNCHANGED <<position, online, cycleVars>>

-----------------------------------------------------------------------------
(***************************************************************************)
(* A follower: _runner.                                                    *)
(***************************************************************************)
\* Its `finally`.  The refresh it requests is CycleAsks.
Finally(f) ==
    /\ follower' = [follower EXCEPT ![f] = Absent]
    /\ polling' = FALSE
    /\ live' = NoLabel

FollowerAsks(f) ==
    /\ follower[f].at = "paused" /\ follower[f].left > 0
    /\ follower' = [follower EXCEPT ![f].at = "asked"]
    /\ UNCHANGED <<position, online, cycleVars, press, polling, live>>

FollowerEnds(f) ==
    /\ follower[f].at = "paused" /\ follower[f].left = 0
    /\ Finally(f)
    /\ UNCHANGED <<position, online, cycleVars, press>>

\* An answer that cannot be parsed has no position either.
GatewayAnswersFollower(f) ==
    /\ follower[f].at = "asked"
    /\ \E answer \in {Reported, Unknown} :
           follower' = [follower EXCEPT ![f].at = "answered", ![f].answer = answer]
    /\ UNCHANGED <<position, online, cycleVars, press, polling, live>>

\* A position becomes the live label; anything else leaves it to its TTL.
LabelPushed(f) ==
    /\ follower[f].at = "answered"
    /\ live' = IF follower[f].answer = Unknown THEN live
               ELSE [left |-> TTL, label |-> follower[f].answer]
    /\ follower' = [follower EXCEPT ![f].at = "paused", ![f].answer = Unknown]
    /\ UNCHANGED <<position, online, cycleVars, press, polling>>

\* Fault: the clean-up is not in a `finally`.
FaultNoCleanUp(f) ==
    /\ follower[f].at \in {"asked", "answered"}
    /\ follower' = [follower EXCEPT ![f] = Absent]
    /\ UNCHANGED <<position, online, cycleVars, press, polling, live>>

\* A request that raises ends the follower.
FollowerFails(f) ==
    /\ follower[f].at \in {"asked", "answered"}
    /\ Finally(f)
    /\ UNCHANGED <<position, online, cycleVars, press>>

-----------------------------------------------------------------------------
Less(n) == IF n = 0 THEN 0 ELSE n - 1

\* Time passes: deadlines come closer and the live label ages.
Tick ==
    /\ follower' = [f \in Followers |-> [follower[f] EXCEPT !.left = Less(@)]]
    /\ live' = IF live.left <= 1 THEN NoLabel ELSE [live EXCEPT !.left = @ - 1]
    /\ UNCHANGED <<position, online, cycleVars, press, polling>>

Poll(c) == GatewayAnswersCycle(c) \/ StatusStored(c) \/ StatusKept(c) \/ CycleEnds(c)

Follow(f) ==
    FollowerAsks(f) \/ FollowerEnds(f) \/ GatewayAnswersFollower(f) \/ LabelPushed(f)
        \/ FollowerFails(f)

Next ==
    \/ Moves \/ Connects \/ Tick
    \/ \E c \in Cycles : CycleAsks(c) \/ Poll(c)
    \/ \E p \in Presses : Press(p) \/ TriggerFails(p) \/ Triggered(p)
    \/ \E f \in Followers : Follow(f)

Spec == Init /\ [][Next]_vars

(***************************************************************************)
(* Cycles are scheduled again and again, every request ends and every      *)
(* pause is over some time.  A gateway that never answers shows nothing    *)
(* new, so some cycle's answer is assumed to get through again and again.  *)
(***************************************************************************)
Fairness ==
    /\ WF_vars(Tick)
    /\ WF_vars(CycleAsks("scheduled"))
    /\ SF_vars(\E c \in Cycles : GatewayAnswersCycle(c))
    /\ SF_vars(\E c \in Cycles : StatusStored(c))
    /\ \A c \in Cycles : WF_vars(Poll(c))
    /\ \A f \in Followers : WF_vars(Follow(f))

FairSpec == Spec /\ Fairness

-----------------------------------------------------------------------------
(***************************************************************************)
(* Properties.                                                             *)
(***************************************************************************)
\* CentsysGsmGateCover._gate_state: the live label while it lasts, else the poll.
gate_state == IF live.left > 0 THEN live.label ELSE data

Running == {f \in Followers : follower[f] # Absent}

\* However presses overlap with each other and with the end of a follow, there
\* is one follower at most, the flag says whether there is, and no live label
\* outlives it: afterwards the poll is authoritative again.
OneFollower ==
    /\ \A f, g \in Running : f = g
    /\ polling <=> Running # {}
    /\ live.left > 0 => polling

\* A follow always ends, whatever the gateway answers or fails to answer, so a
\* later press is followed again.
FollowEnds == polling ~> ~polling

\* A gate that comes to rest where its operator reports it, and whose operator
\* stays online, is in the end shown there and nowhere else, whatever late
\* answers, kept statuses and live labels there were on the way.
ShownWhereItRests ==
    \A rest \in {"open", "closed"} :
        <>[](online /\ position = rest) => <>[](gate_state = rest)

=============================================================================
