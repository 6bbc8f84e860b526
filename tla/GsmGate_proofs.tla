---------------------------- MODULE GsmGate_proofs ----------------------------
(***************************************************************************)
(* Types, and one follower at a time: for any number of presses, cycles    *)
(* and followers that could exist, and for any durations.                  *)
(***************************************************************************)
EXTENDS GsmGate, TLAPS

\* A follower that has ended is no different from one that never was; the label
\* counts down from TTL.
Shape ==
    /\ DOMAIN follower = Followers
    /\ \A f \in Followers :
           /\ follower[f] \in [at : {"none", "paused", "asked", "answered"},
                               left : Nat, answer : Reports]
           /\ follower[f].at = "none" => follower[f] = Absent
    /\ follower = [f \in Followers |-> follower[f]]
    /\ live.left \in Nat

FollowerInv == Shape /\ OneFollower

LEMMA AbsentFields ==
    /\ Absent.at = "none"
    /\ Absent \in [at : {"none", "paused", "asked", "answered"}, left : Nat, answer : Reports]
  BY DEF Absent, Reports

\* What the poll, the world and the presses do leaves followers alone.
LEMMA OthersKeepInv ==
    ASSUME FollowerInv, UNCHANGED followVars
    PROVE  FollowerInv'
  BY DEF FollowerInv, Shape, OneFollower, Running, followVars

\* A step within a follower, after which it is still running.
LEMMA RunsOn ==
    ASSUME FollowerInv, NEW f \in Followers, follower[f] # Absent, NEW n,
           n \in [at : {"paused", "asked", "answered"}, left : Nat, answer : Reports],
           follower' = [follower EXCEPT ![f] = n],
           polling' = polling, live'.left \in Nat
    PROVE  FollowerInv'
<1>1. n # Absent /\ n.at # "none"
  BY AbsentFields
<1>2. Running' = Running
  BY <1>1 DEF FollowerInv, Shape, Running
<1>3. Running # {} /\ polling'
  BY DEF Running, FollowerInv, OneFollower
<1>4. OneFollower'
  BY <1>2, <1>3 DEF FollowerInv, OneFollower
<1>5. Shape'
  BY <1>1 DEF FollowerInv, Shape
<1> QED
  BY <1>4, <1>5 DEF FollowerInv

\* Its clean-up: it was the only one.
LEMMA FinallyKeepsInv ==
    ASSUME FollowerInv, NEW f \in Followers, follower[f] # Absent, Finally(f)
    PROVE  FollowerInv'
<1>1. Running' = {}
  BY DEF FollowerInv, Shape, OneFollower, Running, Finally
<1>2. OneFollower'
  BY <1>1 DEF OneFollower, Finally, NoLabel
<1>3. Shape'
  BY AbsentFields DEF FollowerInv, Shape, Finally, NoLabel
<1> QED
  BY <1>2, <1>3 DEF FollowerInv

LEMMA StartKeepsInv ==
    ASSUME FollowerInv, Start
    PROVE  FollowerInv'
<1>1. CASE polling /\ UNCHANGED followVars
  BY <1>1, OthersKeepInv
<1>2. CASE ~polling /\ polling' = TRUE /\ (\E f \in Followers : Spawned(f)) /\ UNCHANGED live
  <2>1. PICK f \in Followers : Spawned(f)
    BY <1>2
  <2>2. Running = {}
    BY <1>2 DEF FollowerInv, OneFollower
  <2> DEFINE new == [Absent EXCEPT !.at = "paused", !.left = FollowTime]
  <2>3. /\ new \in [at : {"paused"}, left : Nat, answer : Reports]
        /\ new # Absent
    BY GsmAssumption DEF Absent, Reports
  <2>4. follower' = [follower EXCEPT ![f] = new]
    BY <2>1 DEF Spawned
  <2> HIDE DEF new
  <2>5. Running' = {f}
    BY <2>2, <2>3, <2>4 DEF Running, FollowerInv, Shape
  <2>6. OneFollower'
    BY <2>5, <1>2 DEF OneFollower
  <2>7. Shape'
    BY <2>3, <2>4, <1>2 DEF FollowerInv, Shape
  <2> QED
    BY <2>6, <2>7 DEF FollowerInv
<1> QED
  BY <1>1, <1>2 DEF Start

LEMMA FollowKeepsInv ==
    ASSUME FollowerInv, NEW f \in Followers, Follow(f)
    PROVE  FollowerInv'
<1> DEFINE old == follower[f]
<1>1. /\ old \in [at : {"none", "paused", "asked", "answered"}, left : Nat, answer : Reports]
      /\ follower = [g \in Followers |-> follower[g]]
      /\ live.left \in Nat
  BY DEF FollowerInv, Shape
<1>2. old.at # "none" => old # Absent
  BY AbsentFields
<1>3. CASE FollowerEnds(f) \/ FollowerFails(f)
  BY <1>2, <1>3, FinallyKeepsInv DEF FollowerEnds, FollowerFails
<1>4. CASE FollowerAsks(f)
  <2>1. follower' = [follower EXCEPT ![f] = [old EXCEPT !.at = "asked"]]
    BY <1>1, <1>4 DEF FollowerAsks
  <2> QED
    BY <2>1, <1>1, <1>2, <1>4, RunsOn DEF FollowerAsks
<1>5. CASE GatewayAnswersFollower(f)
  <2>1. PICK answer \in {Reported, Unknown} :
            follower' = [follower EXCEPT ![f].at = "answered", ![f].answer = answer]
    BY <1>5 DEF GatewayAnswersFollower
  <2>2. answer \in Reports
    BY DEF Reported, Reports
  <2>3. follower' = [follower EXCEPT ![f] = [old EXCEPT !.at = "answered", !.answer = answer]]
    BY <1>1, <2>1
  <2> QED
    BY <2>2, <2>3, <1>1, <1>2, <1>5, RunsOn DEF GatewayAnswersFollower
<1>6. CASE LabelPushed(f)
  <2>1. follower' = [follower EXCEPT ![f] = [old EXCEPT !.at = "paused", !.answer = Unknown]]
    BY <1>1, <1>6 DEF LabelPushed
  <2>2. live'.left \in Nat
    BY <1>1, <1>6, GsmAssumption DEF LabelPushed
  <2>3. Unknown \in Reports
    BY DEF Reports
  <2> QED
    BY <2>1, <2>2, <2>3, <1>1, <1>2, <1>6, RunsOn DEF LabelPushed
<1> QED
  BY <1>3, <1>4, <1>5, <1>6 DEF Follow

LEMMA TickKeepsInv ==
    ASSUME FollowerInv, Tick
    PROVE  FollowerInv'
<1>1. ASSUME NEW f \in Followers
      PROVE  /\ follower'[f] \in [at : {"none", "paused", "asked", "answered"},
                                  left : Nat, answer : Reports]
             /\ follower'[f].at = follower[f].at
             /\ follower[f] = Absent => follower'[f] = Absent
  <2>1. follower'[f] = [follower[f] EXCEPT !.left = Less(@)]
    BY DEF Tick
  <2>2. follower[f] \in [at : {"none", "paused", "asked", "answered"},
                         left : Nat, answer : Reports]
    BY DEF FollowerInv, Shape
  <2>3. \A n \in Nat : Less(n) \in Nat
    BY DEF Less
  <2>4. Less(0) = 0
    BY DEF Less
  <2>5. follower[f] = Absent => follower'[f] = Absent
    BY <2>1, <2>4 DEF Absent
  <2> QED
    BY <2>1, <2>2, <2>3, <2>5
<1>2. \A f \in Followers : (follower'[f] = Absent) <=> (follower[f] = Absent)
  BY <1>1, AbsentFields DEF FollowerInv, Shape
<1>3. Running' = Running
  BY <1>2 DEF Running
<1>4. live'.left \in Nat /\ (live'.left > 0 => live.left > 0)
  BY DEF Tick, FollowerInv, Shape, NoLabel
<1>5. OneFollower'
  BY <1>3, <1>4 DEF Tick, FollowerInv, OneFollower
<1>6. Shape'
  BY <1>1, <1>2, <1>4 DEF Tick, FollowerInv, Shape
<1> QED
  BY <1>5, <1>6 DEF FollowerInv

\* However presses overlap with each other and with the end of a follow, one job of
\* _start_live_poll runs at most, _polling says whether it does, and its label goes
\* with it.
THEOREM OneFollowerAtMost == Spec => []OneFollower
<1>1. Init => FollowerInv
  <2> SUFFICES ASSUME Init PROVE FollowerInv
    OBVIOUS
  <2>1. Running = {} /\ live.left = 0
    BY DEF Init, Running, NoLabel
  <2> QED
    BY <2>1, AbsentFields DEF Init, FollowerInv, Shape, OneFollower
<1>2. FollowerInv /\ [Next]_vars => FollowerInv'
  <2> SUFFICES ASSUME FollowerInv, [Next]_vars PROVE FollowerInv'
    OBVIOUS
  <2>1. CASE Moves \/ Connects
    BY <2>1, OthersKeepInv DEF Moves, Connects
  <2>2. ASSUME NEW c \in Cycles, CycleAsks(c) \/ Poll(c) PROVE FollowerInv'
    BY <2>2, OthersKeepInv
       DEF CycleAsks, Poll, GatewayAnswersCycle, StatusStored, StatusKept, CycleEnds
  <2>3. ASSUME NEW p \in Presses, Press(p) \/ TriggerFails(p) \/ Triggered(p)
        PROVE  FollowerInv'
    BY <2>3, OthersKeepInv, StartKeepsInv DEF Press, TriggerFails, Triggered
  <2>4. CASE UNCHANGED vars
    BY <2>4, OthersKeepInv DEF vars
  <2> QED
    BY <2>1, <2>2, <2>3, <2>4, FollowKeepsInv, TickKeepsInv DEF Next
<1>3. FollowerInv => OneFollower
  BY DEF FollowerInv
<1> QED
  BY <1>1, <1>2, <1>3, PTL DEF Spec

-----------------------------------------------------------------------------
(***************************************************************************)
(* Types.                                                                  *)
(***************************************************************************)
CycleStates    == [at : {"idle", "asked", "answered", "rest"}, answer : Reports]
FollowerStates == [at : {"none", "paused", "asked", "answered"},
                   left : 0..FollowTime, answer : Reports]
LiveStates     == [left : 0..TTL, label : Reports]

\* TypeOK, with names for its sets of records.
Types ==
    /\ position \in Positions /\ online \in BOOLEAN
    /\ status \in Reports /\ data \in Reports
    /\ cycle \in [Cycles -> CycleStates]
    /\ press \in [Presses -> {"idle", "sending"}]
    /\ polling \in BOOLEAN
    /\ follower \in [Followers -> FollowerStates]
    /\ live \in LiveStates
    /\ live.left > 0 => live.label # Unknown

LEMMA ReportTypes ==
    /\ Reported \in Reports /\ Unknown \in Reports
    /\ Absent \in FollowerStates /\ Quiet \in CycleStates
    /\ NoLabel \in LiveStates /\ NoLabel.left = 0
    /\ [Absent EXCEPT !.at = "paused", !.left = FollowTime] \in FollowerStates
<1>1. 0 \in 0..FollowTime /\ FollowTime \in 0..FollowTime /\ 0 \in 0..TTL
  BY GsmAssumption
<1>2. Reported \in Reports /\ Unknown \in Reports
  BY DEF Reported, Reports
<1> QED
  BY <1>1, <1>2 DEF Absent, Quiet, NoLabel, FollowerStates, CycleStates, LiveStates

\* What a step within a cycle or a follower makes of its record.
LEMMA CycleFields ==
    ASSUME NEW c \in CycleStates, NEW step \in {"asked", "answered", "rest"},
           NEW report \in Reports
    PROVE  /\ c.answer \in Reports
           /\ [c EXCEPT !.at = step] \in CycleStates
           /\ [at |-> step, answer |-> report] \in CycleStates
  BY DEF CycleStates

LEMMA FollowerFields ==
    ASSUME NEW f \in FollowerStates, NEW step \in {"paused", "asked", "answered"},
           NEW report \in Reports
    PROVE  /\ f.answer \in Reports
           /\ [f EXCEPT !.at = step] \in FollowerStates
           /\ [f EXCEPT !.at = step, !.answer = report] \in FollowerStates
           /\ [f EXCEPT !.left = Less(@)] \in FollowerStates
<1>1. \A n \in 0..FollowTime : Less(n) \in 0..FollowTime
  BY GsmAssumption DEF Less
<1> QED
  BY <1>1 DEF FollowerStates

LEMMA CycleTypes ==
    ASSUME Types, NEW c \in Cycles, CycleAsks(c) \/ Poll(c)
    PROVE  Types'
<1> USE DEF Types
<1>1. cycle \in [Cycles -> CycleStates] /\ cycle[c] \in CycleStates
      /\ status \in Reports /\ data \in Reports
  OBVIOUS
<1>2. \E n \in CycleStates : cycle' = [cycle EXCEPT ![c] = n]
  <2>1. CASE CycleAsks(c)
    <3>1. cycle' = [cycle EXCEPT ![c] = [cycle[c] EXCEPT !.at = "asked"]]
      BY <1>1, <2>1 DEF CycleAsks
    <3> QED
      BY <3>1, <1>1, ReportTypes, CycleFields
  <2>2. CASE GatewayAnswersCycle(c)
    BY <2>2, <1>1, ReportTypes, CycleFields DEF GatewayAnswersCycle
  <2>3. CASE StatusStored(c) \/ StatusKept(c)
    BY <2>3, <1>1, ReportTypes, CycleFields DEF StatusStored, StatusKept
  <2>4. CASE CycleEnds(c)
    BY <2>4, ReportTypes DEF CycleEnds
  <2> QED
    BY <2>1, <2>2, <2>3, <2>4 DEF Poll
<1>3. cycle' \in [Cycles -> CycleStates]
  BY <1>1, <1>2
<1>4. status' \in Reports /\ data' \in Reports
  BY <1>1, ReportTypes, CycleFields
     DEF CycleAsks, Poll, GatewayAnswersCycle, StatusStored, StatusKept, CycleEnds
<1>5. UNCHANGED <<position, online, press, followVars>>
  BY DEF CycleAsks, Poll, GatewayAnswersCycle, StatusStored, StatusKept, CycleEnds
<1> QED
  BY <1>3, <1>4, <1>5 DEF followVars

LEMMA PressTypes ==
    ASSUME Types, NEW p \in Presses, Press(p) \/ TriggerFails(p) \/ Triggered(p)
    PROVE  Types'
<1> USE DEF Types
<1>1. press' \in [Presses -> {"idle", "sending"}] /\ UNCHANGED <<position, online, cycleVars>>
  BY DEF Press, TriggerFails, Triggered
<1>2. UNCHANGED followVars \/ Start
  BY DEF Press, TriggerFails, Triggered
<1>3. CASE UNCHANGED followVars
  BY <1>1, <1>3 DEF followVars, cycleVars
<1>4. ASSUME NEW f \in Followers, Spawned(f), polling' = TRUE, UNCHANGED live PROVE Types'
  <2>1. follower' \in [Followers -> FollowerStates]
    BY <1>4, ReportTypes DEF Spawned
  <2> QED
    BY <1>1, <1>4, <2>1 DEF cycleVars
<1> QED
  BY <1>2, <1>3, <1>4 DEF Start

LEMMA FollowTypes ==
    ASSUME Types, NEW f \in Followers, Follow(f)
    PROVE  Types'
<1> USE DEF Types
<1> DEFINE old == follower[f]
<1>1. follower \in [Followers -> FollowerStates] /\ old \in FollowerStates
      /\ live \in LiveStates /\ (live.left > 0 => live.label # Unknown) /\ polling \in BOOLEAN
  OBVIOUS
<1>2. UNCHANGED <<position, online, cycleVars, press>> /\ polling' \in BOOLEAN
  BY <1>1 DEF Follow, FollowerAsks, FollowerEnds, GatewayAnswersFollower, LabelPushed,
              FollowerFails, Finally
<1>3. \E n \in FollowerStates : follower' = [follower EXCEPT ![f] = n]
  <2>1. CASE FollowerAsks(f)
    <3>1. follower' = [follower EXCEPT ![f] = [old EXCEPT !.at = "asked"]]
      BY <1>1, <2>1 DEF FollowerAsks
    <3> QED
      BY <3>1, <1>1, ReportTypes, FollowerFields
  <2>2. CASE FollowerEnds(f) \/ FollowerFails(f)
    BY <2>2, ReportTypes DEF FollowerEnds, FollowerFails, Finally
  <2>3. CASE GatewayAnswersFollower(f)
    <3>1. PICK report \in Reports :
              follower' = [follower EXCEPT ![f].at = "answered", ![f].answer = report]
      BY <2>3, ReportTypes DEF GatewayAnswersFollower
    <3>2. follower' = [follower EXCEPT ![f] = [old EXCEPT !.at = "answered", !.answer = report]]
      BY <1>1, <3>1
    <3> QED
      BY <3>2, <1>1, FollowerFields
  <2>4. CASE LabelPushed(f)
    <3>1. follower' = [follower EXCEPT ![f] = [old EXCEPT !.at = "paused", !.answer = Unknown]]
      BY <1>1, <2>4 DEF LabelPushed
    <3> QED
      BY <3>1, <1>1, ReportTypes, FollowerFields
  <2> QED
    BY <2>1, <2>2, <2>3, <2>4 DEF Follow
<1>4. live' \in LiveStates /\ (live'.left > 0 => live'.label # Unknown)
  <2>1. CASE LabelPushed(f)
    <3>1. old.answer \in Reports
      BY <1>1, ReportTypes, FollowerFields
    <3>2. CASE old.answer = Unknown
      BY <1>1, <2>1, <3>2 DEF LabelPushed
    <3>3. CASE old.answer # Unknown
      <4>1. live' = [left |-> TTL, label |-> old.answer]
        BY <2>1, <3>3 DEF LabelPushed
      <4>2. TTL \in 0..TTL
        BY GsmAssumption
      <4> QED
        BY <4>1, <4>2, <3>1, <3>3 DEF LiveStates
    <3> QED
      BY <3>2, <3>3
  <2>2. CASE FollowerEnds(f) \/ FollowerFails(f)
    BY <2>2, ReportTypes DEF FollowerEnds, FollowerFails, Finally
  <2>3. CASE FollowerAsks(f) \/ GatewayAnswersFollower(f)
    BY <1>1, <2>3 DEF FollowerAsks, GatewayAnswersFollower
  <2> QED
    BY <2>1, <2>2, <2>3 DEF Follow
<1>5. follower' \in [Followers -> FollowerStates]
  BY <1>1, <1>3
<1> QED
  BY <1>2, <1>4, <1>5 DEF cycleVars

LEMMA TickTypes == ASSUME Types, Tick PROVE Types'
<1> USE DEF Types
<1>1. follower \in [Followers -> FollowerStates]
      /\ live \in LiveStates /\ (live.left > 0 => live.label # Unknown)
  OBVIOUS
<1>2. \A f \in Followers : [follower[f] EXCEPT !.left = Less(@)] \in FollowerStates
  BY <1>1, ReportTypes, FollowerFields
<1>3. follower' \in [Followers -> FollowerStates]
  BY <1>2 DEF Tick
<1>4. live' \in LiveStates /\ (live'.left > 0 => live'.label # Unknown)
  <2>1. CASE live.left <= 1
    BY <2>1, ReportTypes DEF Tick
  <2>2. CASE ~(live.left <= 1)
    <3>1. live' = [live EXCEPT !.left = @ - 1]
      BY <2>2 DEF Tick
    <3>2. live.left \in 0..TTL /\ live.left - 1 \in 0..TTL /\ live.left > 0
      BY <1>1, <2>2, GsmAssumption DEF LiveStates
    <3> QED
      BY <1>1, <3>1, <3>2 DEF LiveStates
  <2> QED
    BY <2>1, <2>2
<1> QED
  BY <1>3, <1>4 DEF Tick, cycleVars

\* The statuses, the cycles, the presses and the followers keep their types; a live
\* label that lasts says where the gate is, and deadlines count down from their start.
THEOREM TypeCorrect == Spec => []TypeOK
<1>1. ASSUME Init PROVE Types
  <2>1. live \in LiveStates /\ (live.left > 0 => live.label # Unknown)
    BY <1>1, ReportTypes DEF Init
  <2>2. cycle \in [Cycles -> CycleStates] /\ follower \in [Followers -> FollowerStates]
    BY <1>1, ReportTypes DEF Init
  <2> QED
    BY <1>1, <2>1, <2>2, ReportTypes DEF Init, Types
<1>2. Types /\ [Next]_vars => Types'
  <2> SUFFICES ASSUME Types, [Next]_vars PROVE Types'
    OBVIOUS
  <2>1. CASE Moves
    <3>1. position' \in Positions
      BY <2>1 DEF Types, Moves, Positions
    <3> QED
      BY <2>1, <3>1 DEF Types, Moves, cycleVars, followVars
  <2>2. CASE Connects
    BY <2>2 DEF Types, Connects, cycleVars, followVars
  <2>3. CASE UNCHANGED vars
    BY <2>3 DEF Types, vars, cycleVars, followVars
  <2> QED
    BY <2>1, <2>2, <2>3, CycleTypes, PressTypes, FollowTypes, TickTypes DEF Next
<1>3. Types => TypeOK
  BY DEF Types, TypeOK, CycleStates, FollowerStates, LiveStates
<1> QED
  BY <1>1, <1>2, <1>3, PTL DEF Spec
=============================================================================
