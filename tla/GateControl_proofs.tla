------------------------- MODULE GateControl_proofs -------------------------
(***************************************************************************)
(* For every set of operator models whose messages are truthful, everything *)
(* GateControl believes about its operator is true (IInv is inductive), so  *)
(* activation id 1 opens garages only and locks gates only.  At the end,    *)
(* EntryLifecycle, which keeps the codes that control falls back on.        *)
(***************************************************************************)
EXTENDS GateControl, EntryLifecycle, TLAPS

-----------------------------------------------------------------------------
(***************************************************************************)
(* The classifiers.                                                        *)
(***************************************************************************)

\* A code, or the lack of one, classifies as one of three answers.
LEMMA ClassifierRange ==
    ASSUME NEW c \in Int \cup {NoCode}
    PROVE  /\ product_family(c) \in {"slider", "swing", "garage", Unknown}
           /\ gate_or_garage(c) \in Answers
<1>1. product_family(c) \in {"slider", "swing", "garage", Unknown}
  BY NoCodeAssumption DEF product_family, Normalised, Unknown
<1> QED
  BY <1>1 DEF gate_or_garage, Answers, Unknown

\* A body of at least 24 bytes from deviceOverview is always decoded.
LEMMA DecoderRange ==
    ASSUME NEW length \in Nat, length >= 24, NEW code \in Int \cup {NoCode}
    PROVE  layout_for(length, code, FALSE).family \in Families
<1>1. product_family(code) \in {"slider", "swing", "garage", Unknown}
  BY ClassifierRange
<1>2. HasFamilyLayout(length, code) => FamilyLayouts[product_family(code)].family \in Families
  BY <1>1 DEF HasFamilyLayout, FamilyLayouts, Decoder, Families, Layouts, Unknown
<1>3. BodyLayout(length).family \in Families
  BY DEF BodyLayout, Decoder, Families, Layouts
<1>4. NearestLayout(length).family \in Families
  BY DEF NearestLayout, Decoder, Families, Layouts
<1> QED
  BY <1>2, <1>3, <1>4 DEF layout_for

\* A message is never taken for both a garage's and a gate's.
LEMMA Exclusive ==
    ASSUME NEW ov, ov.code \in Int \cup {NoCode}
    PROVE  /\ gate_or_garage(ov.code) = "garage" => is_garage(ov) /\ ~is_gate(ov)
           /\ gate_or_garage(ov.code) = "gate" => is_gate(ov) /\ ~is_garage(ov)
           /\ ~(is_garage(ov) /\ is_gate(ov))
  BY ClassifierRange DEF is_garage, is_gate, GateFamilies, Families, Layouts, Answers, Unknown

\* A truthful operator's message classifies as its kind or not at all.
LEMMA TruthfulMessage ==
    ASSUME FramesTruthful, operator \in Operators, NEW f \in operator.broadcasts
    PROVE  /\ f \in Frames /\ f.length >= 24
           /\ Decoded(f).code = f.code /\ Decoded(f).lock = lock
           /\ Decoded(f).family \in Families
           /\ f.code \in Codes
           /\ is_garage(Decoded(f)) => kind = "garage"
           /\ is_gate(Decoded(f)) => kind = "gate"
           /\ BelievesTruth(gate_or_garage(f.code))
<1>1. f \in UNION (Gates \cup Garages)
  BY DEF Operators
<1>2. f \in Frames /\ f.length >= 24
  BY <1>1, FramesAssumption
<1>3. f.code \in Codes
  BY <1>1 DEF Codes
<1>4. Decoded(f).code = f.code /\ Decoded(f).lock = lock
      /\ Decoded(f).family = layout_for(f.length, f.code, FALSE).family
  BY DEF Decoded
<1>5. f.length \in Nat /\ f.code \in Int \cup {NoCode}
  BY <1>2 DEF Frames
<1>6. Decoded(f).family \in Families
  BY <1>2, <1>4, <1>5, DecoderRange
<1>7. is_garage(Decoded(f)) = is_garage(Shape(f)) /\ is_gate(Decoded(f)) = is_gate(Shape(f))
  BY <1>4 DEF is_garage, is_gate, Shape
<1>8. /\ is_garage(Decoded(f)) => kind = "garage"
      /\ is_gate(Decoded(f)) => kind = "gate"
  <2>1. \/ kind = "gate" /\ f \in UNION Gates
        \/ kind = "garage" /\ f \in UNION Garages
    BY DEF Operators, kind
  <2> QED
    BY <2>1, <1>7 DEF FramesTruthful
<1>9. gate_or_garage(f.code) \in Answers
  BY <1>5, ClassifierRange
<1>10. BelievesTruth(gate_or_garage(f.code))
  <2>1. CASE gate_or_garage(f.code) = "garage"
    BY <2>1, <1>4, <1>5, <1>8, Exclusive DEF BelievesTruth
  <2>2. CASE gate_or_garage(f.code) = "gate"
    BY <2>2, <1>4, <1>5, <1>8, Exclusive DEF BelievesTruth
  <2> QED
    BY <1>9, <2>1, <2>2 DEF Answers, BelievesTruth
<1> QED
  BY <1>2, <1>3, <1>4, <1>6, <1>8, <1>10

-----------------------------------------------------------------------------
(***************************************************************************)
(* What the steps of GateControl have in common.                           *)
(***************************************************************************)
\* The service calls, as TypeOK bounds them.
CallRecords == [at : {"idle", "resolving", "sending", "sent", "reading"},
                request : Requests, family : Answers, knew : Answers]

\* The family an entity resolves is true when what it is resolved from is.
LEMMA FamilyTruthful ==
    ASSUME NEW ov, NEW code \in Int \cup {NoCode},
           Truthful(ov), BelievesTruth(gate_or_garage(code))
    PROVE  Family(ov, code) \in Answers /\ BelievesTruth(Family(ov, code))
<1>1. gate_or_garage(code) \in Answers
  BY ClassifierRange
<1> QED
  BY <1>1 DEF Family, Truthful, BelievesTruth, Answers, Unknown

\* What is learned stays true, and is_known_gate never holds of a garage.
LEMMA KnownGateIsGate ==
    ASSUME NEW ov, NEW code, Truthful(ov), BelievesTruth(gate_or_garage(code)),
           is_known_gate(ov, code)
    PROVE  kind = "gate"
  BY DEF is_known_gate, Truthful, BelievesTruth, Unknown

\* Codes are integers, or missing.
LEMMA CodesRange == Codes \subseteq Int \cup {NoCode}
  BY FramesAssumption DEF Codes, Frames

\* A message that is ingested leaves the cache and the learned code truthful.
LEMMA IngestTruthful ==
    ASSUME FramesTruthful, IInv, NEW f \in operator.broadcasts, Ingest(f),
           operator' = operator
    PROVE  /\ cached' \in Overviews /\ learned' \in Codes
           /\ Truthful(cached') /\ BelievesTruth(gate_or_garage(learned'))
<1>1. operator \in Operators /\ lock \in BOOLEAN /\ learned \in Codes
      /\ BelievesTruth(gate_or_garage(learned))
  BY DEF IInv, TypeOK
<1>2. /\ f.code \in Codes /\ Decoded(f).family \in Families
      /\ is_garage(Decoded(f)) => kind = "garage"
      /\ is_gate(Decoded(f)) => kind = "gate"
      /\ BelievesTruth(gate_or_garage(f.code))
  BY <1>1, TruthfulMessage
<1>3. cached' = Decoded(f) /\ learned' = Remembered(f.code)
  BY DEF Ingest
<1>4. Decoded(f) \in Overviews
  BY <1>1, <1>2 DEF Decoded, Overviews
<1>5. Truthful(cached')
  BY <1>2, <1>3 DEF Truthful
<1> QED
  BY <1>1, <1>2, <1>3, <1>4, <1>5 DEF Remembered

\* A call that goes on with a true family is still believed in truth.
LEMMA GoesTruthful ==
    ASSUME IInv, NEW c \in Calls, NEW request \in Requests, NEW family \in Answers,
           NEW knew \in Answers, BelievesTruth(family), Goes(c, request, family, knew),
           request # "pedestrian"
    PROVE  /\ call' \in [Calls -> CallRecords]
           /\ \A d \in Calls : CallBelieves(call'[d])
<1>1. call \in [Calls -> CallRecords] /\ \A d \in Calls : CallBelieves(call[d])
  BY DEF IInv, TypeOK, CallRecords, CallBelieves
<1>2. \A d \in Calls : d # c => call'[d] = call[d]
  BY <1>1 DEF Goes
<1>3. Idle \in CallRecords /\ CallBelieves(Idle)
  BY DEF Idle, CallRecords, Requests, Answers, Unknown, CallBelieves
<1>4. CASE request \in {"on", "off"} /\ family # "gate"
  <2>1. call' = [call EXCEPT ![c] = Idle]
    BY <1>4 DEF Goes
  <2> QED
    BY <2>1, <1>1, <1>2, <1>3
<1>5. CASE ~(request \in {"on", "off"} /\ family # "gate")
  <2> DEFINE r == [at |-> "sending", request |-> request, family |-> family, knew |-> knew]
  <2>1. call' = [call EXCEPT ![c] = r]
    BY <1>5 DEF Goes
  <2>2. r \in CallRecords
    BY DEF CallRecords
  <2>3. request \in {"on", "off"} => kind = "gate"
    BY <1>5 DEF BelievesTruth, Unknown
  <2>4. CallBelieves(r)
    BY <2>3 DEF CallBelieves
  <2> QED
    BY <2>1, <2>2, <2>4, <1>1, <1>2
<1> QED
  BY <1>4, <1>5

-----------------------------------------------------------------------------
(***************************************************************************)
(* IInv is inductive.                                                      *)
(***************************************************************************)
LEMMA IInvInit == Init => IInv
<1> SUFFICES ASSUME Init PROVE IInv
  OBVIOUS
<1>1. TypeOK
  BY DEF Init, TypeOK, Overviews, Codes, Idle, Requests, Answers, Unknown
<1>2. gate_or_garage(NoCode) = Unknown
  BY DEF gate_or_garage, product_family, Unknown
<1> QED
  BY <1>1, <1>2 DEF Init, IInv, Truthful, BelievesTruth, Idle, CallBelieves

\* A notification adds the controls of a gate only.
LEMMA SyncTruthful ==
    ASSUME IInv, Sync, operator' = operator,
           Truthful(cached'), BelievesTruth(gate_or_garage(learned'))
    PROVE  controls' \in BOOLEAN /\ (controls' => kind = "gate")
<1>1. controls \in BOOLEAN /\ (controls => kind = "gate")
  BY DEF IInv, TypeOK
<1>2. is_known_gate(cached', learned') => kind = "gate"
  BY KnownGateIsGate
<1>3. is_known_gate(cached', learned') \in BOOLEAN
  BY DEF is_known_gate
<1> QED
  BY <1>1, <1>2, <1>3 DEF Sync

\* Every step keeps IInv, when the messages are truthful.
LEMMA IInvStep == ASSUME FramesTruthful, IInv, [Next]_vars PROVE IInv'
<1> DEFINE Believed == /\ call' \in [Calls -> CallRecords]
                       /\ \A d \in Calls : CallBelieves(call'[d])
<1>0. /\ operator \in Operators /\ lock \in BOOLEAN /\ cached \in Overviews
      /\ learned \in Codes /\ controls \in BOOLEAN
      /\ call \in [Calls -> CallRecords] /\ Truthful(cached)
      /\ BelievesTruth(gate_or_garage(learned)) /\ (controls => kind = "gate")
      /\ \A d \in Calls : CallBelieves(call[d])
  BY DEF IInv, TypeOK, CallRecords, CallBelieves
<1>a. ASSUME operator' = operator, lock' \in BOOLEAN, cached' \in Overviews,
             learned' \in Codes, controls' \in BOOLEAN, Truthful(cached'),
             BelievesTruth(gate_or_garage(learned')), controls' => kind = "gate", Believed
      PROVE  IInv'
  <2>1. TypeOK'
    BY <1>0, <1>a DEF TypeOK, CallRecords
  <2>2. kind' = kind
    BY <1>a DEF kind
  <2>3. \A d \in Calls : CallBelieves(call[d])'
    BY <1>a, <2>2 DEF CallBelieves, BelievesTruth
  <2> QED
    BY <2>1, <2>2, <2>3, <1>a DEF IInv, Truthful, BelievesTruth
<1>b. ASSUME NEW c \in Calls, NEW r \in CallRecords, CallBelieves(r),
             call' = [call EXCEPT ![c] = r]
      PROVE  Believed
  BY <1>0, <1>b
<1>i. Idle \in CallRecords /\ CallBelieves(Idle)
  BY DEF Idle, CallRecords, Requests, Answers, Unknown, CallBelieves
<1>k. learned \in Int \cup {NoCode} /\ gate_or_garage(learned) \in Answers
  BY <1>0, CodesRange, ClassifierRange
<1>r. ASSUME NEW c \in Calls, NEW request \in Requests, request # "pedestrian",
             Resolve(c, request)
      PROVE  Believed
  <2>1. CASE cached # NoOverview
    <3>1. Family(cached, learned) \in Answers /\ BelievesTruth(Family(cached, learned))
      BY <1>0, <1>k, FamilyTruthful
    <3>2. Goes(c, request, Family(cached, learned), gate_or_garage(learned))
      BY <2>1, <1>r DEF Resolve
    <3> QED
      BY <3>1, <3>2, <1>k, <1>r, GoesTruthful
  <2>2. CASE cached = NoOverview
    <3> DEFINE q == [at |-> "resolving", request |-> request, family |-> Unknown,
                     knew |-> gate_or_garage(learned)]
    <3>1. q \in CallRecords /\ CallBelieves(q)
      BY <1>k, <1>r DEF CallRecords, Answers, Unknown, CallBelieves
    <3>2. call' = [call EXCEPT ![c] = q]
      BY <2>2, <1>r DEF Resolve
    <3> QED
      BY <3>1, <3>2, <1>b
  <2> QED
    BY <2>1, <2>2
<1>1. ASSUME NEW f \in operator.broadcasts, SweptFrame(f) PROVE IInv'
  BY <1>0, <1>1, <1>a, IngestTruthful DEF SweptFrame
<1>2. ASSUME NEW f \in operator.broadcasts, StreamedFrame(f) PROVE IInv'
  BY <1>0, <1>2, <1>a, IngestTruthful, SyncTruthful DEF StreamedFrame
<1>3. CASE Updated
  BY <1>0, <1>3, <1>a, SyncTruthful DEF Updated
<1>4. CASE Restart
  <2>1. Truthful(NoOverview)
    BY DEF Truthful
  <2>2. controls' \in BOOLEAN /\ (controls' => kind = "gate")
    BY <1>0, <1>4, <2>1, KnownGateIsGate DEF Restart, is_known_gate
  <2>3. Believed
    BY <1>4, <1>i DEF Restart
  <2>4. NoOverview \in Overviews
    BY DEF Overviews
  <2> QED
    BY <1>0, <1>4, <2>1, <2>2, <2>3, <2>4, <1>a DEF Restart
<1>5. CASE LockedElsewhere
  BY <1>0, <1>5, <1>a DEF LockedElsewhere
<1>6. ASSUME NEW c \in Calls, Open(c) PROVE IInv'
  <2>1. Believed
    BY <1>6, <1>r DEF Open, Requests
  <2> QED
    BY <2>1, <1>0, <1>6, <1>a DEF Open
<1>7. ASSUME NEW c \in Calls, Pedestrian(c) PROVE IInv'
  <2> DEFINE q == [at |-> "sending", request |-> "pedestrian", family |-> Unknown,
                   knew |-> gate_or_garage(learned)]
  <2>1. q \in CallRecords
    BY <1>k DEF CallRecords, Requests, Answers, Unknown
  <2>2. CallBelieves(q)
    BY <1>0, <1>7 DEF Pedestrian, CallBelieves, BelievesTruth
  <2>3. Believed
    BY <2>1, <2>2, <1>7, <1>b DEF Pedestrian
  <2> QED
    BY <2>3, <1>0, <1>7, <1>a DEF Pedestrian
<1>8. ASSUME NEW c \in Calls, NEW wanted \in {"on", "off"}, Turn(c, wanted) PROVE IInv'
  <2>1. Believed
    BY <1>8, <1>r DEF Turn, Requests
  <2> QED
    BY <2>1, <1>0, <1>8, <1>a DEF Turn
<1>9. ASSUME NEW c \in Calls, NEW f \in operator.broadcasts, Fetched(c, f) PROVE IInv'
  <2>1. /\ cached' \in Overviews /\ learned' \in Codes
        /\ Truthful(cached') /\ BelievesTruth(gate_or_garage(learned'))
    BY <1>9, IngestTruthful DEF Fetched
  <2>2. learned' \in Int \cup {NoCode}
    BY <2>1, CodesRange
  <2>3. Family(cached', learned') \in Answers /\ BelievesTruth(Family(cached', learned'))
    BY <2>1, <2>2, FamilyTruthful
  <2>4. call[c].request \in Requests /\ call[c].knew \in Answers
    BY <1>0 DEF CallRecords
  <2>5. call[c].request # "pedestrian"
    BY <1>0, <1>9 DEF Fetched, CallBelieves
  <2>6. Believed
    BY <2>3, <2>4, <2>5, <1>9, GoesTruthful DEF Fetched
  <2>7. controls' \in BOOLEAN /\ (controls' => kind = "gate")
    BY <2>1, <1>9, SyncTruthful DEF Fetched
  <2>8. operator' = operator /\ lock' = lock
    BY <1>9 DEF Fetched
  <2> QED
    BY <2>1, <2>6, <2>7, <2>8, <1>0, <1>a
<1>10. ASSUME NEW c \in Calls, NotFetched(c) PROVE IInv'
  <2>1. call[c].request \in Requests /\ call[c].knew \in Answers
    BY <1>0 DEF CallRecords
  <2>2. call[c].request # "pedestrian"
    BY <1>0, <1>10 DEF NotFetched, CallBelieves
  <2>3. Family(NoOverview, learned) = gate_or_garage(learned)
    BY DEF Family
  <2>4. Believed
    BY <2>1, <2>2, <2>3, <1>0, <1>k, <1>10, GoesTruthful DEF NotFetched
  <2> QED
    BY <2>4, <1>0, <1>10, <1>a DEF NotFetched
<1>11. ASSUME NEW c \in Calls, Delivered(c) PROVE IInv'
  <2> DEFINE q == [call[c] EXCEPT !.at = "sent"]
  <2>1. q \in CallRecords /\ CallBelieves(q)
    BY <1>0, <1>11 DEF Delivered, CallRecords, CallBelieves
  <2>2. call' = [call EXCEPT ![c] = q]
    BY <1>11 DEF Delivered
  <2>3. Believed
    BY <2>1, <2>2, <1>b
  <2> QED
    BY <2>3, <1>0, <1>11, <1>a DEF Delivered
<1>12. ASSUME NEW c \in Calls, Raises(c) \/ NotReadBack(c) PROVE IInv'
  <2>1. Believed
    BY <1>12, <1>i, <1>b DEF Raises, NotReadBack
  <2> QED
    BY <2>1, <1>0, <1>12, <1>a DEF Raises, NotReadBack
<1>13. ASSUME NEW c \in Calls, Acknowledged(c) PROVE IInv'
  <2> DEFINE q == [call[c] EXCEPT !.at = "reading"]
  <2>1. q \in CallRecords /\ CallBelieves(q)
    BY <1>0, <1>13 DEF CallRecords, CallBelieves
  <2>2. call' = [call EXCEPT ![c] = q] \/ call' = [call EXCEPT ![c] = Idle]
    BY <1>13 DEF Acknowledged
  <2>3. Believed
    BY <2>1, <2>2, <1>i, <1>b
  <2> QED
    BY <2>3, <1>0, <1>13, <1>a DEF Acknowledged
<1>14. ASSUME NEW c \in Calls, NEW f \in operator.broadcasts, ReadBack(c, f) PROVE IInv'
  <2>1. Believed
    BY <1>14, <1>i, <1>b DEF ReadBack
  <2> QED
    BY <2>1, <1>0, <1>14, <1>a, IngestTruthful, SyncTruthful DEF ReadBack
<1>15. CASE UNCHANGED vars
  BY <1>0, <1>15, <1>a DEF vars
<1> QED
  BY <1>1, <1>2, <1>3, <1>4, <1>5, <1>6, <1>7, <1>8, <1>9, <1>10, <1>11, <1>12, <1>13,
     <1>14, <1>15 DEF Next

-----------------------------------------------------------------------------
(***************************************************************************)
(* The theorems.                                                           *)
(***************************************************************************)

\* Whatever operators there are, as long as their messages are truthful, what
\* the integration caches, persists and acts upon is true of the operator.
THEOREM BeliefsTrue == ASSUME FramesTruthful PROVE Spec => []IInv
<1>1. IInv /\ [Next]_vars => IInv'
  BY IInvStep
<1> QED
  BY IInvInit, <1>1, PTL DEF Spec

\* The type invariant of GateControl.
THEOREM TypeCorrect == ASSUME FramesTruthful PROVE Spec => []TypeOK
<1>1. IInv => TypeOK
  BY DEF IInv
<1> QED
  BY BeliefsTrue, <1>1, PTL

\* cover._trigger never sends RUN to a gate, on which it toggles Holiday Lock.
THEOREM RunReachesGaragesOnly == ASSUME FramesTruthful PROVE Spec => []RunOnlyToGarages
<1>1. IInv => RunOnlyToGarages
  <2> SUFFICES ASSUME IInv, NEW c \in Calls, Sending(c, {"open"}),
                      ActivationId(c) = ACTIVATION_GDO_RUN
               PROVE  kind = "garage"
    BY DEF RunOnlyToGarages
  <2>1. call[c].family = "garage"
    BY DEF Sending, ActivationId, trigger_activation_id, ACTIVATION_GDO_RUN, ACTIVATION_TRG
  <2>2. BelievesTruth(call[c].family)
    BY DEF IInv, CallBelieves, Sending
  <2> QED
    BY <2>1, <2>2 DEF BelievesTruth, Unknown
<1> QED
  BY BeliefsTrue, <1>1, PTL

\* No gate-only entity exists for a garage, and no Holiday Lock or pedestrian
\* activation is sent to one: switch._gate_mac and the entity factories.
THEOREM GateControlsReachGatesOnly ==
    ASSUME FramesTruthful PROVE Spec => []GateControlsOnlyOnGates
<1>1. IInv => GateControlsOnlyOnGates
  BY DEF IInv, CallBelieves, GateControlsOnlyOnGates, Sending
<1> QED
  BY BeliefsTrue, <1>1, PTL

-----------------------------------------------------------------------------
(***************************************************************************)
(* A known garage opens.  What a call resolves after telemetry gaps is the *)
(* family it began with: codes agree, and what is true leaves no other.    *)
(***************************************************************************)
GarageInv == LearnedFromIt /\ StaysGarage

\* A message never makes the coordinator forget that the operator is a garage.
LEMMA IngestKeepsGarage ==
    ASSUME CodesAgree, IInv, LearnedFromIt, NEW f \in operator.broadcasts, Ingest(f),
           operator' = operator
    PROVE  /\ LearnedFromIt'
           /\ gate_or_garage(learned) = "garage" => gate_or_garage(learned') = "garage"
<1>1. learned' = IF f.code = NoCode THEN learned ELSE f.code
  BY DEF Ingest, Remembered
<1>2. LearnedFromIt'
  BY <1>1 DEF LearnedFromIt
<1>3. ASSUME gate_or_garage(learned) = "garage" PROVE gate_or_garage(learned') = "garage"
  <2>1. learned # NoCode
    BY <1>3 DEF gate_or_garage, product_family, Unknown
  <2>2. PICK g \in operator.broadcasts : g.code = learned
    BY <2>1 DEF LearnedFromIt
  <2>3. kind = "garage"
    BY <1>3 DEF IInv, BelievesTruth, Unknown
  <2>4. operator.broadcasts \in Garages
    BY <2>3 DEF IInv, TypeOK, Operators, kind
  <2> QED
    BY <1>1, <1>3, <2>1, <2>2, <2>4 DEF CodesAgree
<1> QED
  BY <1>2, <1>3

\* The family of an operator that is known to be a garage is "garage".
LEMMA KnownGarageResolved ==
    ASSUME NEW ov, NEW code, Truthful(ov), gate_or_garage(code) = "garage", kind = "garage"
    PROVE  Family(ov, code) = "garage"
  BY DEF Family, Truthful

LEMMA GarageStep == ASSUME CodesAgree, FramesTruthful, IInv, GarageInv, [Next]_vars PROVE GarageInv'
<1> DEFINE Ok(r) == r.knew = "garage" =>
                        /\ gate_or_garage(learned') = "garage"
                        /\ r.at \in {"sending", "sent"} /\ r.request = "open" => r.family = "garage"
<1>0. /\ call \in [Calls -> CallRecords] /\ Truthful(cached)
      /\ BelievesTruth(gate_or_garage(learned)) /\ LearnedFromIt
  BY DEF IInv, TypeOK, CallRecords, GarageInv
<1>g. gate_or_garage(learned) = "garage" => kind = "garage"
  BY <1>0 DEF BelievesTruth, Unknown
<1>k. ASSUME gate_or_garage(learned) = "garage" => gate_or_garage(learned') = "garage"
      PROVE  /\ Ok(Idle)
             /\ \A d \in Calls : Ok(call[d])
             /\ \A d \in Calls : call[d].knew = "garage" => gate_or_garage(learned') = "garage"
  BY <1>k DEF GarageInv, StaysGarage, Idle, Unknown
<1>a. ASSUME operator' = operator, LearnedFromIt', \A d \in Calls : Ok(call'[d]) PROVE GarageInv'
  BY <1>a DEF GarageInv, StaysGarage
<1>b. ASSUME NEW c \in Calls, NEW r \in CallRecords, Ok(r), call' = [call EXCEPT ![c] = r],
             gate_or_garage(learned) = "garage" => gate_or_garage(learned') = "garage"
      PROVE  \A d \in Calls : Ok(call'[d])
  BY <1>0, <1>b, <1>k
<1>h. ASSUME NEW c \in Calls, NEW request \in Requests,
             NEW family \in Answers, NEW knew \in Answers,
             Goes(c, request, family, knew),
             knew = "garage" => family = "garage" /\ gate_or_garage(learned') = "garage",
             gate_or_garage(learned) = "garage" => gate_or_garage(learned') = "garage"
      PROVE  \A d \in Calls : Ok(call'[d])
  <2> DEFINE r == [at |-> "sending", request |-> request, family |-> family, knew |-> knew]
  <2>1. r \in CallRecords /\ Idle \in CallRecords
    BY DEF CallRecords, Idle, Requests, Answers, Unknown
  <2>2. Ok(r) /\ Ok(Idle)
    BY <1>h DEF Idle, Unknown
  <2>3. call' = [call EXCEPT ![c] = r] \/ call' = [call EXCEPT ![c] = Idle]
    BY <1>h DEF Goes
  <2> QED
    BY <2>1, <2>2, <2>3, <1>b, <1>h
<1>u. learned' = learned /\ operator' = operator => LearnedFromIt'
  BY <1>0 DEF LearnedFromIt
<1>f. learned \in Int \cup {NoCode} /\ gate_or_garage(learned) \in Answers
      /\ Family(cached, learned) \in Answers
  BY <1>0, CodesRange, ClassifierRange, FamilyTruthful DEF IInv, TypeOK
<1>r. ASSUME NEW c \in Calls, NEW request \in Requests, Resolve(c, request), learned' = learned
      PROVE  \A d \in Calls : Ok(call'[d])
  <2>1. CASE cached # NoOverview
    <3>1. gate_or_garage(learned) = "garage" => Family(cached, learned) = "garage"
      BY <1>0, <1>g, KnownGarageResolved
    <3> QED
      BY <2>1, <3>1, <1>r, <1>f, <1>h DEF Resolve
  <2>2. CASE cached = NoOverview
    <3> DEFINE q == [at |-> "resolving", request |-> request, family |-> Unknown,
                     knew |-> gate_or_garage(learned)]
    <3>1. q \in CallRecords /\ Ok(q) /\ call' = [call EXCEPT ![c] = q]
      BY <2>2, <1>r, <1>f DEF Resolve, CallRecords, Answers, Unknown
    <3> QED
      BY <3>1, <1>r, <1>b
  <2> QED
    BY <2>1, <2>2
<1>1. ASSUME NEW f \in operator.broadcasts, SweptFrame(f) \/ StreamedFrame(f) PROVE GarageInv'
  BY <1>0, <1>1, <1>a, <1>k, IngestKeepsGarage DEF SweptFrame, StreamedFrame
<1>2. CASE Updated \/ LockedElsewhere
  BY <1>0, <1>2, <1>a, <1>k, <1>u DEF Updated, LockedElsewhere
<1>3. CASE Restart
  BY <1>0, <1>3, <1>a, <1>u DEF Restart, Idle, Unknown
<1>4. ASSUME NEW c \in Calls, Open(c) \/ Turn(c, "on") \/ Turn(c, "off") PROVE GarageInv'
  <2>1. learned' = learned /\ operator' = operator
    BY <1>4 DEF Open, Turn
  <2>2. PICK request \in Requests : Resolve(c, request)
    BY <1>4 DEF Open, Turn, Requests
  <2> QED
    BY <2>1, <2>2, <1>a, <1>r, <1>u
<1>5. ASSUME NEW c \in Calls, Pedestrian(c) PROVE GarageInv'
  <2> DEFINE q == [at |-> "sending", request |-> "pedestrian", family |-> Unknown,
                   knew |-> gate_or_garage(learned)]
  <2>1. learned' = learned /\ operator' = operator /\ call' = [call EXCEPT ![c] = q]
    BY <1>5 DEF Pedestrian
  <2>2. q \in CallRecords /\ Ok(q)
    BY <2>1, <1>f DEF CallRecords, Requests, Answers, Unknown
  <2> QED
    BY <2>1, <2>2, <1>a, <1>b, <1>u
<1>6. ASSUME NEW c \in Calls, NEW f \in operator.broadcasts, Fetched(c, f) PROVE GarageInv'
  <2>1. /\ LearnedFromIt' /\ operator' = operator /\ learned' \in Int \cup {NoCode}
        /\ Truthful(cached') /\ BelievesTruth(gate_or_garage(learned'))
        /\ gate_or_garage(learned) = "garage" => gate_or_garage(learned') = "garage"
    BY <1>0, <1>6, IngestTruthful, IngestKeepsGarage, CodesRange DEF Fetched
  <2>2. call[c].request \in Requests /\ call[c].knew \in Answers
    BY <1>0 DEF CallRecords
  <2>3. Family(cached', learned') \in Answers
    BY <2>1, FamilyTruthful
  <2>4. call[c].knew = "garage" => gate_or_garage(learned') = "garage" /\ kind = "garage"
    BY <2>1, <1>g, <1>k DEF GarageInv, StaysGarage
  <2>5. call[c].knew = "garage" => Family(cached', learned') = "garage"
    BY <2>1, <2>4, KnownGarageResolved
  <2>6. Goes(c, call[c].request, Family(cached', learned'), call[c].knew)
    BY <1>6 DEF Fetched
  <2>7. \A d \in Calls : Ok(call'[d])
    BY <2>1, <2>2, <2>3, <2>4, <2>5, <2>6, <1>h
  <2> QED
    BY <2>1, <2>7, <1>a
<1>7. ASSUME NEW c \in Calls, NotFetched(c) PROVE GarageInv'
  <2>1. call[c].request \in Requests /\ call[c].knew \in Answers
    BY <1>0 DEF CallRecords
  <2>2. Family(NoOverview, learned) = gate_or_garage(learned)
    BY DEF Family
  <2>3. learned' = learned /\ operator' = operator
        /\ Goes(c, call[c].request, gate_or_garage(learned), call[c].knew)
    BY <2>2, <1>7 DEF NotFetched
  <2>4. call[c].knew = "garage" => gate_or_garage(learned) = "garage"
    BY DEF GarageInv, StaysGarage
  <2>5. \A d \in Calls : Ok(call'[d])
    BY <2>1, <2>3, <2>4, <1>f, <1>h
  <2> QED
    BY <2>3, <2>5, <1>a, <1>u
<1>8. ASSUME NEW c \in Calls, Delivered(c) \/ Acknowledged(c) \/ Raises(c) \/ NotReadBack(c)
      PROVE  GarageInv'
  <2>1. learned' = learned /\ operator' = operator
    BY <1>8 DEF Delivered, Acknowledged, Raises, NotReadBack
  <2>2. PICK r \in {Idle, [call[c] EXCEPT !.at = "sent"], [call[c] EXCEPT !.at = "reading"]} :
            call' = [call EXCEPT ![c] = r] /\ (r.at = "sent" => call[c].at = "sending")
    BY <1>0, <1>8 DEF Delivered, Acknowledged, Raises, NotReadBack, Idle, CallRecords
  <2>3. r \in CallRecords
    BY <1>0, <2>2 DEF CallRecords, Idle, Requests, Answers, Unknown
  <2>4. Ok(r)
    BY <1>0, <2>1, <2>2, <1>k DEF CallRecords
  <2> QED
    BY <2>1, <2>2, <2>3, <2>4, <1>a, <1>b, <1>u
<1>9. ASSUME NEW c \in Calls, NEW f \in operator.broadcasts, ReadBack(c, f) PROVE GarageInv'
  <2>1. /\ LearnedFromIt' /\ operator' = operator /\ call' = [call EXCEPT ![c] = Idle]
        /\ gate_or_garage(learned) = "garage" => gate_or_garage(learned') = "garage"
    BY <1>0, <1>9, IngestKeepsGarage DEF ReadBack
  <2>2. Idle \in CallRecords
    BY DEF CallRecords, Idle, Requests, Answers, Unknown
  <2> QED
    BY <2>1, <2>2, <1>a, <1>b, <1>k
<1>10. CASE UNCHANGED vars
  BY <1>0, <1>10, <1>a, <1>k, <1>u DEF vars
<1> QED
  BY <1>1, <1>2, <1>3, <1>4, <1>5, <1>6, <1>7, <1>8, <1>9, <1>10 DEF Next

\* entity._resolve_family: a garage whose code the entry has persisted is opened with RUN,
\* with its telemetry cached, fetched or missing, and after any number of restarts.
THEOREM PersistedGarageOpens ==
    ASSUME FramesTruthful, CodesAgree PROVE Spec => []KnownGarageOpens
<1>1. Init => GarageInv
  BY DEF Init, GarageInv, LearnedFromIt, StaysGarage, Idle, Unknown
<1>2. IInv /\ GarageInv /\ [Next]_vars => GarageInv'
  BY GarageStep
<1>3. GarageInv => KnownGarageOpens
  BY DEF GarageInv, StaysGarage, KnownGarageOpens, Sending, ActivationId, trigger_activation_id
<1> QED
  BY BeliefsTrue, <1>1, <1>2, <1>3, PTL DEF Spec

-----------------------------------------------------------------------------
(***************************************************************************)
(* The lives of the entry: EntryLifecycle, with any operators and any      *)
(* number of coordinators.                                                 *)
(***************************************************************************)
LEMMA EntryTypeOKStep == EntryTypeOK /\ [EntryNext]_entryVars => EntryTypeOK'
<1> SUFFICES ASSUME EntryTypeOK, [EntryNext]_entryVars PROVE EntryTypeOK'
  OBVIOUS
<1> USE DEF EntryTypeOK
<1>1. CASE SetUp
  BY <1>1 DEF SetUp, Setup
<1>2. CASE SetupFails \/ SetupDone \/ OptionsChange \/ Reload \/ UserUnload
  BY <1>2 DEF SetupFails, SetupDone, OptionsChange, Reload, UserUnload, Unload
<1>3. CASE UnloadDone
  BY <1>3 DEF UnloadDone
<1>4. ASSUME NEW g \in Coordinators, NEW s \in Serials, Learn(g, s) PROVE EntryTypeOK'
  BY <1>4 DEF Learn, Listening
<1>5. ASSUME NEW s \in Serials, Telemetry(s) \/ Press(s) PROVE EntryTypeOK'
  BY <1>4, <1>5 DEF Telemetry, Press
<1>6. ASSUME NEW g \in Coordinators, NEW s \in Serials,
             FollowFrame(g, s) \/ FollowEnds(g, s)
      PROVE  EntryTypeOK'
  BY <1>4, <1>6 DEF FollowFrame, FollowEnds
<1>7. CASE UNCHANGED entryVars
  BY <1>7 DEF entryVars
<1> QED
  BY <1>1, <1>2, <1>3, <1>5, <1>6, <1>7 DEF EntryNext

(***************************************************************************)
(* A set-up takes a coordinator that nothing follows for, so no task of an *)
(* earlier life counts as one of the new coordinator's.                    *)
(***************************************************************************)
LEMMA OnlyThreadsOutliveStep ==
    EntryTypeOK /\ OnlyThreadsOutlive /\ [EntryNext]_entryVars => OnlyThreadsOutlive'
<1> SUFFICES ASSUME EntryTypeOK, OnlyThreadsOutlive, [EntryNext]_entryVars,
                    NEW g \in Coordinators, NEW s \in Serials,
                    follow'[g][s] = "following"
             PROVE  g = current' /\ Listening'
  BY DEF OnlyThreadsOutlive
<1> USE DEF EntryTypeOK, OnlyThreadsOutlive, Listening
<1>1. CASE SetUp
  BY <1>1 DEF SetUp, Setup
<1>2. CASE SetupFails \/ SetupDone \/ OptionsChange \/ Reload \/ UserUnload
  BY <1>2 DEF SetupFails, SetupDone, OptionsChange, Reload, UserUnload, Unload
<1>3. CASE UnloadDone
  BY <1>3 DEF UnloadDone
<1>4. ASSUME NEW o \in Serials, Telemetry(o) \/ Press(o)
      PROVE  g = current' /\ Listening'
  BY <1>4 DEF Telemetry, Press, Learn
<1>5. ASSUME NEW h \in Coordinators, NEW o \in Serials,
             FollowFrame(h, o) \/ FollowEnds(h, o)
      PROVE  g = current' /\ Listening'
  BY <1>5 DEF FollowFrame, FollowEnds, Learn
<1>6. CASE UNCHANGED entryVars
  BY <1>6 DEF entryVars
<1> QED
  BY <1>1, <1>2, <1>3, <1>4, <1>5, <1>6 DEF EntryNext

\* The entry's state, its coordinators, their codes and follows keep their types.
THEOREM EntryTypeCorrect == EntrySpec => []EntryTypeOK
<1>1. EntryInit => EntryTypeOK
  BY DEF EntryInit, EntryTypeOK
<1> QED
  BY <1>1, EntryTypeOKStep, PTL DEF EntrySpec

\* Only the coordinator of an entry that is loaded, or about to be unloaded, has
\* follow tasks (async_shutdown), however many lives the entry has had.
THEOREM UnloadLeavesThreadsOnly == EntrySpec => []OnlyThreadsOutlive
<1>1. EntryInit => EntryTypeOK /\ OnlyThreadsOutlive
  BY DEF EntryInit, EntryTypeOK, OnlyThreadsOutlive
<1> QED
  BY <1>1, EntryTypeOKStep, OnlyThreadsOutliveStep, PTL DEF EntrySpec
=============================================================================
