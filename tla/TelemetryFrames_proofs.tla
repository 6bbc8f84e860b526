----------------------- MODULE TelemetryFrames_proofs -----------------------
(***************************************************************************)
(* The decoders of one read and the sessions it shares the broker with.    *)
(* The choice of a decoder is proved safe for every length and every code, *)
(* beyond those on the boundaries of the tables; the identities are proved *)
(* to keep any number of sessions apart.                                   *)
(***************************************************************************)
EXTENDS TelemetryFrames, BrokerSessions, TLAPS

-----------------------------------------------------------------------------
(***************************************************************************)
(* The tables of enums.py and mqtt_remote.py.                              *)
(***************************************************************************)
LEMMA Families3 ==
    ASSUME NEW code \in Int \cup {NoCode}
    PROVE  product_family(code) \in {"slider", "swing", "garage", Unknown}
  BY NoCodeAssumption DEF product_family, Normalised, Unknown

\* What the normalisation and the table of ProductCode make of each code.
LEMMA CodeTable ==
    ASSUME NEW code \in Int \cup {NoCode}
    PROVE  /\ product_family(code) = "garage" <=> code = 39
           /\ product_family(code) = "swing"  <=> code = 25
           /\ product_family(code) = "slider" <=> code \in {32, 41, 42, 43}
<1>1. CASE code = NoCode
  BY <1>1, NoCodeAssumption DEF product_family, Unknown
<1>2. CASE code \in Int /\ code # NoCode
  BY <1>2 DEF product_family, Normalised, Unknown
<1> QED
  BY <1>1, <1>2, NoCodeAssumption

\* The layout of the reported family, with the length it needs.
LEMMA FamilyLayout ==
    ASSUME NEW length \in Nat, NEW code \in Int \cup {NoCode}
    PROVE  LET family == product_family(code) IN
           /\ family = "garage" =>
                 /\ HasFamilyLayout(length, code) <=> length >= 24
                 /\ FamilyLayouts[family] = Decoder("sdo5", "sdo5")
           /\ family = "slider" =>
                 /\ HasFamilyLayout(length, code) <=> length >= 36
                 /\ FamilyLayouts[family] = Decoder("v2", "v2")
           /\ family = "swing" =>
                 /\ HasFamilyLayout(length, code) <=> length >= 38
                 /\ FamilyLayouts[family] = Decoder("vx", "vx")
           /\ family = Unknown => ~HasFamilyLayout(length, code)
  BY DEF HasFamilyLayout, FamilyLayouts, LayoutMinLen, Decoder, Unknown

\* The decoder that is chosen, if any, reads no further than the body.
LEMMA DecoderFits ==
    ASSUME NEW length \in Nat, NEW code \in Int \cup {NoCode}, NEW strict \in BOOLEAN,
           layout_for(length, code, strict) # Dropped
    PROVE  BytesRead(layout_for(length, code, strict).layout, length) <= length
<1>1. CASE HasFamilyLayout(length, code)
  <2>1. layout_for(length, code, strict) = FamilyLayouts[product_family(code)]
    BY <1>1 DEF layout_for
  <2> QED
    BY <1>1, <2>1, Families3, FamilyLayout DEF Decoder, BytesRead
<1>2. CASE ~HasFamilyLayout(length, code) /\ length \in KnownLengths
  <2>1. layout_for(length, code, strict) = BodyLayout(length)
    BY <1>2 DEF layout_for
  <2> QED
    BY <1>2, <2>1 DEF KnownLengths, BodyLayout, Decoder, BytesRead
<1>3. CASE ~HasFamilyLayout(length, code) /\ length \notin KnownLengths
  <2>1. length >= 24 /\ layout_for(length, code, strict) = NearestLayout(length)
    BY <1>3 DEF layout_for
  <2> QED
    BY <2>1 DEF NearestLayout, Decoder, BytesRead
<1> QED
  BY <1>1, <1>2, <1>3

\* A body that is tagged with a garage's code is read with the garage's layout or not
\* at all, whatever gate its length would suit.
LEMMA GarageLayout ==
    ASSUME NEW length \in Nat, NEW code \in Int \cup {NoCode}, NEW strict \in BOOLEAN,
           product_family(code) = "garage", layout_for(length, code, strict) # Dropped
    PROVE  layout_for(length, code, strict).family = "sdo5"
<1>1. CASE length >= 24
  BY <1>1, FamilyLayout DEF layout_for, Decoder
<1>2. CASE length < 24
  BY <1>2, FamilyLayout DEF layout_for, KnownLengths
<1> QED
  BY <1>1, <1>2

LEMMA DecoderFamilies ==
    ASSUME NEW length \in Nat, NEW code \in Int \cup {NoCode}, NEW strict \in BOOLEAN,
           layout_for(length, code, strict) # Dropped
    PROVE  layout_for(length, code, strict).family \in Families
<1>1. HasFamilyLayout(length, code) => FamilyLayouts[product_family(code)].family \in Families
  BY Families3, FamilyLayout DEF Decoder, Families, Layouts
<1>2. BodyLayout(length).family \in Families /\ NearestLayout(length).family \in Families
  BY DEF BodyLayout, NearestLayout, Decoder, Families, Layouts
<1> QED
  BY <1>1, <1>2 DEF layout_for

-----------------------------------------------------------------------------
(***************************************************************************)
(* One read.                                                               *)
(***************************************************************************)
LEMMA MessageTypes ==
    ASSUME NEW m \in Messages
    PROVE  m.length \in Nat /\ m.code \in Int \cup {NoCode} /\ (m.topic = "sysTpUrc") \in BOOLEAN
<1>1. CASE m = NoMessage
  BY <1>1 DEF NoMessage
<1>2. CASE m \in [topic : Topics, length : Lengths, code : Codes]
  BY <1>2, LengthsAssumption, CodesAssumption
<1> QED
  BY <1>1, <1>2 DEF Messages

ReadInv == TypeOK /\ GarageReadAsGarage

LEMMA ReadStep == ReadInv /\ [Next]_vars => ReadInv'
<1> SUFFICES ASSUME ReadInv, [Next]_vars PROVE ReadInv'
  OBVIOUS
<1> USE DEF ReadInv
<1>1. ASSUME NEW m \in Messages, OverviewArrives(m) PROVE ReadInv'
  <2>1. message' \in Messages /\ UNCHANGED <<at, answered, result>>
    BY <1>1 DEF OverviewArrives
  <2>2. CASE DecoderOf(m) = Dropped
    BY <1>1, <2>1, <2>2 DEF OverviewArrives, TypeOK, GarageReadAsGarage
  <2>3. CASE DecoderOf(m) # Dropped
    <3> DEFINE ov == [family |-> DecoderOf(m).family, code |-> m.code]
    <3>1. holder' = ov
      BY <1>1, <2>3 DEF OverviewArrives
    <3>2. m.code \in Codes
      BY <1>1 DEF Messages, NoMessage, OverviewArrives
    <3>3. ov.family \in Families
      BY <2>3, MessageTypes, DecoderFamilies DEF DecoderOf
    <3>4. is_garage(ov) => ov.family = "sdo5"
      <4>1. CASE product_family(m.code) = "garage"
        BY <2>3, <4>1, MessageTypes, GarageLayout DEF DecoderOf
      <4>2. CASE product_family(m.code) # "garage"
        BY <4>2, MessageTypes, Families3 DEF is_garage, gate_or_garage, Unknown
      <4> QED
        BY <4>1, <4>2
    <3>5. ov \in Overviews
      BY <3>2, <3>3 DEF Overviews
    <3> QED
      BY <2>1, <3>1, <3>4, <3>5 DEF TypeOK, GarageReadAsGarage
  <2> QED
    BY <2>2, <2>3
<1>2. CASE ConnectionAnswered \/ Subscribed \/ Woken \/ TimedOut \/ Return
  BY <1>2 DEF ConnectionAnswered, Subscribed, Woken, TimedOut, Return, TypeOK, GarageReadAsGarage,
              Overviews
<1>3. CASE NextRead
  BY <1>3 DEF NextRead, TypeOK, GarageReadAsGarage, Overviews, Messages
<1>4. CASE UNCHANGED vars
  BY <1>4 DEF vars, TypeOK, GarageReadAsGarage
<1> QED
  BY <1>1, <1>2, <1>3, <1>4 DEF Next

\* The overview a read holds and returns is one of a family that is decoded, and that
\* of a garage is on the garage's scales (layout_for, DeviceOverview.is_garage).
THEOREM GaragesReadAsGarages == Spec => [](TypeOK /\ GarageReadAsGarage)
<1>1. Init => ReadInv
  BY DEF Init, ReadInv, TypeOK, GarageReadAsGarage, Overviews, Messages
<1> QED
  BY <1>1, ReadStep, PTL DEF Spec, ReadInv

\* parse_device_overview never raises struct.error in the network thread.
THEOREM BodiesNotOverrun == Spec => []BodyNotOverrun
<1>1. TypeOK => BodyNotOverrun
  BY MessageTypes, DecoderFits DEF TypeOK, BodyNotOverrun, DecoderOf
<1> QED
  BY <1>1, GaragesReadAsGarages, PTL

\* The classifiers agree with the codes operators report, for every integer.
THEOREM CodesClassified == Spec => []ClassifiedByReportedCode
<1>1. TypeOK => ClassifiedByReportedCode
  BY MessageTypes, CodeTable DEF TypeOK, ClassifiedByReportedCode
<1> QED
  BY <1>1, GaragesReadAsGarages, PTL

-----------------------------------------------------------------------------
(***************************************************************************)
(* The sessions of an account: BrokerSessions, with any sets of sessions.  *)
(***************************************************************************)
LEMMA SessionsTypeStep == BrokerTypeOK /\ [BrokerNext]_brokerVars => BrokerTypeOK'
<1> SUFFICES ASSUME BrokerTypeOK, [BrokerNext]_brokerVars PROVE BrokerTypeOK'
  OBVIOUS
<1> USE DEF BrokerTypeOK, Certificate, Unaccepted, Stages, clientVars
<1>1. CASE Ages \/ CachedSpoils \/ AppMoves
  BY <1>1 DEF Ages, CachedSpoils, AppMoves
<1>2. CASE Reload
  BY <1>2 DEF Reload
<1>3. ASSUME NEW s \in Sessions,
             \/ Begin(s) \/ NotFetched(s)
             \/ \E c \in {"good"} \cup Unaccepted : Fetched(s, c)
      PROVE  BrokerTypeOK'
  BY <1>3 DEF Begin, BeginCached, BeginUncached, NotFetched, Fetched
<1>4. ASSUME NEW s \in Sessions,
             \/ Run(s) \/ Invalidate(s) \/ Unreachable(s)
             \/ UsedSpoils(s) \/ Ends(s)
      PROVE  BrokerTypeOK'
  BY <1>4 DEF Run, Connects, Refused, Rejected, NotAccepted, Invalidate, GivesUp,
              Unreachable, UsedSpoils, Ends
<1>5. ASSUME NEW s \in Telemetry, LeftConnects(s) \/ LeftEnds(s)
      PROVE  BrokerTypeOK'
  BY <1>5 DEF LeftConnects, LeftEnds
<1>6. CASE UNCHANGED brokerVars
  BY <1>6 DEF brokerVars
<1> QED
  BY <1>1, <1>2, <1>3, <1>4, <1>5, <1>6 DEF BrokerNext

\* The certificates and the stages of every session keep their types.
THEOREM SessionsTypeCorrect == BrokerSpec => []BrokerTypeOK
<1>1. BrokerInit => BrokerTypeOK
  BY DEF BrokerInit, BrokerTypeOK, Certificate, Stages
<1> QED
  BY <1>1, SessionsTypeStep, PTL DEF BrokerSpec

\* A duplicate is one of the same kind: the client ids of listeners and of reads and
\* follows differ, and both from the plain one of the phone app and of activations.
LEMMA DuplicateOfItsKind ==
    ASSUME NEW s, Duplicate(s)
    PROVE  \E t \in Telemetry :
               /\ OfOneKind(s, t)
               /\ (t # s /\ stage[t] = "connected") \/ left[t] = "connected"
  BY DEF Duplicate, Identity, OfOneKind

\* A listener is refused because of a listener's thread only, a read or a follow
\* because of another one: the ":ha" and ":ha-r" suffixes keep the phone app, the
\* activations and the other kind out of the way, for any number of sessions.
THEOREM KindsKeptApart == BrokerSpec => RefusedByItsOwnKind
<1>1. ASSUME BrokerTypeOK, [BrokerNext]_brokerVars, NEW s \in Sessions,
             stage'[s] = "refused", stage[s] # "refused"
      PROVE  Duplicate(s)
  <2>1. stage \in [Sessions -> Stages]
    BY <1>1 DEF BrokerTypeOK
  <2>2. ASSUME NEW q \in Sessions, Run(q) PROVE Duplicate(s)
    BY <1>1, <2>1, <2>2 DEF Run, Connects, Refused, Rejected, NotAccepted, GivesUp
  <2>3. CASE Reload
    BY <1>1, <2>3 DEF Reload
  <2>4. ASSUME NEW q \in Sessions,
               \/ Begin(q) \/ NotFetched(q) \/ Invalidate(q)
               \/ Unreachable(q) \/ UsedSpoils(q) \/ Ends(q)
               \/ \E c \in {"good"} \cup Unaccepted : Fetched(q, c)
        PROVE  FALSE
    BY <1>1, <2>1, <2>4 DEF Begin, BeginCached, BeginUncached,
       NotFetched, Fetched, Invalidate, GivesUp, Unreachable,
       UsedSpoils, Ends
  <2>5. UNCHANGED stage => FALSE
    BY <1>1
  <2> QED
    BY <1>1, <2>2, <2>3, <2>4, <2>5
       DEF BrokerNext, Ages, CachedSpoils, AppMoves, LeftConnects,
           LeftEnds, brokerVars, clientVars
<1>2. BrokerTypeOK /\ [BrokerNext]_brokerVars
        => [\A s \in Sessions :
               stage'[s] = "refused" /\ stage[s] # "refused" =>
                   \E t \in Telemetry :
                       /\ OfOneKind(s, t)
                       /\ (t # s /\ stage[t] = "connected") \/ left[t] = "connected"]_brokerVars
  BY <1>1, DuplicateOfItsKind
<1> QED
  BY <1>2, SessionsTypeCorrect, PTL DEF BrokerSpec, RefusedByItsOwnKind
=============================================================================
