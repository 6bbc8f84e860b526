--------------------------- MODULE OperatorFamily ---------------------------
(***************************************************************************)
(* What kind of operator is this?  The classifiers of api/enums.py and of  *)
(* DeviceOverview, and the choice of a decoder for a deviceOverview body   *)
(* (api/mqtt_remote.py).  A body is reduced to its length, a decoded       *)
(* overview to the family whose layout and scales it was read with and the *)
(* product code ("PC") that the operator tagged the message with.          *)
(***************************************************************************)
EXTENDS Integers

CONSTANT NoCode   \* the message carried no usable PC property

ASSUME NoCodeAssumption == NoCode \notin Int

Layouts  == {"sdo5", "v2", "vx"}
Families == Layouts \cup {"vx52"}
GateFamilies == Families \ {"sdo5"}

-----------------------------------------------------------------------------
(***************************************************************************)
(* enums.py.  The reported code is normalised before the table lookup.     *)
(***************************************************************************)
Unknown == "unknown"

\* Fault: the first code of the shifted range is not shifted.
FaultNormalised(c) ==
    IF c < 28 \/ c = 41 THEN c ELSE IF c = 34 \/ c > 43 THEN 0 ELSE c + 2

Normalised(c) ==
    IF c < 28 THEN c ELSE IF c = 34 \/ c > 43 THEN 0 ELSE c + 2

product_family(c) ==
    IF c = NoCode THEN Unknown
    ELSE IF c < 1 THEN Unknown
    ELSE IF Normalised(c) \in {34, 43, 44, 45} THEN "slider"
    ELSE IF Normalised(c) = 25 THEN "swing"
    ELSE IF Normalised(c) = 41 THEN "garage"
    ELSE Unknown

gate_or_garage(c) ==
    LET family == product_family(c) IN
    IF family \in {"slider", "swing"} THEN "gate" ELSE family

-----------------------------------------------------------------------------
(***************************************************************************)
(* mqtt_remote.py.  layout_for gives [layout, family], or Dropped when    *)
(* the body is refused with ValueError.                                    *)
(***************************************************************************)
Decoder(layout, family) == [layout |-> layout, family |-> family]
Dropped == Decoder("none", "none")

\* _FAMILY_LAYOUTS, _LAYOUT_MIN_LEN and _BODY_LAYOUTS.
FamilyLayouts == [garage |-> Decoder("sdo5", "sdo5"),
                  slider |-> Decoder("v2", "v2"),
                  swing  |-> Decoder("vx", "vx")]

LayoutMinLen == [sdo5 |-> 24, v2 |-> 36, vx |-> 38]

KnownLengths == {24, 36, 38, 52, 64}

BodyLayout(length) ==
    IF length = 24 THEN Decoder("sdo5", "sdo5")
    ELSE IF length = 38 THEN Decoder("vx", "vx")
    ELSE IF length = 52 THEN Decoder("vx", "vx52")
    ELSE Decoder("v2", "v2")

NearestLayout(length) ==
    LET nearest == IF length < 36 THEN "sdo5" ELSE IF length < 38 THEN "v2" ELSE "vx" IN
    Decoder(nearest, nearest)

\* Fault: the reported family is used whatever the length of the body.
FaultNoMinimum(length, code) == product_family(code) \in DOMAIN FamilyLayouts

\* The layout of the reported family, if there is one and the body is long enough.
HasFamilyLayout(length, code) ==
    LET family == product_family(code) IN
    /\ family \in DOMAIN FamilyLayouts
    /\ length >= LayoutMinLen[FamilyLayouts[family].layout]

\* Fault: the length of the body is looked up before the reported family.
FaultLengthFirst(length, code, strict) ==
    IF length \in KnownLengths THEN BodyLayout(length)
    ELSE IF HasFamilyLayout(length, code) THEN FamilyLayouts[product_family(code)]
    ELSE IF ~strict /\ length >= 24 THEN NearestLayout(length)
    ELSE Dropped

layout_for(length, code, strict) ==
    IF HasFamilyLayout(length, code) THEN FamilyLayouts[product_family(code)]
    ELSE IF length \in KnownLengths THEN BodyLayout(length)
    ELSE IF ~strict /\ length >= 24 THEN NearestLayout(length)
    ELSE Dropped

\* The last byte of the body, plus one, that parse_device_overview reads.
BytesRead(layout, length) ==
    IF layout = "v2" THEN 36
    ELSE IF layout = "vx" THEN 38
    ELSE IF length >= 28 THEN 28 ELSE 16

-----------------------------------------------------------------------------
(***************************************************************************)
(* DeviceOverview.is_garage and .is_gate: the reported code, if any, and   *)
(* the shape of the frame otherwise.                                       *)
(***************************************************************************)
is_garage(ov) ==
    LET reported == gate_or_garage(ov.code) IN
    IF reported # Unknown THEN reported = "garage" ELSE ov.family = "sdo5"

is_gate(ov) ==
    LET reported == gate_or_garage(ov.code) IN
    IF reported # Unknown THEN reported = "gate"
    ELSE ov.code = NoCode /\ ov.family \in GateFamilies

=============================================================================
