---------------------------- MODULE GateControl ----------------------------
(***************************************************************************)
(* Which activation reaches a Wi-Fi operator.  Activation id 1 opens a     *)
(* garage door but toggles Holiday Lock on a gate, so the cover, the       *)
(* pedestrian button and the mode switch (cover.py, button.py, switch.py)  *)
(* first classify the operator from its telemetry and from the product     *)
(* code the coordinator has persisted (entity.py, coordinator.py).         *)
(*                                                                         *)
(* One operator, as classification is per serial, and several service      *)
(* calls that Home Assistant runs concurrently.  The operator's true kind  *)
(* is chosen initially and never changes, and so are the messages it may   *)
(* broadcast.  A call without a MAC raises before any of this and is left  *)
(* out.                                                                    *)
(***************************************************************************)
EXTENDS OperatorFamily

CONSTANTS
    Calls,    \* service calls that may be in progress together
    Gates,    \* gate operators, each the set of [length, code] it broadcasts
    Garages   \* garage operators, likewise

Frames == [length : Nat, code : Int \cup {NoCode}]

ASSUME FramesAssumption ==
    \A f \in UNION (Gates \cup Garages) : f \in Frames /\ f.length >= 24

NoOverview == [family |-> "none", code |-> NoCode, lock |-> FALSE]
Codes == {f.code : f \in UNION (Gates \cup Garages)} \cup {NoCode}
Overviews == [family : Families, code : Codes, lock : BOOLEAN] \cup {NoOverview}

ACTIVATION_GDO_RUN == 1    \* Holiday Lock on a gate
ACTIVATION_TRG     == 34
ACTIVATION_PED     == 35

Requests == {"open", "pedestrian", "on", "off"}
Answers  == {"garage", "gate", Unknown}
Idle == [at |-> "idle", request |-> "open", family |-> Unknown, knew |-> Unknown]

VARIABLES
    operator,   \* external: its true kind and the messages it may broadcast
    lock,       \* external: its Holiday Lock
    cached,     \* the overview in coordinator._overview and coordinator.data
    learned,    \* coordinator._reported_codes, persisted in the entry
    controls,   \* the gate-only entities have been added
    call        \* the service calls; `knew` is history: the family the
                \* persisted code stood for when the call began

Operators == [kind : {"gate"}, broadcasts : Gates] \cup [kind : {"garage"}, broadcasts : Garages]

kind == operator.kind

vars == <<operator, lock, cached, learned, controls, call>>

TypeOK ==
    /\ operator \in Operators
    /\ lock \in BOOLEAN
    /\ cached \in Overviews
    /\ learned \in Codes
    /\ controls \in BOOLEAN
    /\ call \in [Calls -> [at : {"idle", "resolving", "sending", "sent", "reading"},
                           request : Requests, family : Answers, knew : Answers]]

Init ==
    /\ operator \in Operators
    /\ lock = FALSE
    /\ cached = NoOverview
    /\ learned = NoCode
    /\ controls = FALSE
    /\ call = [c \in Calls |-> Idle]

-----------------------------------------------------------------------------
(***************************************************************************)
(* Classification.                                                         *)
(***************************************************************************)
\* Fault: an entity is offered to what is not known to be a garage.
FaultNotAGarage(ov, code) == gate_or_garage(code) # "garage"

\* coordinator.is_known_gate, with learned_family.
is_known_gate(ov, code) ==
    (ov # NoOverview /\ is_gate(ov)) \/ gate_or_garage(code) = "gate"

\* Fault: the persisted code is not consulted.
FaultNoFallback(ov, code) ==
    IF ov # NoOverview /\ is_garage(ov) THEN "garage"
    ELSE IF ov # NoOverview /\ is_gate(ov) THEN "gate"
    ELSE Unknown

\* entity._resolve_family, once the overview has been read (or not).
Family(ov, code) ==
    IF ov # NoOverview /\ is_garage(ov) THEN "garage"
    ELSE IF ov # NoOverview /\ is_gate(ov) THEN "gate"
    ELSE gate_or_garage(code)

is_on == IF cached = NoOverview THEN "unknown" ELSE IF cached.lock THEN "on" ELSE "off"

-----------------------------------------------------------------------------
(***************************************************************************)
(* Telemetry.                                                              *)
(***************************************************************************)
Decoded(f) == [family |-> layout_for(f.length, f.code, FALSE).family,
               code |-> f.code, lock |-> lock]

\* _remember_product_code.
Remembered(code) == IF code = NoCode THEN learned ELSE code

Ingest(f) ==
    /\ cached' = Decoded(f)
    /\ learned' = Remembered(f.code)

\* Fault: the factories are run only when the platform is set up.
FaultSyncOnce == controls' = controls

\* Every notification re-runs the entity factories.
Sync == controls' = (controls \/ is_known_gate(cached', learned'))

\* A frame of the sweep, which notifies at the end of its cycle...
SweptFrame(f) ==
    /\ Ingest(f)
    /\ UNCHANGED <<operator, lock, controls, call>>

\* ...and one of a stream, which notifies at once.
StreamedFrame(f) ==
    /\ Ingest(f)
    /\ Sync
    /\ UNCHANGED <<operator, lock, call>>

\* An update cycle ends.
Updated ==
    /\ UNCHANGED <<operator, lock, cached, learned, call>>
    /\ Sync

\* Home Assistant restarts: only the entry survives, and the platforms are set
\* up from it.
Restart ==
    /\ cached' = NoOverview
    /\ controls' = is_known_gate(NoOverview, learned)
    /\ call' = [c \in Calls |-> Idle]
    /\ UNCHANGED <<operator, lock, learned>>

\* Holiday Lock is changed from a remote, a schedule or the app.
LockedElsewhere ==
    /\ kind = "gate"
    /\ lock' = ~lock
    /\ UNCHANGED <<operator, cached, learned, controls, call>>

-----------------------------------------------------------------------------
(***************************************************************************)
(* A service call: resolve the family, send, and for a switch read back.   *)
(***************************************************************************)
\* The entity method goes on with the family it resolved: a switch refuses an
\* operator that is not positively a gate.
Goes(c, request, family, knew) ==
    call' = [call EXCEPT ![c] =
                IF request \in {"on", "off"} /\ family # "gate" THEN Idle
                ELSE [at |-> "sending", request |-> request,
                      family |-> family, knew |-> knew]]

\* _read_overview reuses the cached frame, or fetches one.
Resolve(c, request) ==
    LET knew == gate_or_garage(learned) IN
    IF cached # NoOverview
    THEN Goes(c, request, Family(cached, learned), knew)
    ELSE call' = [call EXCEPT ![c] = [at |-> "resolving", request |-> request,
                                      family |-> Unknown, knew |-> knew]]

\* async_open_cover and async_close_cover: both send the same trigger.
Open(c) ==
    /\ call[c].at = "idle"
    /\ Resolve(c, "open")
    /\ UNCHANGED <<operator, lock, cached, learned, controls>>

\* async_press of the pedestrian button, which exists only on a known gate.
Pedestrian(c) ==
    /\ call[c].at = "idle" /\ controls
    /\ call' = [call EXCEPT ![c] =
                   [at |-> "sending", request |-> "pedestrian",
                    family |-> Unknown, knew |-> gate_or_garage(learned)]]
    /\ UNCHANGED <<operator, lock, cached, learned, controls>>

\* async_turn_on and async_turn_off: the redundant direction is skipped.
Turn(c, wanted) ==
    /\ call[c].at = "idle" /\ controls
    /\ is_on # wanted
    /\ Resolve(c, wanted)
    /\ UNCHANGED <<operator, lock, cached, learned, controls>>

\* The fetch answers, is ingested and notified, or fails.
Fetched(c, f) ==
    /\ call[c].at = "resolving"
    /\ Ingest(f)
    /\ Sync
    /\ Goes(c, call[c].request, Family(cached', learned'), call[c].knew)
    /\ UNCHANGED <<operator, lock>>

NotFetched(c) ==
    /\ call[c].at = "resolving"
    /\ Goes(c, call[c].request, Family(NoOverview, learned), call[c].knew)
    /\ UNCHANGED <<operator, lock, cached, learned, controls>>

\* Fault: RUN is the default, TRG is for what is known to be a gate.
FaultRunByDefault(family) ==
    IF family = "gate" THEN ACTIVATION_TRG ELSE ACTIVATION_GDO_RUN

trigger_activation_id(family) ==
    IF family = "garage" THEN ACTIVATION_GDO_RUN ELSE ACTIVATION_TRG

\* The id the entity passes, or the default trigger.
ActivationId(c) ==
    IF call[c].request = "open" THEN trigger_activation_id(call[c].family)
    ELSE IF call[c].request = "pedestrian" THEN ACTIVATION_PED
    ELSE ACTIVATION_GDO_RUN

\* The operator gets the activation and may decline to apply it.
Delivered(c) ==
    /\ call[c].at = "sending"
    /\ call' = [call EXCEPT ![c].at = "sent"]
    /\ \/ lock' = lock
       \/ kind = "gate" /\ ActivationId(c) = ACTIVATION_GDO_RUN /\ lock' = ~lock
    /\ UNCHANGED <<operator, cached, learned, controls>>

\* No certificate, no broker, no answer: the call raises.
Raises(c) ==
    /\ call[c].at \in {"sending", "sent"}
    /\ call' = [call EXCEPT ![c] = Idle]
    /\ UNCHANGED <<operator, lock, cached, learned, controls>>

\* A switch reads the operator back; the others are done.
Acknowledged(c) ==
    /\ call[c].at = "sent"
    /\ call' = [call EXCEPT ![c] = IF call[c].request \in {"on", "off"}
                                   THEN [call[c] EXCEPT !.at = "reading"]
                                   ELSE Idle]
    /\ UNCHANGED <<operator, lock, cached, learned, controls>>

ReadBack(c, f) ==
    /\ call[c].at = "reading"
    /\ Ingest(f)
    /\ Sync
    /\ call' = [call EXCEPT ![c] = Idle]
    /\ UNCHANGED <<operator, lock>>

\* The read back failed; the refresh that is requested instead is Updated.
NotReadBack(c) ==
    /\ call[c].at = "reading"
    /\ call' = [call EXCEPT ![c] = Idle]
    /\ UNCHANGED <<operator, lock, cached, learned, controls>>

Next ==
    \/ Updated \/ Restart \/ LockedElsewhere
    \/ \E f \in operator.broadcasts : SweptFrame(f) \/ StreamedFrame(f)
    \/ \E c \in Calls :
          \/ Open(c) \/ Pedestrian(c) \/ Turn(c, "on") \/ Turn(c, "off")
          \/ NotFetched(c) \/ Delivered(c) \/ Raises(c) \/ Acknowledged(c)
          \/ NotReadBack(c)
          \/ \E f \in operator.broadcasts : Fetched(c, f) \/ ReadBack(c, f)

Spec == Init /\ [][Next]_vars

\* The update cycle runs again and again, whatever else happens.
FairSpec == Spec /\ WF_vars(Updated)

-----------------------------------------------------------------------------
(***************************************************************************)
(* Properties.                                                             *)
(***************************************************************************)
Sending(c, requests) == call[c].at \in {"sending", "sent"} /\ call[c].request \in requests

\* cover._trigger: RUN must only ever go to a confirmed garage, because on a
\* gate the same activation toggles Holiday Lock.
RunOnlyToGarages ==
    \A c \in Calls :
        Sending(c, {"open"}) /\ ActivationId(c) = ACTIVATION_GDO_RUN => kind = "garage"

\* switch._gate_mac and the factories: neither a gate-only entity nor its
\* activation is ever offered to a garage, whose door it would open.
GateControlsOnlyOnGates ==
    /\ controls => kind = "gate"
    /\ \A c \in Calls : Sending(c, {"on", "off", "pedestrian"}) => kind = "gate"

\* entity._resolve_family: a garage known from a code it reported before stays
\* a garage through telemetry gaps and restarts, so its door opens.
KnownGarageOpens ==
    \A c \in Calls :
        Sending(c, {"open"}) /\ call[c].knew = "garage"
            => ActivationId(c) = ACTIVATION_GDO_RUN

\* The dynamic set-up adds the gate-only controls once an operator turns out to
\* be a gate, without a reload.
ControlsAppear == gate_or_garage(learned) = "gate" ~> controls

\* What the docstring of is_known_gate says: an operator that is not positively
\* a gate never gets the gate-only controls.  Here: one that reported that it is
\* a garage is not sent Holiday Lock, which opens its door.
HolidayLockNeverToKnownGarage ==
    \A c \in Calls : Sending(c, {"on", "off"}) => call[c].knew # "garage"

(***************************************************************************)
(* The inductive strengthening: everything the integration believes about  *)
(* the operator is true of it.                                             *)
(***************************************************************************)
Truthful(ov) ==
    ov # NoOverview => /\ is_garage(ov) => kind = "garage"
                       /\ is_gate(ov) => kind = "gate"

BelievesTruth(family) == family # Unknown => family = kind

\* A call that goes on holds a true family; a gate-only one is on its way to a
\* gate, and the pedestrian button never waits for telemetry.
CallBelieves(r) ==
    /\ r.at \in {"sending", "sent"} =>
          /\ BelievesTruth(r.family)
          /\ r.request \in {"on", "off", "pedestrian"} => kind = "gate"
    /\ r.at = "resolving" => r.request # "pedestrian"

IInv ==
    /\ TypeOK
    /\ Truthful(cached)
    /\ BelievesTruth(gate_or_garage(learned))
    /\ controls => kind = "gate"
    /\ \A c \in Calls : CallBelieves(call[c])

\* The messages that tell the truth: no gate broadcasts one that is taken for a
\* garage's, and no garage one that is taken for a gate's.
Shape(f) == [family |-> layout_for(f.length, f.code, FALSE).family, code |-> f.code]

FramesTruthful ==
    /\ \A f \in UNION Gates : ~is_garage(Shape(f))
    /\ \A f \in UNION Garages : ~is_gate(Shape(f))

\* Whatever codes a garage tags its messages with say the same of it.
CodesAgree ==
    \A o \in Garages : \A f, g \in o :
        f.code # NoCode /\ g.code # NoCode => gate_or_garage(f.code) = gate_or_garage(g.code)

\* What has been learned was reported by this operator, and a call that began with a
\* garage still has one, and acts on it.
LearnedFromIt == learned = NoCode \/ \E f \in operator.broadcasts : f.code = learned

StaysGarage ==
    \A c \in Calls :
        call[c].knew = "garage" =>
            /\ gate_or_garage(learned) = "garage"
            /\ call[c].at \in {"sending", "sent"} /\ call[c].request = "open"
                   => call[c].family = "garage"

=============================================================================
