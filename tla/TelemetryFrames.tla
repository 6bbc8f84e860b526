-------------------------- MODULE TelemetryFrames --------------------------
(***************************************************************************)
(* One telemetry read, fetch_overview_blocking in api/mqtt_remote.py: the  *)
(* network thread decodes what arrives on <serial>/deviceOverview and, in  *)
(* strict mode, on the multiplexed <serial>/sysTpUrc; the executor thread  *)
(* waits for the subscriptions, for the operator to answer the connection  *)
(* request and for a first overview, each at most `timeout`, and returns   *)
(* whatever the network thread holds by then.                              *)
(***************************************************************************)
EXTENDS OperatorFamily

CONSTANTS
    Lengths,   \* lengths of the bodies that arrive
    Codes      \* product codes the messages are tagged with, NoCode for none

ASSUME LengthsAssumption == Lengths \subseteq Nat
ASSUME CodesAssumption == Codes \subseteq Int \cup {NoCode}

Topics == {"deviceOverview", "sysTpUrc"}
NoOverview == [family |-> "none", code |-> NoCode]
NoMessage  == [topic |-> "deviceOverview", length |-> 0, code |-> NoCode]

VARIABLES
    at,         \* where the executor thread is
    answered,   \* the connectionRequestResponse has arrived
    message,    \* the message the network thread decoded last
    holder,     \* holder["overview"]
    result      \* what the read returned

vars == <<at, answered, message, holder, result>>

Messages  == [topic : Topics, length : Lengths, code : Codes] \cup {NoMessage}
Overviews == [family : Families, code : Codes] \cup {NoOverview}

TypeOK ==
    /\ at \in {"connecting", "subscribed", "listening", "returned"}
    /\ answered \in BOOLEAN
    /\ message \in Messages
    /\ holder \in Overviews
    /\ result \in Overviews

Init ==
    /\ at = "connecting"
    /\ answered = FALSE
    /\ message = NoMessage
    /\ holder = NoOverview
    /\ result = NoOverview

-----------------------------------------------------------------------------
(***************************************************************************)
(* The network thread.                                                     *)
(***************************************************************************)
DecoderOf(m) == layout_for(m.length, m.code, m.topic = "sysTpUrc")

\* on_message: a body that cannot be decoded is dropped.
OverviewArrives(m) ==
    /\ at \in {"subscribed", "listening"}
    /\ m.length > 0
    /\ message' = m
    /\ holder' = IF DecoderOf(m) = Dropped THEN holder
                 ELSE [family |-> DecoderOf(m).family, code |-> m.code]
    /\ UNCHANGED <<at, answered, result>>

ConnectionAnswered ==
    /\ at = "subscribed"
    /\ answered' = TRUE
    /\ UNCHANGED <<at, message, holder, result>>

-----------------------------------------------------------------------------
(***************************************************************************)
(* The executor thread.                                                    *)
(***************************************************************************)
Subscribed ==
    /\ at = "connecting"
    /\ at' = "subscribed"
    /\ UNCHANGED <<answered, message, holder, result>>

\* The operator is online: it is woken, unless its MAC is not known.
Woken ==
    /\ at = "subscribed" /\ answered
    /\ at' = "listening"
    /\ UNCHANGED <<answered, message, holder, result>>

\* One of the three waits ran out.
TimedOut ==
    /\ \/ at = "connecting"
       \/ at = "subscribed" /\ ~answered
       \/ at = "listening" /\ holder = NoOverview
    /\ at' = "returned"
    /\ result' = NoOverview
    /\ UNCHANGED <<answered, message, holder>>

Return ==
    /\ at = "listening" /\ holder # NoOverview
    /\ at' = "returned"
    /\ result' = holder
    /\ UNCHANGED <<answered, message, holder>>

\* The next read starts with events and a holder of its own.
NextRead ==
    /\ at = "returned"
    /\ at' = "connecting"
    /\ answered' = FALSE
    /\ message' = NoMessage
    /\ holder' = NoOverview
    /\ result' = NoOverview

Next ==
    \/ \E m \in Messages : OverviewArrives(m)
    \/ ConnectionAnswered \/ Subscribed \/ Woken \/ TimedOut \/ Return \/ NextRead

Spec == Init /\ [][Next]_vars

-----------------------------------------------------------------------------
(***************************************************************************)
(* Properties.                                                             *)
(***************************************************************************)

\* parse_device_overview unpacks at fixed offsets; struct.error is not a
\* ValueError and would end the network thread's callback.  Whatever length
\* and code arrive, the decoder chosen never reads past the body.
BodyNotOverrun ==
    message = NoMessage \/ DecoderOf(message) = Dropped
        \/ BytesRead(DecoderOf(message).layout, message.length) <= message.length

\* A garage can broadcast a gate-sized frame.  One that is treated as a garage
\* when it is opened has its status and battery read on the garage's scales.
GarageReadAsGarage ==
    holder # NoOverview /\ is_garage(holder) => holder.family = "sdo5"

\* The reference for the classifiers: the codes operators report for each
\* family, whatever normalisation and tables the code goes through.
ClassifiedByReportedCode ==
    LET code == message.code
        family == product_family(code) IN
    /\ family = "garage" <=> code = 39
    /\ family = "swing"  <=> code = 25
    /\ family = "slider" <=> code \in {32, 41, 42, 43}

=============================================================================
