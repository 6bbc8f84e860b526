--------------------------- MODULE BrokerSessions ---------------------------
(***************************************************************************)
(* The sessions that one account opens with the MQTT broker (client.py):   *)
(* each takes the cached certificate or fetches one, runs in an executor   *)
(* thread, and, unless it is a follow, drops the cached certificate when   *)
(* the broker says that its own has expired.  One refused for any other    *)
(* reason ("revoked") stays cached until it has aged.  The broker is       *)
(* external: it accepts a certificate or not, and refuses a telemetry      *)
(* session whose client id is in use.  Reloading the entry starts over     *)
(* with an empty cache, but the threads of the old client's sessions run   *)
(* on.  Fetching a certificate and converting it is one step, at the end:  *)
(* what is stored is what was fetched.                                     *)
(***************************************************************************)
EXTENDS Naturals

CONSTANTS
    Presses,    \* activations: send_activation
    Reads,      \* one-off reads: get_overview
    Follows,    \* streams after a press: follow_overview
    Listeners   \* the persistent listener: run_live_listener

Telemetry == Reads \cup Follows \cup Listeners
Sessions  == Presses \cup Telemetry

ASSUME KindsAssumption ==
    /\ Presses \cap Telemetry = {} /\ Listeners \cap (Reads \cup Follows) = {}

VARIABLES
    cached,     \* the cached certificate: what the broker makes of it
    fresh,      \* it is not older than CERT_CACHE_SECONDS
    stage,      \* where each session is
    uses,       \* the certificate a session connects with
    left,       \* threads of sessions that a reload left behind
    app         \* the phone app is connected

clientVars == <<cached, fresh, stage, uses>>
brokerVars == <<clientVars, left, app>>

BrokerInit ==
    /\ cached = "none"
    /\ fresh = FALSE
    /\ stage = [s \in Sessions |-> "idle"]
    /\ uses = [s \in Sessions |-> "none"]
    /\ left = [s \in Telemetry |-> "none"]
    /\ app = FALSE

-----------------------------------------------------------------------------
(***************************************************************************)
(* Certificates, _mqtt_session.                                            *)
(***************************************************************************)
BeginCached(s) ==
    /\ stage[s] = "idle" /\ cached # "none" /\ fresh
    /\ stage' = [stage EXCEPT ![s] = "connecting"]
    /\ uses' = [uses EXCEPT ![s] = cached]
    /\ UNCHANGED <<cached, fresh, left, app>>

BeginUncached(s) ==
    /\ stage[s] = "idle" /\ (cached = "none" \/ ~fresh)
    /\ stage' = [stage EXCEPT ![s] = "asking"]
    /\ UNCHANGED <<cached, fresh, uses, left, app>>

\* A certificate arrives; in an outage even a new one is not accepted.
Fetched(s, c) ==
    /\ stage[s] = "asking"
    /\ cached' = c
    /\ fresh' = TRUE
    /\ stage' = [stage EXCEPT ![s] = "connecting"]
    /\ uses' = [uses EXCEPT ![s] = c]
    /\ UNCHANGED <<left, app>>

NotFetched(s) ==
    /\ stage[s] = "asking"
    /\ stage' = [stage EXCEPT ![s] = "idle"]
    /\ UNCHANGED <<cached, fresh, uses, left, app>>

Ages ==
    /\ fresh
    /\ fresh' = FALSE
    /\ UNCHANGED <<cached, stage, uses, left, app>>

Unaccepted == {"expired", "revoked"}

CachedSpoils ==
    /\ cached = "good"
    /\ cached' \in Unaccepted
    /\ UNCHANGED <<fresh, stage, uses, left, app>>

UsedSpoils(s) ==
    /\ uses[s] = "good"
    /\ \E c \in Unaccepted : uses' = [uses EXCEPT ![s] = c]
    /\ UNCHANGED <<cached, fresh, stage, left, app>>

-----------------------------------------------------------------------------
(***************************************************************************)
(* Sessions.                                                               *)
(***************************************************************************)
\* Fault: reads use the plain id.
FaultIdentity(s) == IF s \in Listeners THEN ":ha" ELSE ""

\* The suffix of the client id.
Identity(s) ==
    IF s \in Listeners THEN ":ha" ELSE IF s \in Telemetry THEN ":ha-r" ELSE ""

\* The plain id is the phone app's too; an activation under it is tolerated.
Duplicate(s) ==
    /\ s \in Telemetry
    /\ \/ app /\ Identity(s) = ""
       \/ \E t \in Telemetry :
             /\ Identity(t) = Identity(s)
             /\ (t # s /\ stage[t] = "connected") \/ left[t] = "connected"

Connects(s) ==
    /\ stage[s] = "connecting" /\ uses[s] = "good" /\ ~Duplicate(s)
    /\ stage' = [stage EXCEPT ![s] = "connected"]
    /\ uses' = [uses EXCEPT ![s] = "none"]
    /\ UNCHANGED <<cached, fresh, left, app>>

\* It is never told anything, and times out.
Refused(s) ==
    /\ stage[s] = "connecting" /\ uses[s] = "good" /\ Duplicate(s)
    /\ stage' = [stage EXCEPT ![s] = "refused"]
    /\ uses' = [uses EXCEPT ![s] = "none"]
    /\ UNCHANGED <<cached, fresh, left, app>>

\* operator_session raises CentsysCertExpiredError in the thread of all but follows,
\* which swallow it.
Rejected(s) ==
    /\ stage[s] = "connecting" /\ uses[s] = "expired" /\ s \notin Follows
    /\ stage' = [stage EXCEPT ![s] = "rejected"]
    /\ UNCHANGED <<cached, fresh, uses, left, app>>

\* The session ends without a word about the certificate.
GivesUp(s) ==
    /\ stage' = [stage EXCEPT ![s] = "idle"]
    /\ uses' = [uses EXCEPT ![s] = "none"]
    /\ UNCHANGED <<cached, fresh, left, app>>

\* Any other SSL error is raised as it is.
NotAccepted(s) ==
    /\ stage[s] = "connecting"
    /\ uses[s] = "revoked" \/ (uses[s] = "expired" /\ s \in Follows)
    /\ GivesUp(s)

\* Fault: only the age is reset, and that of an empty cache.
FaultInvalidate(s) ==
    /\ stage[s] = "rejected"
    /\ GivesUp(s)

\* ...and _run_mqtt drops what is cached by then, whoever fetched it.
Invalidate(s) ==
    /\ stage[s] = "rejected"
    /\ cached' = "none"
    /\ fresh' = FALSE
    /\ stage' = [stage EXCEPT ![s] = "idle"]
    /\ uses' = [uses EXCEPT ![s] = "none"]
    /\ UNCHANGED <<left, app>>

\* The broker cannot be reached.
Unreachable(s) ==
    /\ stage[s] = "connecting"
    /\ GivesUp(s)

\* A time-out, the end of a stream, an answer, or a connection that dropped.
Ends(s) ==
    /\ stage[s] \in {"connected", "refused"}
    /\ stage' = [stage EXCEPT ![s] = "idle"]
    /\ UNCHANGED <<cached, fresh, uses, left, app>>

-----------------------------------------------------------------------------
(***************************************************************************)
(* Reloading the entry: tasks are cancelled, threads are not.              *)
(***************************************************************************)
InThread(s) == stage[s] \in {"connecting", "connected", "refused"}

Reload ==
    /\ \A s \in Telemetry : InThread(s) => left[s] = "none"
    /\ left' = [s \in Telemetry |->
                   IF stage[s] = "connected" THEN "connected"
                   ELSE IF stage[s] = "connecting" THEN "connecting" ELSE left[s]]
    /\ cached' = "none"
    /\ fresh' = FALSE
    /\ stage' = [s \in Sessions |-> "idle"]
    /\ uses' = [s \in Sessions |-> "none"]
    /\ UNCHANGED app

LeftConnects(s) ==
    /\ left[s] = "connecting" /\ ~Duplicate(s)
    /\ stage[s] # "connected"
    /\ left' = [left EXCEPT ![s] = "connected"]
    /\ UNCHANGED <<clientVars, app>>

LeftEnds(s) ==
    /\ left[s] # "none"
    /\ left' = [left EXCEPT ![s] = "none"]
    /\ UNCHANGED <<clientVars, app>>

AppMoves ==
    /\ app' = ~app
    /\ UNCHANGED <<clientVars, left>>

Begin(s) == BeginCached(s) \/ BeginUncached(s)

Run(s) == Connects(s) \/ Refused(s) \/ Rejected(s) \/ NotAccepted(s)

BrokerNext ==
    \/ Ages \/ CachedSpoils \/ Reload \/ AppMoves
    \/ \E s \in Sessions :
           \/ Begin(s) \/ NotFetched(s) \/ Run(s) \/ Invalidate(s) \/ Unreachable(s)
           \/ UsedSpoils(s) \/ Ends(s)
           \/ \E c \in {"good"} \cup Unaccepted : Fetched(s, c)
    \/ \E s \in Telemetry : LeftConnects(s) \/ LeftEnds(s)

BrokerSpec == BrokerInit /\ [][BrokerNext]_brokerVars

(***************************************************************************)
(* Every wait in a thread has an end, the supervisor of a listener tries   *)
(* again and again, the cloud answers it and the broker is reached again   *)
(* and again.  Certificates need not age.                                  *)
(***************************************************************************)
BrokerFairness ==
    /\ \A s \in Sessions :
           /\ WF_brokerVars(Run(s)) /\ WF_brokerVars(Invalidate(s))
           /\ WF_brokerVars(Ends(s))
           /\ WF_brokerVars(NotFetched(s) \/ Fetched(s, "good"))
    /\ \A s \in Telemetry : WF_brokerVars(LeftEnds(s))
    /\ \A l \in Listeners :
           /\ WF_brokerVars(Begin(l)) /\ SF_brokerVars(Fetched(l, "good"))
           /\ SF_brokerVars(Run(l)) /\ SF_brokerVars(Connects(l))

BrokerFairSpec == BrokerSpec /\ BrokerFairness

-----------------------------------------------------------------------------
(***************************************************************************)
(* Properties.                                                             *)
(***************************************************************************)
Certificate == {"none", "good"} \cup Unaccepted

Stages == {"idle", "asking", "connecting", "rejected", "connected", "refused"}

BrokerTypeOK ==
    /\ cached \in Certificate
    /\ fresh \in BOOLEAN
    /\ stage \in [Sessions -> Stages]
    /\ uses \in [Sessions -> Certificate]
    /\ left \in [Telemetry -> {"none", "connecting", "connected"}]
    /\ app \in BOOLEAN

OfOneKind(s, t) == (s \in Listeners) <=> (t \in Listeners)

\* The identities keep the kinds of sessions apart: a listener is refused because of
\* a listener's thread only, a read or a follow because of another read or follow;
\* the phone app and activations are never in the way.
RefusedByItsOwnKind ==
    [][\A s \in Sessions :
          stage'[s] = "refused" /\ stage[s] # "refused" =>
              \E t \in Telemetry :
                  /\ OfOneKind(s, t)
                  /\ (t # s /\ stage[t] = "connected") \/ left[t] = "connected"]_brokerVars

Disturbance ==
    \/ Reload
    \/ CachedSpoils
    \/ \E s \in Sessions : UsedSpoils(s) \/ \E c \in Unaccepted : Fetched(s, c)

\* Nothing but its age drops such a certificate.
StuckWithRevoked == cached = "revoked" /\ fresh

\* Once the broker keeps accepting the certificates that are issued, a listener is
\* connected again and again, at the latest when a certificate that was refused without
\* having expired has aged.  An expired one is dropped by the listener itself, although
\* a follow hides its rejection; rejections that come late, after newer certificates
\* were stored, and threads that a reload left behind only delay it.
ListenerReturns ==
    ~[]<><<Disturbance>>_brokerVars /\ ~<>[]StuckWithRevoked =>
        \A l \in Listeners : []<>(stage[l] = "connected")

=============================================================================
