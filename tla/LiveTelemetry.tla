--------------------------- MODULE LiveTelemetry ---------------------------
(***************************************************************************)
(* The coordinator's telemetry (coordinator.py): the single sink           *)
(* ingest_overview and everything that feeds it for Wi-Fi operators        *)
(*   - the periodic MQTT sweep inside the update cycle,                    *)
(*   - the follow of one operator's stream after a press,                  *)
(*   - the on-demand read of an entity,                                    *)
(*   - the live listener, seen through LiveChannel.                        *)
(* A telemetry frame is reduced to the gate status it carries (NoLabel     *)
(* when it has none).  Update cycles may overlap: nothing in this code     *)
(* excludes it, and the model does not rely on Home Assistant to do so.    *)
(* Time is discrete; each clock saturates where the code stops looking.    *)
(***************************************************************************)
EXTENDS Naturals, Sequences, LiveChannel

CONSTANTS
    Serials,       \* Wi-Fi operators
    Cycles,        \* update cycles that may overlap, "scheduled" among them
    Labels,        \* gate statuses a frame can carry
    NoLabel,       \* a frame without one
    NoFrame,       \* nothing cached
    TTL,           \* LIVE_STATUS_TTL
    ScanInterval,  \* DEFAULT_SCAN_INTERVAL, the first telemetry interval
    SlowInterval,  \* TELEMETRY_SCAN_INTERVAL
    ForceFloor,    \* TELEMETRY_FORCE_MIN_INTERVAL
    MaxReady       \* bound: a frame is posted only while fewer callbacks wait

Frames == Labels \cup {NoLabel}
Producers == {"follow", "listener"}

ASSUME NoLabelAssumption == NoLabel \notin Labels /\ NoFrame \notin Frames
ASSUME CyclesAssumption == "scheduled" \in Cycles
ASSUME TTLAssumption == TTL \in Nat \ {0}
ASSUME CadenceAssumption ==
    /\ ForceFloor \in Nat \ {0} /\ ScanInterval \in Nat /\ SlowInterval \in Nat
    /\ ForceFloor <= ScanInterval /\ ScanInterval <= SlowInterval
ASSUME ReadyAssumption == MaxReady \in Nat

VARIABLES
    account,     \* Wi-Fi operators the cloud lists for this number
    data,        \* coordinator.data: serial -> its "overview"
    overview,    \* coordinator._overview
    live,        \* coordinator._live_status, with the time left of its TTL and
                 \* (history) the producer of the label
    since,       \* monotonic() - _last_telemetry, saturating at SlowInterval
    interval,    \* _telemetry_interval
    force,       \* _force_telemetry
    cycle,       \* the update cycles in progress
    rest,        \* history: time since a sweep last began, up to ForceFloor
    following,   \* _live_following
    follow,      \* where each follow job is
    ready        \* callbacks posted to the event loop, oldest first

followVars == <<following, follow>>
paceVars   == <<since, interval, force, rest>>
vars == <<account, data, overview, live, cycle, paceVars, followVars, ready,
          channelVars>>

None == [left |-> 0, label |-> NoLabel, from |-> "follow"]
Positions == [left : 0..TTL, label : Frames, from : Producers]

Callbacks == [what : {"frame"}, serial : Serials, frame : Frames, from : Producers]
                \cup [what : {"done"}, serial : Serials]

Idle == [at |-> "idle", devices |-> {}, todo |-> {}, gotAny |-> FALSE]

TypeOK ==
    /\ account \in SUBSET Serials
    /\ DOMAIN data \subseteq Serials
    /\ \A s \in DOMAIN data : data[s] \in Frames \cup {NoFrame}
    /\ overview \in [Serials -> Frames \cup {NoFrame}]
    /\ live \in [Serials -> Positions]
    /\ since \in 0..SlowInterval
    /\ interval \in ScanInterval..SlowInterval
    /\ force \in BOOLEAN
    /\ rest \in 0..ForceFloor
    /\ cycle \in [Cycles -> [at : {"idle", "cloud", "sweep", "rest"},
                             devices : SUBSET Serials, todo : SUBSET Serials,
                             gotAny : BOOLEAN]]
    /\ following \in SUBSET Serials
    /\ follow \in [Serials -> {"none", "session", "streaming", "over"}]
    /\ ready \in Seq(Callbacks)
    /\ ChannelTypeOK

\* A coordinator that has just been built: no data, the first sweep is due.
Init ==
    /\ account \in SUBSET Serials
    /\ data = [s \in {} |-> NoFrame]
    /\ overview = [s \in Serials |-> NoFrame]
    /\ live = [s \in Serials |-> None]
    /\ since = SlowInterval
    /\ interval = ScanInterval
    /\ force = FALSE
    /\ rest = ForceFloor
    /\ cycle = [c \in Cycles |-> Idle]
    /\ following = {}
    /\ follow = [s \in Serials |-> "none"]
    /\ ready = <<>>
    /\ ChannelInit

-----------------------------------------------------------------------------
(***************************************************************************)
(* The sink: ingest_overview(serial, overview, live=..., notify=...).      *)
(***************************************************************************)
\* Fault: the frame is cached but coordinator.data keeps the old one.
FaultDataForgotten(s, f) ==
    /\ overview' = [overview EXCEPT ![s] = f]
    /\ UNCHANGED data
    /\ since' = 0

Cache(s, f) ==
    /\ overview' = [overview EXCEPT ![s] = f]
    /\ data' = [d \in DOMAIN data |-> IF d = s THEN f ELSE data[d]]
    /\ since' = 0

\* A read that is not a movement frame: the sweep's and an entity's.
IngestRead(s, f) == Cache(s, f) /\ UNCHANGED live

\* A movement frame from a stream also becomes the live position.
IngestMovement(s, f, producer) ==
    /\ Cache(s, f)
    /\ live' = IF f = NoLabel
               THEN live
               ELSE [live EXCEPT ![s] = [left |-> TTL, label |-> f, from |-> producer]]

-----------------------------------------------------------------------------
(***************************************************************************)
(* The update cycle, _async_update_data.                                   *)
(***************************************************************************)
Relink ==
    /\ account' \in SUBSET Serials
    /\ UNCHANGED <<data, overview, live, cycle, paceVars, followVars, ready, channelVars>>

CycleStart(c) ==
    /\ cycle[c].at = "idle"
    /\ cycle' = [cycle EXCEPT ![c].at = "cloud"]
    /\ UNCHANGED <<account, data, overview, live, paceVars, followVars, ready, channelVars>>

\* ConfigEntryAuthFailed or UpdateFailed: coordinator.data stays as it was.
CycleFails(c) ==
    /\ cycle[c].at = "cloud"
    /\ cycle' = [cycle EXCEPT ![c] = Idle]
    /\ UNCHANGED <<account, data, overview, live, paceVars, followVars, ready, channelVars>>

\* The telemetry gate: how long since the last read before a sweep is due.
Wait == IF force THEN ForceFloor ELSE interval

\* Fault: only an answer counts, the beginning of a sweep does not.
FaultSweepNotCounted(c) ==
    LET sweeps == ~active /\ since >= Wait IN
    /\ cycle[c].at = "cloud"
    /\ force' = FALSE
    /\ cycle' = [cycle EXCEPT ![c] =
                    [at      |-> IF sweeps THEN "sweep" ELSE "rest",
                     devices |-> account,
                     todo    |-> IF sweeps THEN account ELSE {},
                     gotAny  |-> FALSE]]
    /\ rest'  = IF sweeps THEN 0 ELSE rest
    /\ UNCHANGED <<account, data, overview, live, since, interval, followVars,
                   ready, channelVars>>

\* The lists and statuses have arrived; with no await in between the telemetry
\* gate decides whether this cycle sweeps the operators.
CycleListed(c) ==
    LET sweeps == ~active /\ since >= Wait IN
    /\ cycle[c].at = "cloud"
    /\ force' = FALSE
    /\ cycle' = [cycle EXCEPT ![c] =
                    [at      |-> IF sweeps THEN "sweep" ELSE "rest",
                     devices |-> account,
                     todo    |-> IF sweeps THEN account ELSE {},
                     gotAny  |-> FALSE]]
    /\ since' = IF sweeps THEN 0 ELSE since
    /\ rest'  = IF sweeps THEN 0 ELSE rest
    /\ UNCHANGED <<account, data, overview, live, interval, followVars, ready,
                   channelVars>>

\* One operator of the sweep answers get_overview with a frame...
SweepAnswered(c, s, f) ==
    /\ cycle[c].at = "sweep" /\ s \in cycle[c].todo
    /\ cycle' = [cycle EXCEPT ![c].todo = @ \ {s}, ![c].gotAny = TRUE]
    /\ IngestRead(s, f)
    /\ UNCHANGED <<account, interval, force, rest, followVars, ready, channelVars>>

\* ...or with nothing (asleep, offline, rejected certificate, error).
SweepMissed(c, s) ==
    /\ cycle[c].at = "sweep" /\ s \in cycle[c].todo
    /\ cycle' = [cycle EXCEPT ![c].todo = @ \ {s}]
    /\ UNCHANGED <<account, data, overview, live, paceVars, followVars, ready, channelVars>>

\* Fault: the interval is doubled without its cap.
FaultUncapped(n) == 2 * n

Widened(n) == IF 2 * n <= SlowInterval THEN 2 * n ELSE SlowInterval

SweepEnds(c) ==
    /\ cycle[c].at = "sweep" /\ cycle[c].todo = {}
    /\ cycle' = [cycle EXCEPT ![c].at = "rest"]
    /\ interval' = IF cycle[c].gotAny THEN SlowInterval ELSE Widened(interval)
    /\ UNCHANGED <<account, data, overview, live, since, force, rest, followVars,
                   ready, channelVars>>

\* The GSM, diagnostics and shared-access reads are over; coordinator.data is
\* replaced, with the overviews cached by now.
CycleEnds(c) ==
    /\ cycle[c].at = "rest"
    /\ data' = [s \in cycle[c].devices |-> overview[s]]
    /\ cycle' = [cycle EXCEPT ![c] = Idle]
    /\ UNCHANGED <<account, overview, live, paceVars, followVars, ready, channelVars>>

-----------------------------------------------------------------------------
(***************************************************************************)
(* Entities: update_entity, an on-demand read, a press.                    *)
(***************************************************************************)
ForceTelemetry ==
    /\ force' = TRUE
    /\ UNCHANGED <<account, data, overview, live, since, interval, rest, cycle,
                   followVars, ready, channelVars>>

\* _read_overview fetched a frame and passes it to set_overview.
ReadOnDemand(s, f) ==
    /\ s \in DOMAIN data
    /\ IngestRead(s, f)
    /\ UNCHANGED <<account, interval, force, rest, cycle, followVars, ready, channelVars>>

\* note_activation: the listener streams already, or a follow is started
\* unless one is running for this operator.
Press(s) ==
    /\ s \in DOMAIN data
    /\ ~active /\ s \notin following
    /\ following' = following \cup {s}
    /\ follow' = [follow EXCEPT ![s] = "session"]
    /\ UNCHANGED <<account, data, overview, live, paceVars, cycle, ready, channelVars>>

-----------------------------------------------------------------------------
(***************************************************************************)
(* The follow job: follow_overview in an executor thread.                  *)
(***************************************************************************)
\* The `finally` of _runner.  The refresh it requests is CycleStart.
FollowFinally(s) ==
    /\ following' = following \ {s}
    /\ live' = [live EXCEPT ![s] = None]

FollowStreams(s) ==
    /\ follow[s] = "session"
    /\ follow' = [follow EXCEPT ![s] = "streaming"]
    /\ UNCHANGED <<account, data, overview, live, paceVars, cycle, following, ready,
                   channelVars>>

\* Fault: the clean-up runs only when the stream was opened.
FaultFollowNotDiscarded(s) ==
    /\ follow[s] = "session"
    /\ follow' = [follow EXCEPT ![s] = "none"]
    /\ UNCHANGED <<account, data, overview, live, following, paceVars, cycle, ready,
                   channelVars>>

\* No certificate: the exception is swallowed.
FollowFails(s) ==
    /\ follow[s] = "session"
    /\ follow' = [follow EXCEPT ![s] = "none"]
    /\ FollowFinally(s)
    /\ UNCHANGED <<account, data, overview, paceVars, cycle, ready, channelVars>>

Post(callback) == ready' = Append(ready, callback)

FrameFrom(s, f, producer) ==
    [what |-> "frame", serial |-> s, frame |-> f, from |-> producer]

FollowFrame(s, f) ==
    /\ follow[s] = "streaming" /\ Len(ready) < MaxReady
    /\ Post(FrameFrom(s, f, "follow"))
    /\ UNCHANGED <<account, data, overview, live, paceVars, cycle, followVars, channelVars>>

\* Fault: the call returns before paho's thread has posted its last frame.
FaultNotJoined(s) ==
    /\ follow[s] = "streaming"
    /\ follow' = [follow EXCEPT ![s] = "over"]
    /\ \E f \in Frames :
          ready' = ready \o <<[what |-> "done", serial |-> s], FrameFrom(s, f, "follow")>>
    /\ UNCHANGED <<account, data, overview, live, paceVars, cycle, following, channelVars>>

\* The duration is over (or nothing connected): paho's thread is joined and
\* the future completes.
FollowOver(s) ==
    /\ follow[s] = "streaming"
    /\ follow' = [follow EXCEPT ![s] = "over"]
    /\ Post([what |-> "done", serial |-> s])
    /\ UNCHANGED <<account, data, overview, live, paceVars, cycle, following, channelVars>>

ListenerFrame(s, f) ==
    /\ link = "open" /\ Len(ready) < MaxReady
    /\ Post(FrameFrom(s, f, "listener"))
    /\ UNCHANGED <<account, data, overview, live, paceVars, cycle, followVars, channelVars>>

-----------------------------------------------------------------------------
(***************************************************************************)
(* The event loop runs the oldest callback.                                *)
(***************************************************************************)
DeliverFrame ==
    /\ ready # <<>> /\ Head(ready).what = "frame"
    /\ IngestMovement(Head(ready).serial, Head(ready).frame, Head(ready).from)
    /\ ready' = Tail(ready)
    /\ UNCHANGED <<account, interval, force, rest, cycle, followVars, channelVars>>

DeliverDone ==
    /\ ready # <<>> /\ Head(ready).what = "done"
    /\ FollowFinally(Head(ready).serial)
    /\ follow' = [follow EXCEPT ![Head(ready).serial] = "none"]
    /\ ready' = Tail(ready)
    /\ UNCHANGED <<account, data, overview, paceVars, cycle, channelVars>>

-----------------------------------------------------------------------------
\* The listener connects, is announced and drops; the entry stays loaded.
ListenerStep ==
    /\ Open \/ Announce \/ Close
    /\ UNCHANGED <<account, data, overview, live, paceVars, cycle, followVars, ready>>

Aged(p) == IF p.left <= 1 THEN None ELSE [p EXCEPT !.left = @ - 1]

UpTo(n, bound) == IF n < bound THEN n + 1 ELSE n

Tick ==
    /\ live' = [s \in Serials |-> Aged(live[s])]
    /\ since' = UpTo(since, SlowInterval)
    /\ rest' = UpTo(rest, ForceFloor)
    /\ UNCHANGED <<account, data, overview, interval, force, cycle, followVars,
                   ready, channelVars>>

Deliver == DeliverFrame \/ DeliverDone

Poll(c) ==
    \/ CycleFails(c) \/ CycleListed(c) \/ SweepEnds(c) \/ CycleEnds(c)
    \/ \E s \in Serials : SweepMissed(c, s)
    \/ \E s \in Serials, f \in Frames : SweepAnswered(c, s, f)

Follow(s) == FollowStreams(s) \/ FollowFails(s) \/ FollowOver(s)

Next ==
    \/ Relink \/ ForceTelemetry \/ ListenerStep \/ Deliver \/ Tick
    \/ \E c \in Cycles : CycleStart(c) \/ Poll(c)
    \/ \E s \in Serials : Press(s) \/ Follow(s)
    \/ \E s \in Serials, f \in Frames :
           ReadOnDemand(s, f) \/ FollowFrame(s, f) \/ ListenerFrame(s, f)

Spec == Init /\ [][Next]_vars

(***************************************************************************)
(* Home Assistant keeps scheduling the update cycle, every request of a    *)
(* cycle answers or times out, a follow's duration elapses and the event   *)
(* loop runs what is posted.  A cloud that refuses every time starves the  *)
(* telemetry, so a cycle is also assumed to list the operators again and   *)
(* again.  Nothing is assumed of presses, of operators or of the listener. *)
(***************************************************************************)
Fairness ==
    /\ WF_vars(CycleStart("scheduled"))
    /\ WF_vars(Poll("scheduled"))
    /\ SF_vars(CycleListed("scheduled"))
    /\ WF_vars(Tick)
    /\ WF_vars(Deliver)
    /\ \A s \in Serials : WF_vars(Follow(s))

FairSpec == Spec /\ Fairness

-----------------------------------------------------------------------------
(***************************************************************************)
(* Properties.                                                             *)
(***************************************************************************)

\* Whatever is interleaved with the awaits of an update cycle, entities read
\* from coordinator.data exactly the newest frame of each operator.
CacheAndDataAgree == \A s \in DOMAIN data : data[s] = overview[s]

\* A label pushed by a follow never outlives it: once the follow has ended the
\* cloud poll is authoritative again, even with frames still in flight.
FollowLabelEndsWithFollow ==
    \A s \in Serials :
        live[s].left > 0 /\ live[s].from = "follow" => s \in following

\* However often updates are forced and cycles overlap, two sweeps of the
\* operators' radios never begin within TELEMETRY_FORCE_MIN_INTERVAL.
RadioRests ==
    [][\A c \in Cycles :
          (cycle[c].at = "cloud" /\ cycle'[c].at = "sweep") => rest >= ForceFloor]_vars

\* A follow always ends and leaves the set that coalesces presses, whether its
\* certificate, its connection or its stream failed.
FollowEnds == \A s \in Serials : s \in following ~> s \notin following

\* While the listener is down, telemetry never dries up: over and over it is
\* read from somebody, or a sweep begins.
TelemetryGoesOn == []<>(active \/ since = 0)

=============================================================================
