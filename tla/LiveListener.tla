---------------------------- MODULE LiveListener ----------------------------
(***************************************************************************)
(* The persistent live listener (live_listener.py) with the blocking MQTT  *)
(* loop it supervises (listen_overview_blocking and operator_session in    *)
(* api/mqtt_remote.py, run_live_listener and _run_mqtt in api/client.py).  *)
(*                                                                         *)
(* Three threads of control share it:                                      *)
(*   - the event loop, running the supervisor task `_run`, `async_stop`    *)
(*     and the callbacks other threads post with call_soon_threadsafe,     *)
(*     strictly in the order they were posted (`ready`);                   *)
(*   - the executor thread inside listen_overview_blocking (`worker`),     *)
(*     which asyncio cannot cancel;                                        *)
(*   - paho's network thread, which runs on_subscribe, on_disconnect and   *)
(*     on_message until loop_stop joins it.                                *)
(* Time is discrete.  `elapsed` is loop.time() - started, kept only up to  *)
(* Healthy; `nap` is what is left of the supervisor's asyncio.sleep.       *)
(***************************************************************************)
EXTENDS Naturals, Sequences

CONSTANTS
    Serials,      \* Wi-Fi operators the account may own
    BackoffMin,   \* LISTENER_RECONNECT_MIN
    BackoffMax,   \* LISTENER_RECONNECT_MAX
    Healthy,      \* _HEALTHY_UPTIME
    MaxReady      \* bound: a frame is posted only while fewer callbacks wait

ASSUME BackoffAssumption ==
    /\ BackoffMin \in Nat \ {0}
    /\ BackoffMax \in Nat
    /\ BackoffMin <= BackoffMax

ASSUME HealthyAssumption == Healthy \in Nat

ASSUME MaxReadyAssumption == MaxReady \in Nat

VARIABLES
    linked,       \* serials of the "wifi" entries of coordinator.data
    stop,         \* LiveListener._stop
    connected,    \* LiveListener._connected, read through `active`
    sup,          \* where the supervisor task is suspended
    targets,      \* the serials handed to the current attempt
    backoff,      \* the supervisor's local `backoff`
    elapsed,      \* time since `started`, saturating at Healthy
    nap,          \* time left in the supervisor's asyncio.sleep
    stopSet,      \* the current attempt's threading.Event is set
    worker,       \* where the executor thread is
    subscribed,   \* the attempt's `subscribed` event
    dropped,      \* the attempt's `dropped` event
    ready         \* callbacks posted to the event loop, oldest first

loopVars   == <<linked, stop, connected, sup, targets, backoff, elapsed, nap>>
threadVars == <<stopSet, worker, subscribed, dropped>>
vars       == <<loopVars, threadVars, ready>>

Suspensions == {"idle", "spawned", "nowifi", "session", "thread", "backoff", "ended"}
Places      == {"none", "queued", "connecting", "waiting", "up", "closing"}
Callbacks   == {"connected", "frame", "done", "cancel"}

TypeOK ==
    /\ linked \in SUBSET Serials
    /\ stop \in BOOLEAN
    /\ connected \in BOOLEAN
    /\ sup \in Suspensions
    /\ targets \in SUBSET Serials
    /\ backoff \in BackoffMin..BackoffMax
    /\ elapsed \in 0..Healthy
    /\ nap \in 0..BackoffMax
    /\ stopSet \in BOOLEAN
    /\ worker \in Places
    /\ subscribed \in BOOLEAN
    /\ dropped \in BOOLEAN
    /\ ready \in Seq(Callbacks)

Init ==
    /\ linked \in SUBSET Serials
    /\ stop = FALSE
    /\ connected = FALSE
    /\ sup = "idle"
    /\ targets = {}
    /\ backoff = BackoffMin
    /\ elapsed = 0
    /\ nap = 0
    /\ stopSet = FALSE
    /\ worker = "none"
    /\ subscribed = FALSE
    /\ dropped = FALSE
    /\ ready = <<>>

-----------------------------------------------------------------------------
(***************************************************************************)
(* The coordinator.                                                        *)
(***************************************************************************)

\* A poll replaces coordinator.data: operators are linked or unlinked.
Relink ==
    /\ linked' \in SUBSET Serials
    /\ UNCHANGED <<stop, connected, sup, targets, backoff, elapsed, nap,
                   threadVars, ready>>

\* start(): the supervisor becomes a tracked background task.
Start ==
    /\ sup = "idle"
    /\ sup' = "spawned"
    /\ stop' = FALSE
    /\ UNCHANGED <<linked, connected, targets, backoff, elapsed, nap,
                   threadVars, ready>>

\* An attempt is in progress, so `_stop_event` is not None.
Attempting == sup \in {"session", "thread"}

\* Fault: async_stop() forgets the attempt's stop event.
FaultEventNotSet ==
    /\ sup # "idle" /\ ~stop
    /\ stop' = TRUE
    /\ connected' = FALSE
    /\ ready' = IF \E i \in 1..Len(ready) : ready[i] = "done"
                THEN ready
                ELSE Append(ready, "cancel")
    /\ UNCHANGED <<linked, sup, targets, backoff, elapsed, nap, threadVars>>

\* async_shutdown(): async_stop() and then, with no suspension in between,
\* task.cancel() on the supervisor.  A task whose awaited future has already
\* completed ("done" is posted) is not woken a second time: its next step
\* raises CancelledError instead.
Stop ==
    /\ sup # "idle" /\ ~stop
    /\ stop' = TRUE
    /\ connected' = FALSE
    /\ stopSet' = (stopSet \/ Attempting)
    /\ ready' = IF \E i \in 1..Len(ready) : ready[i] = "done"
                THEN ready
                ELSE Append(ready, "cancel")
    /\ UNCHANGED <<linked, sup, targets, backoff, elapsed, nap,
                   worker, subscribed, dropped>>

-----------------------------------------------------------------------------
(***************************************************************************)
(* The supervisor task.  Once the task has been cancelled none of these    *)
(* steps is taken: see Deliver("cancel") and Deliver("done").              *)
(***************************************************************************)

\* Fault: the supervisor gives up when the account has no Wi-Fi operator.
FaultGiveUpWithoutOperators ==
    IF linked = {}
    THEN /\ sup' = "ended"
         /\ UNCHANGED <<nap, targets, elapsed, stopSet, subscribed, dropped>>
    ELSE /\ sup' = "session"
         /\ targets' = linked
         /\ elapsed' = 0
         /\ stopSet' = FALSE
         /\ subscribed' = FALSE
         /\ dropped' = FALSE
         /\ UNCHANGED nap

\* The top of the loop: nothing to listen to, or a new attempt with a fresh
\* stop event, whose first await is the certificate.
TopOfLoop ==
    IF linked = {}
    THEN /\ sup' = "nowifi"
         /\ nap' = BackoffMin
         /\ UNCHANGED <<targets, elapsed, stopSet, subscribed, dropped>>
    ELSE /\ sup' = "session"
         /\ targets' = linked
         /\ elapsed' = 0
         /\ stopSet' = FALSE
         /\ subscribed' = FALSE
         /\ dropped' = FALSE
         /\ UNCHANGED nap

Begin ==
    /\ sup = "spawned" /\ ~stop
    /\ TopOfLoop
    /\ UNCHANGED <<linked, stop, connected, backoff, worker, ready>>

\* The five seconds without a Wi-Fi operator are over.
LookAgain ==
    /\ sup = "nowifi" /\ nap = 0 /\ ~stop
    /\ TopOfLoop
    /\ UNCHANGED <<linked, stop, connected, backoff, worker, ready>>

Capped(n) == IF n <= BackoffMax THEN n ELSE BackoffMax

\* The pause after an attempt is over: double it for the next one and retry.
Retry ==
    /\ sup = "backoff" /\ nap = 0 /\ ~stop
    /\ backoff' = Capped(2 * backoff)
    /\ TopOfLoop
    /\ UNCHANGED <<linked, stop, connected, worker, ready>>

\* _mqtt_session() answered; the blocking loop goes to the executor.
SessionReady ==
    /\ sup = "session" /\ ~stop
    /\ sup' = "thread"
    /\ worker' = "queued"
    /\ UNCHANGED <<linked, stop, connected, targets, backoff, elapsed, nap,
                   stopSet, subscribed, dropped, ready>>

\* Fault: every attempt that ends resets the backoff.
FaultAlwaysReset ==
    /\ connected' = FALSE
    /\ backoff' = BackoffMin
    /\ nap' = backoff'
    /\ sup' = "backoff"

\* Fault: the `finally` forgets to lower the flag.
FaultFlagKept ==
    /\ UNCHANGED connected
    /\ backoff' = IF elapsed >= Healthy THEN BackoffMin ELSE backoff
    /\ nap' = backoff'
    /\ sup' = "backoff"

\* An attempt is over (`finally`, then the healthy test and the sleep).
AttemptOver ==
    /\ connected' = FALSE
    /\ backoff' = IF elapsed >= Healthy THEN BackoffMin ELSE backoff
    /\ nap' = backoff'
    /\ sup' = "backoff"

\* _mqtt_session() raised: no certificate could be fetched or decoded.
SessionFails ==
    /\ sup = "session" /\ ~stop
    /\ AttemptOver
    /\ UNCHANGED <<linked, stop, targets, elapsed, threadVars, ready>>

-----------------------------------------------------------------------------
(***************************************************************************)
(* The event loop runs the oldest posted callback.                         *)
(***************************************************************************)
Oldest(callback) == ready # <<>> /\ Head(ready) = callback

\* _set_connected(True), posted by the executor thread.
DeliverConnected ==
    /\ Oldest("connected")
    /\ connected' = TRUE
    /\ ready' = Tail(ready)
    /\ UNCHANGED <<linked, stop, sup, targets, backoff, elapsed, nap, threadVars>>

\* ingest_overview(serial, overview, live=True), posted by paho's thread.
DeliverFrame ==
    /\ Oldest("frame")
    /\ ready' = Tail(ready)
    /\ UNCHANGED <<loopVars, threadVars>>

\* The executor future completed.  A supervisor still waiting for it resumes:
\* after a cancel it only runs its `finally` and dies.  One that was cancelled
\* while waiting has gone and nobody looks at the result.
DeliverDone ==
    /\ Oldest("done")
    /\ ready' = Tail(ready)
    /\ \/ /\ sup = "thread" /\ ~stop
          /\ AttemptOver
       \/ /\ sup = "thread" /\ stop
          /\ sup' = "ended"
          /\ connected' = FALSE
          /\ UNCHANGED <<backoff, nap>>
       \/ /\ sup # "thread"
          /\ UNCHANGED <<sup, connected, backoff, nap>>
    /\ UNCHANGED <<linked, stop, targets, elapsed, threadVars>>

\* CancelledError is thrown into the supervisor.  Inside an attempt its
\* `finally` clears the flag; a blocking call still queued for the executor is
\* withdrawn, one already running is not.
DeliverCancel ==
    /\ Oldest("cancel")
    /\ ready' = Tail(ready)
    /\ sup' = "ended"
    /\ connected' = (connected /\ ~Attempting)
    /\ worker' = IF worker = "queued" THEN "none" ELSE worker
    /\ UNCHANGED <<linked, stop, targets, backoff, elapsed, nap,
                   stopSet, subscribed, dropped>>

-----------------------------------------------------------------------------
(***************************************************************************)
(* The executor thread.                                                    *)
(***************************************************************************)
Move(from, to) ==
    /\ worker = from
    /\ worker' = to
    /\ UNCHANGED <<loopVars, stopSet, subscribed, dropped>>

Post(callback) == ready' = Append(ready, callback)

\* A pool thread picks the call up.
WorkerStart == Move("queued", "connecting") /\ UNCHANGED ready

\* connect() succeeded and paho's network thread was started.
WorkerConnect == Move("connecting", "waiting") /\ UNCHANGED ready

\* connect() raised: certificate expired, TLS or socket error.
WorkerConnectFails == Move("connecting", "none") /\ Post("done")

\* Fault: on_connected() is called as soon as the connection is made.
FaultAnnounceEarly == Move("waiting", "up") /\ Post("connected")

\* subscribed.wait() returned: on_connected() is called, wakes are sent.
WorkerAnnounce == subscribed /\ Move("waiting", "up") /\ Post("connected")

\* subscribed.wait(connect_timeout) timed out.
WorkerNotSubscribed == ~subscribed /\ Move("waiting", "closing") /\ UNCHANGED ready

\* Fault: the watching loop only looks at the stop event.
FaultDropIgnored == stopSet /\ Move("up", "closing") /\ UNCHANGED ready

\* The watching loop sees either event and leaves the `with` block.
WorkerLeave == (stopSet \/ dropped) /\ Move("up", "closing") /\ UNCHANGED ready

\* operator_session's teardown joined paho's thread; the call returns.
WorkerClose == Move("closing", "none") /\ Post("done")

WorkerStep ==
    \/ WorkerStart \/ WorkerConnect \/ WorkerConnectFails \/ WorkerAnnounce
    \/ WorkerNotSubscribed \/ WorkerLeave \/ WorkerClose

-----------------------------------------------------------------------------
(***************************************************************************)
(* paho's network thread.  It reconnects and subscribes again on its own   *)
(* after a drop, so each of these may follow any other until it is joined. *)
(***************************************************************************)
\* Fault: the session's teardown does not join the network thread.
FaultNotJoined == worker \in {"none", "waiting", "up", "closing"}

NetworkThread == worker \in {"waiting", "up", "closing"}

Subscribed ==
    /\ NetworkThread
    /\ subscribed' = TRUE
    /\ UNCHANGED <<loopVars, stopSet, worker, dropped, ready>>

Drop ==
    /\ NetworkThread
    /\ dropped' = TRUE
    /\ UNCHANGED <<loopVars, stopSet, worker, subscribed, ready>>

Frame ==
    /\ NetworkThread
    /\ Len(ready) < MaxReady
    /\ Post("frame")
    /\ UNCHANGED <<loopVars, threadVars>>

-----------------------------------------------------------------------------
Ageing == Attempting /\ elapsed < Healthy

Tick ==
    /\ nap > 0 \/ Ageing
    /\ nap' = IF nap > 0 THEN nap - 1 ELSE 0
    /\ elapsed' = IF Ageing THEN elapsed + 1 ELSE elapsed
    /\ UNCHANGED <<linked, stop, connected, sup, targets, backoff,
                   threadVars, ready>>

Supervise == Begin \/ LookAgain \/ Retry \/ SessionReady \/ SessionFails

Deliver == DeliverConnected \/ DeliverFrame \/ DeliverDone \/ DeliverCancel

Network == Subscribed \/ Drop \/ Frame

Next ==
    \/ Relink \/ Start \/ Stop
    \/ Supervise \/ Deliver
    \/ WorkerStep \/ Network
    \/ Tick

(***************************************************************************)
(* The event loop keeps running what is ready, timers fire, an awaited     *)
(* request answers or times out, and a started thread runs: every wait in  *)
(* listen_overview_blocking has a timeout except the watching loop, which  *)
(* polls its two events.  Nothing is assumed of the broker, of the         *)
(* operators, of the account or of the user.                               *)
(***************************************************************************)
Fairness ==
    /\ WF_vars(Supervise)
    /\ WF_vars(Deliver)
    /\ WF_vars(WorkerStep)
    /\ WF_vars(Tick)

Spec == Init /\ [][Next]_vars
FairSpec == Spec /\ Fairness

-----------------------------------------------------------------------------
(***************************************************************************)
(* Properties.                                                             *)
(***************************************************************************)
Posted(callback) == \E i \in 1..Len(ready) : ready[i] = callback

\* Until the entry is unloaded, `active` is true only while an attempt is in
\* progress whose subscriptions were confirmed: the poll and the post-press
\* follow never stand down for a connection that is still being set up, that
\* failed, or that belongs to an earlier attempt.
ActiveIsSubscribed ==
    connected /\ ~stop => sup = "thread" /\ subscribed /\ targets # {}

\* Between two attempts nothing of the last one is left: its thread has
\* returned (the fixed client id is free again) and no frame, no late
\* "connected" and no completion of it is still waiting for the event loop.
NothingLeftBehind ==
    sup \in {"session", "backoff", "nowifi"} =>
        /\ worker = "none"
        /\ \A c \in {"connected", "frame", "done"} : ~Posted(c)

\* The reconnect delay only ever shrinks after an attempt that lasted
\* _HEALTHY_UPTIME: a broker that refuses quickly is never asked faster.
BackoffOnlyResetsWhenHealthy ==
    [][backoff' < backoff => elapsed >= Healthy]_vars

\* A drop noticed while listening always ends in `active` going false, so the
\* polling fallback takes over.
DropFallsBack == (connected /\ dropped /\ ~stop) ~> ~connected

\* The supervisor never gets stuck: while it is not connected it always gets
\* to another attempt, unless the account has no Wi-Fi operator or it stops.
KeepsTrying ==
    (sup # "idle" /\ ~connected)
        ~> (sup = "session" \/ connected \/ linked = {} \/ stop)

\* After async_shutdown the executor thread is released for good, although it
\* cannot be cancelled.
ThreadReleased == stop ~> [](worker = "none")

(***************************************************************************)
(* The inductive strengthening of the two safety invariants.               *)
(***************************************************************************)
\* The executor thread belongs to an attempt still waiting for it, or to a
\* supervisor that was cancelled while waiting.
ThreadOwned == worker # "none" => sup \in {"thread", "ended"}

\* Outside an attempt the only callback that can be pending is a cancel.
QuietOutside == sup \notin {"thread", "ended"} =>
                    \A i \in 1..Len(ready) : ready[i] = "cancel"

\* A completion is the last thing an attempt posts, and nothing follows it.
DoneIsLast == \A i \in 1..Len(ready) :
                  ready[i] = "done" => i = Len(ready) /\ worker = "none"

\* The supervisor is cancelled only by async_shutdown, and starts unstopped.
CancelFromStop ==
    /\ Posted("cancel") \/ sup = "ended" => stop
    /\ sup = "idle" => ~stop

\* A "connected" on its way was posted after the subscriptions were confirmed.
ConnectedAfterSubscribe == Posted("connected") => subscribed

\* An attempt has operators to listen to.
AttemptHasTargets == sup \in {"session", "thread"} => targets # {}

IInv ==
    /\ TypeOK
    /\ ThreadOwned
    /\ QuietOutside
    /\ DoneIsLast
    /\ CancelFromStop
    /\ ConnectedAfterSubscribe
    /\ AttemptHasTargets
    /\ ActiveIsSubscribed

\* LiveListener implements LiveChannel.
Channel == INSTANCE LiveChannel WITH
    link   <- IF stop THEN "shut" ELSE IF sup = "thread" THEN "open" ELSE "down",
    active <- connected

ImplementsChannel == Channel!ChannelSpec

=============================================================================
