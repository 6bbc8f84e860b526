# A TLA+ model of the Centsys Remote integration

`custom_components/centsys_remote` is a Home Assistant integration for gate and
garage door operators. It talks to Wi-Fi operators over MQTT, to GSM and ULTRA
operators over an HTTP gateway, and to gates that somebody else shares over a
second backend. One Python event loop runs most of it; the MQTT work blocks and
so runs in executor threads, each with a paho network thread beside it.

This directory models the parts that keep state and move gates. TLC
checks the models on small instances, TLAPS proves some of their properties for
every instance. All paths below are relative to
`src/custom_components/centsys_remote/`.

    tlc -workers 2 -config LiveListener.cfg MCLiveListener
    tlapm LiveListener_proofs.tla

- [The system](#the-system)
- [The modules](#the-modules)
- [The runs](#the-runs)
- [Bounds](#bounds)
- [Fairness](#fairness)
- [The proofs](#the-proofs)
- [Findings](#findings)
- [What is not modelled](#what-is-not-modelled)
- [Plan](#plan)

## The system

| Component | Source | State it keeps | Operations |
|---|---|---|---|
| Live listener | `live_listener.py`, `mqtt_remote.listen_overview_blocking` | supervisor task, `active`, `_stop`, the delay before the next attempt; in the thread: its stop event, subscription and drop events | start, stop, one connection attempt, back-off |
| Telemetry cache and pacing | `coordinator.py`, `entity.py`, `mqtt_remote.follow_overview_blocking` | `_overview_cache`, `coordinator.data`, `_last_telemetry`, the current interval, live labels and their TTL, the serials that are followed | update cycle with its sweep, forced refresh, read on demand, follow after a press, frames from the listener |
| Decoding and classification | `api/mqtt_remote.py`, `api/enums.py`, `api/packets.py` | none between messages; the bounded read keeps its result | choose a layout, decode, classify, read until there is an overview and an answer |
| Operator control | `cover.py`, `button.py`, `switch.py`, `entity.py` | which entities exist, the call in progress | open or close, pedestrian, switch a mode with read-back |
| Activation handshake | `mqtt_remote.open_gate_blocking`, `operator_session` | queued replies, their event, phase of the handshake | connect, subscribe, identify, challenge, synchronise, activate, retry once |
| Config entry life cycle | `__init__.py`, `coordinator.py` | entry state, persisted product codes, follows that run on | set up, unload, reload on a change |
| Shared-access gates | `cover.py`, `button.py`, `coordinator.py`, `api/client.py`, `api/models.py` | list of shares and its age; at the backend: the share and its trigger count | slow list refresh, press (authorise, trigger, record) |
| GSM gate cover | `cover.py`, `coordinator.py` | last status, live label, the follow-up job | poll, trigger, follow |
| GSM outputs, diagnostics, airtime | `switch.py`, `button.py`, `coordinator.py` | `_gsm_io`, `_gsm_diag` and its age, the follow-ups of balance requests | poll, toggle, request, follow-up |
| Cloud status and models | `coordinator.py`, `api/models.py` | what a cycle has read so far, the published data | list, merge, poll, publish |
| Certificate cache | `api/client.py` | certificate and its age; per session the client id it connects with | fetch, reuse, invalidate, connect |
| HTTP client and sign-in | `api/client.py`, `config_flow.py`, `coordinator.py` | forms that are open, region and token of the entry and of its client | add, sign in again, change the datacentre, refuse a poll |
| Sensors, constants | `sensor.py`, `binary_sensor.py`, `const.py` | none | read only |

How they interact. Everything meets in the coordinator. The **listener** and
the **follow** run in threads and post what they decode to the event loop
(`call_soon_threadsafe`); the **update cycle** and an entity's **read on demand**
store what they have awaited. All four end in `ingest_overview`, which writes
the cache and `coordinator.data` and may persist a product code that the
operator reported. A persisted code changes the config entry, which **reloads**
it, which unloads the coordinator whose threads may still be running. While
`LiveListener.active` is set, follows are not started; that flag is the whole
interface between listener and coordinator. **Control** reads the cache, or
awaits telemetry, to learn what kind of operator it deals with, picks an activation
and hands it to the **handshake**. Shared gates and GSM gates have their own slow
caches, filled by the same update cycle. Every MQTT session, of a press, a read, a
follow or the listener, takes the client's one **certificate** and competes at the
broker with sessions of the same client id. The **config flow** writes the token
that the coordinator's client is built with, and a refused poll starts it.

What makes it hard:

- *Threads.* Cancelling an asyncio task leaves its executor thread running.
  Callbacks that such a thread posted are delivered later, perhaps to a
  coordinator that was unloaded.
- *State that is read before an await and used after it.* A gate's kind, a
  share's permissions, a switch's state are all decided on what was true earlier.
- *One activation with two meanings.* Activation id 1 opens a garage and toggles
  Holiday Lock on a gate.
- *An unreliable broker.* Replies carry no correlation, and a second activation
  may be sent in one handshake: a misread refusal would move the gate twice.
- *Timers that share a variable.* One timestamp paces the telemetry of all operators.
- *Overlap.* Nothing in this code keeps scheduled, requested and forced update cycles
  apart, nor presses, nor the forms of the config flow.
- *Pulses.* The gateway queues them and each toggles: turning on and off are one command.

What makes each component correct:

| Component | It is correct when |
|---|---|
| Live listener | it is active only while really subscribed, attempts never overlap, a refusing broker is asked ever more slowly, a drop brings polling back, it never gives up, and stopping it releases the thread |
| Telemetry | cache and published data agree, a follow leaves no label behind, the radio rests between sweeps, follows end, telemetry goes on |
| Decoding | no field is read beyond its message, a garage is read as a garage, and classification follows the reported code |
| Control | a garage's opening activation reaches garages only, gate-only controls reach gates only, a garage known as one still opens in a telemetry gap, controls appear once they may |
| Handshake | the operator acts a second time only if a reply was late and it accepts several versions, the result says what happened, it ends |
| Entry | an unload leaves threads behind but never a task, and reloading settles with the codes known |
| Shared gates | opens are counted, an ended share moves nothing, a limit is exceeded by no more than the presses under way and the opens never recorded, the list catches up |
| GSM cover | there is one follower at a time, it ends, and the cover shows where the gate rests |
| Cloud update | what is published in the end is what the cloud has, a balance that is reported is shown, and an output is switched as asked unless what the user saw was overtaken |
| Broker sessions | a session is refused because of its own kind only, and the listener comes back whatever becomes of certificates |
| Sign-in | a stored token takes effect, belongs to the stored datacentre, an entry is never replaced, and the entry works again after any refusal |

## The modules

Each specification that TLC runs comes with an `MC` module, which gives its
constants finite values (`MCCloudUpdate` and `MCSharedTrigger` also split the behaviours, see
[Bounds](#bounds)). `Fault...`
definitions are small mistakes a programmer could make, one per property, used
to see that the property would notice; no specification uses them.

**LiveChannel** is what the listener promises to the coordinator: two variables,
`link` and `active`. While the listener is not stopped, `active` is raised only
during an attempt and is gone before the next one begins. After the stop nothing
is promised (see [Findings](#findings)).

**LiveListener** is the detailed listener. `sup` is where the supervisor task
is suspended, `worker` where the executor thread is, `ready` the event
loop's queue of posted callbacks. The loop (`Start`, `Stop`, `Supervise`,
`Deliver`), the thread (`WorkerStep`), paho's thread (`Network`) and time (`Tick`)
interleave freely. `elapsed` measures how long an attempt has been connected,
`nap` counts down the back-off. It implements `LiveChannel`: `link` is `"open"`
while `sup` waits for the thread and `"shut"` once `stop` is set.

**LiveTelemetry** takes `LiveChannel` for the listener and models the rest of the
telemetry: cycles (`Cycles`) that overlap, each with its phase; the sweep over
the operators that are due; the interval that widens after an empty sweep; forced
refreshes; reads on demand; follows with their thread, the callbacks they post
and the clean-up when they end; live labels with their TTL.

**OperatorFamily** holds the pure part of classification: layouts with their
lengths and offsets, product codes and how they are shifted, `layout_for`,
`classify`, `is_gate`, `is_garage`. **TelemetryFrames** uses it for the bounded read:
connect, subscribe, ask for a connection, wait for an overview *and* for the
operator's answer, time out. The values of fields are abstracted; what is kept
is the message's length, its reported code, and which layout reads it.

**GateControl** uses `OperatorFamily` too. An operator has a kind and a set of
messages it may broadcast; the integration has a cached overview, a persisted
code, the gate-only controls it has created, and any number of concurrent calls.
A call resolves the family (from the cache, or by a fetch that may fail), sends
the activation and, for a switch, reads the result back.

**ActivationHandshake** is `open_gate_blocking`: the caller's thread, paho's thread
that appends replies and sets the event (two steps), the broker that may lose
anything or keep a reply back for a later handshake, an operator that checks the code
it is sent and accepts any set of configuration versions (`accepts`), and the ways an
encrypted answer may be misread (`Misread`).

**EntryLifecycle** is the config entry across reloads: coordinators are
numbered, a follow belongs to the coordinator that started it and may outlive
it, and learning a code writes the entry and so asks for a reload.

**SharedTrigger** is one shared gate: the owner who edits or removes the share, the
backend that counts triggers, cycles that fetch the list with answers that may
arrive out of order, and presses, each of which is three requests.

**GsmGate** is a GSM cover: a gate that moves on its own, cycles that poll it, presses,
and the follow-up job with its flag, its label and its end.

**SignIn** is the config flow with the entry it writes: forms that add the
integration, the one prompt for signing in again, forms that change the
datacentre, all open at once; the cloud that issues and revokes tokens; the
entry that is set up, polled, refused and reloaded under Home Assistant's lock.
What a form fixes early (its region, its check of the number) and uses late is kept
in the form's state.

**BrokerSessions** is `_mqtt_session` and `_run_mqtt`: a certificate is reduced to
whether the broker accepts it, calls it expired or refuses it for another reason
(`"revoked"`), a session to its stage and its client id. Only "expired" drops the cached
certificate (`Rejected`, `Invalidate`), and not when a follow is told, which swallows it
(`NotAccepted`). A reload starts
with an empty cache while the threads of the old sessions stay connected (`left`).

**CloudUpdate** is the update cycle without telemetry and shares, await by await,
for one Wi-Fi operator and one GSM device with a two-state output and a balance:
what a cycle has read (`read`), the answer it is about to store (`heard`), the
caches that are kept between cycles, the data it publishes at its end. An answer that
is no configuration empties the device list (`Unlisted`), and one of an operator that is
offline has no balance and is stored like any other (`Reported`). Beside the cycle run the
output's switch and the follow-ups of balance requests, a task of its own for each press
(`Jobs`).

The **..._proofs** modules hold the theorems, see [The proofs](#the-proofs). Three of them
extend two specifications that meet in the code, which is why `EntryLifecycle`,
`BrokerSessions` and `CloudUpdate` prefix the usual names (`EntryInit`, `BrokerSpec`).

How they compose: `LiveListener` refines `LiveChannel`, and `LiveTelemetry` uses
`LiveChannel`, so the coordinator's half is checked against what the listener's
half was shown to provide. `TelemetryFrames` and `GateControl` share
`OperatorFamily`, so what the decoder may produce is what control acts on. The
update cycle appears in four modules, each with the awaits of its own phase:
telemetry, shares, GSM status, and the rest. They share no variable but the order
of the phases.

`PROJECT.json` maps each definition to the lines it stands for.

## The runs

| Run | What it asks | What it shows |
|---|---|---|
| `listener` | Two operators; every interleaving of loop, thread, network thread and time | active implies subscribed (`ActiveIsSubscribed`), attempts do not overlap (`NothingLeftBehind`), the delay shrinks only after a healthy attempt (`BackoffOnlyResetsWhenHealthy`), a drop falls back to polling (`DropFallsBack`), the supervisor keeps trying (`KeepsTrying`), a stop releases the thread (`ThreadReleased`); the refinement of `LiveChannel` (`ImplementsChannel`) |
| `telemetry` | One operator, an update cycle, a follow, reads on demand and the listener at once | data and cache agree at every step (`CacheAndDataAgree`), a follow's label goes when the follow does (`FollowLabelEndsWithFollow`), two sweeps are never closer than the floor (`RadioRests`), every follow ends (`FollowEnds`), telemetry is read again and again (`TelemetryGoesOn`) |
| `frames` | Every pair of a length and a code around the boundaries of the tables | no read past the message (`BodyNotOverrun`), garages are read as garages (`GarageReadAsGarage`), classification agrees with the table of reported codes (`ClassifiedByReportedCode`) |
| `control` | Two concurrent calls on each of six operators | `RUN` goes to garages only (`RunOnlyToGarages`), gate-only controls to gates only (`GateControlsOnlyOnGates`), a garage known from before opens in a telemetry gap (`KnownGarageOpens`), controls appear (`ControlsAppear`) |
| `control_untagged` | A garage that sometimes omits its code | *violation*: it is sent Holiday Lock (`HolidayLockNeverToKnownGarage`) |
| `handshake` | Two handshakes, one after the other, with operators that accept one of the versions tried, or several; loss, delay, misread replies | no second action in a handshake unless a reply was late and the operator accepts several versions (`ActsAgainOnlyIfLate`), the verdict is right unless a late reply of an earlier handshake came between (`TrueExactlyWhenActed`), it always ends (`HandshakeEnds`) |
| `entry` | Two operators, three lives of the coordinator, follows that outlive theirs | a follow *task* never outlives its coordinator, only its thread does (`OnlyThreadsOutlive`), and once users leave the entry alone reloading stops with every code known (`ReloadsSettle`) |
| `shared` | Two concurrent presses, two overlapping list requests, an owner who edits or removes | opens are counted (`OpensAccounted`), an ended share moves nothing (`EndedAccessMovesNothing`), a limit is exceeded only by presses authorised together and opens never recorded (`LimitOverrunBounded`), entities in the end show the share (`ListCatchesUp`) |
| `gsm` | Two overlapping cycles, a press during a follow, a gate that moves on its own | one follower (`OneFollower`), which ends (`FollowEnds`), and a gate at rest is in the end shown where it rests (`ShownWhereItRests`) |
| `cloud` | A cycle's awaits against a world that changes between them; two users of one output; balance requests with two follow-ups at a time; answers that have no balance, lists that lose the device | an output is switched as asked unless what the call saw was overtaken (`SwitchedAsAsked`), what entities show becomes what there is (`WorldIsShown`), a balance that rests and that answers have comes to be shown (`BalanceIsShown`) |
| `broker` | A read, a follow and a listener that share a certificate, in two lives of the client | sessions are refused by their own kind only (`RefusedByItsOwnKind`), the listener is connected again and again, unless a certificate that is refused without having expired stays cached for ever (`ListenerReturns`) |
| `sign_in` | Two forms that add, one that changes the datacentre, the prompt; two datacentres; tokens revoked at any time, restarts | a stored token takes effect (`TokenTakesEffect`) and is of the stored datacentre except in the one case of [Findings](#findings) (`TokenOfItsRegion`), an entry is never replaced (`NeverReplaced`), the entry works again after any refusal (`Recovers`) |

A *violation* run looks for a counterexample to a sentence of the code's
own documentation and finds it; the others find none. Deadlock is
checked in all but the handshake's run, whose model stops after its last call.
The type invariants are in no run: they are proved, by a theorem or as a part of the
inductive invariant (handshake, shared), and TLC finds them to hold in the
instances above when they are named on the `INVARIANT` line.

## Bounds

Every bound is a constant with a named assumption, or a set in an `MC` module.

- Listener: `BackoffMin = 1`, `BackoffMax = 3`, `Healthy = 2`: the delay doubles, is cut
  off by the cap and is reset. `MaxReady = 2` bounds the event loop's queue
  together with the thread's completion and a cancel: two callbacks suffice for
  a late one to be overtaken by a stop or a drop. Two operators so that linking changes
  the set an attempt subscribes to.
- Telemetry: one operator, because the cache, the labels and the follows are kept per
  serial; only the pacing is shared, and the property about it (`TelemetryGoesOn`)
  speaks of all operators. `TTL = 2`, `ScanInterval = 2`, `SlowInterval = 3`,
  `ForceFloor = 2` keep the order of the code's constants, with one widening of
  the interval. `MaxReady = 1`. One cycle, beside which reads, a
  follow and the listener store frames; the safety properties are proved for any
  number of cycles that overlap. Whether Home Assistant lets refreshes overlap
  depends on its version and on how they are asked for; the models allow it everywhere.
- Frames: a length one below, at and one above every layout, and codes on both
  sides of every boundary of the tables, of the shift by two, and "no code".
- Control: four gates (tagged and untagged, of each family, and one that only a length tells),
  two garages that also send gate-sized frames; two calls so that a frame, a
  fetch and another call come between reading the family and sending.
- Handshake: two calls, so that a reply can be late for one and early for the
  next; versions 0, 1 and 2, so that the retry may be right or wrong. Operators accept {0},
  {1}, {0, 1} or {1, 2}: one version with or without a retry, the first and the retry's, or
  the retry's and one more (`mqtt_remote.py:685`, `:765` speak of stricter operators).
- Entry: three coordinators, so that an orphan of the first meets the third; two
  operators, so that one code can be lost while another is learned.
- Shared: `MaximumTriggers = 1` with two presses races for the last open; two cycles
  so that lists overtake each other; `MaxEdits = 1` and `MaxTriggers = 3` cap the
  owner and the counter: one more trigger than two presses under a limit of one explain.
  Behaviours in which two cycles overlap have one trigger at most, the others one cycle at
  a time (`overlap` in `MCSharedTrigger`).
- GSM: `MaxFollowers = 2` so that a second follower could exist if the code allowed it.
- Cloud: one cycle, whose awaits the world, the users and the follow-ups interleave with.
  Cycles that overlap are in the module but beyond TLC here: two have more than two
  million states.
  The operator, the output and the balance share nothing but the cycles that read
  them, so each behaviour changes one of the three, chosen at its start
  (`changing` in `MCCloudUpdate`), while the lookups of the others succeed. Two users and `MaxPulses = 1`: a pulse may be queued
  while the other user's call, begun on the same state, waits. `DiagAge = 1`, `Attempts = 2`: diagnostics may be
  due or not, and a follow-up may fail, be answered, or run out. Two follow-ups, `Jobs`, so
  that one stores an older answer after the other.
- Broker: one session of each kind that streams or reads, and its predecessor's
  thread; activations connect under an id that never disturbs the others.
- Sign-in: two datacentres and two tokens (a coordinator's and the stored one), two
  forms that add so that they race, `MaxReloads = 2` for the two reloads that one
  change may ask for.

Bounds on counters are guards on steps of users and the environment (an owner's edit, a
frame's arrival, a form's submission), never on steps of the code that liveness needs.
Two of them bound a step of a call in progress: `MaxPulses`, where the gateway's queue
empties by itself or the call is refused, and `MaxReloads`, where waiting reloads are
carried out.

## Fairness

Safety properties are checked or proved without fairness. For liveness:

- **Listener**: weak fairness of the supervisor, of the delivery of posted
  callbacks, of the thread's steps and of time. All waits in
  `listen_overview_blocking` have a timeout, except the loop that watches two
  events, which polls. Nothing is assumed of the broker or the operators.
- **Telemetry**: scheduled cycles start, proceed and end; posted callbacks run;
  follows proceed; time passes. A cloud that always fails starves telemetry, so
  a scheduled cycle is assumed to get its list again and again (strong
  fairness). Nothing is assumed of presses, operators or the listener.
- **Control**: an update is published again and again.
- **Handshake**: the thread goes on. Each wait has a timeout, so its step is always possible.
- **Entry**: Home Assistant carries set-up, reload and unload through and repeats
  a failed set-up until one succeeds; follows end; while the entry is loaded
  each operator is heard again and again.
- **Shared**, **GSM**: time passes, cycles start, requests end, and
  some cycle's answer gets through and is stored again and again. That is strong
  fairness on the disjunction over cycles: a particular cycle need not succeed.
- **Cloud**: cycles are scheduled for ever, every await ends, and each kind of request
  is answered again and again. Nothing is assumed of the follow-ups' answers,
  which a cycle's reading replaces, nor of users. `BalanceIsShown` excepts, in its formula,
  answers without a balance and lists without the device that keep coming (`BalanceHidden`).
- **Broker**: every wait in a thread ends, the supervisor tries again, and the cloud
  and the broker answer it again and again. Certificates need not age: where
  one that is refused but not expired stays fresh, `ListenerReturns` claims nothing
  (`StuckWithRevoked`).
- **Sign-in**: Home Assistant polls and carries set-ups and reloads through; the cloud
  answers set-ups again and again and sends the PIN; a prompted user signs
  in; a user whose entry has stopped without a prompt (see [Findings](#findings)) reloads it.

`ReloadsSettle`, `ListCatchesUp`, `ShownWhereItRests`, `WorldIsShown`,
`BalanceIsShown`, `ListenerReturns` and `Recovers` have their conditions in
the formula: users, the owner, the gate, certificates or tokens eventually are
left alone. Each condition is met by some behaviours, as the mutants that violate
the properties show.

## The proofs

Every invariant and every action property that a passing run checks is also proved. The proofs
are about any number of operators, calls, cycles, sessions, forms and callbacks, and any
delays that satisfy the named assumptions; where a run's bound is small, they take over.

**LiveListener_proofs** (assumptions `BackoffAssumption` and
`HealthyAssumption`: the delays are naturals in order). `ActiveIsSubscribed`
is not inductive: a callback that says "connected" is already in the queue when
the attempt that posted it fails. What excludes a late one is a chain:

- `ThreadOwned`: the thread runs only while the supervisor waits for it, or was cancelled while waiting;
- `DoneIsLast`: a completion is the last callback of its attempt, and its thread is gone by then;
- `QuietOutside`: so between attempts nothing but a cancel can be pending;
- `ConnectedAfterSubscribe`: a pending "connected" belongs to a subscribed attempt;
- `CancelFromStop`: a cancel comes from `async_shutdown` only, so a supervisor that ended was stopped;
- `AttemptHasTargets`: an attempt has operators.

`IInv` is their conjunction with the types and `ActiveIsSubscribed`. Lemmas
about the queue (`PostProperties`, `TakeProperties`) say what appending and
taking do; `IInvStep` has a case for each action. From `Inductive`
(`Spec => []IInv`) follow `TypeCorrect`, `ActiveOnlyWhenSubscribed` and
`AttemptsDoNotOverlap`. `ListenerImplementsChannel` shows that every step
is a step of `LiveChannel` or a stutter. `NeverAskedFaster` is `BackoffOnlyResetsWhenHealthy`:
of the steps that set the delay one resets it, behind its guard, and the others double it
up to a cap that it never exceeds by its type.

**LiveTelemetry_proofs** (`TTLAssumption` and `CadenceAssumption`: the intervals are in
order). `TypeCorrect` includes that the interval stays between the first
one and the slow one. `DataIsNewest` is `CacheAndDataAgree`: every producer caches and publishes
in one step of the loop, and the end of a cycle publishes from the cache of that moment.
`SweepsKeepTheirDistance` is `RadioRests`; it needs `RestCounted`, that `_last_telemetry` is
never older than the start of the last sweep until the floor has passed.
`FollowLeavesNoLabel` needs the order of a follow's callbacks (`FollowOrder`): its
completion is posted once, and after its last frame.

**GateControl_proofs**, of `GateControl` and `EntryLifecycle`. What the integration believes about an operator is
never checked again, so the invariant `IInv` says that everything it holds is
true: the cached overview, the persisted code, the existence of the controls,
and the family each call in progress has resolved. That it is kept rests on
lemmas about `OperatorFamily`'s tables and on one assumption about the world,
`FramesTruthful`: no gate broadcasts a message that is classified as a garage's,
and no garage one that is classified as a gate's. Under it `BeliefsTrue`,
`TypeCorrect`, `RunReachesGaragesOnly` and `GateControlsReachGatesOnly` hold for
every set of operators and of calls. The assumption is needed: `control_untagged`
drops it, with a garage that omits its code, and the gate-only control reaches it.
`PersistedGarageOpens` is `KnownGarageOpens`. It needs another assumption besides,
`CodesAgree`: the codes that one garage reports are of one kind, whatever frames it leaves
them out of. Then `GarageInv` is inductive under `IInv`: what has been learned was reported by this
operator (`LearnedFromIt`), and a call that began with a garage still has one and acts on
it (`StaysGarage`), though other calls and frames change the cache in between. The instances
of both runs satisfy `CodesAgree`, that of `control` also `FramesTruthful` (`MCGateControl`
states both for TLC).

Codes survive in the entry, so its life is proved here too. `UnloadLeavesThreadsOnly`: a set-up
builds a coordinator of its own and an unload cancels the tasks of the one it unloads, so no
other coordinator has a follow task, however many lives the entry has had (`EntryTypeCorrect`
gives the types).

**ActivationHandshake_proofs** (`VersionsAssumption`, `AcceptancesAssumption`: an operator
accepts some set of versions, not empty; `MaxCallsAssumption`). `SecondActNeedsDelay` is
`ActsAgainOnlyIfLate`, in two halves. While no reply was late (`InTurn`, below), the retry follows a true
refusal only. With an operator that accepts a single version it is harmless even after an
acceptance that was misread: it carries another version (`VersionsDiffer`; the first is 0,
`FirstIsZero`, and the retry's is not), so what is on its way once the operator has
acted is refused (`RestRefused`). What remains is an operator of several versions after a late
reply, which may act twice (see [Findings](#findings)).

`VerdictIsTrue` is `TrueExactlyWhenActed`. Replies carry no number that says which request
they answer; the one that is popped next is taken as the answer. `InTurn` says why that is right
until something comes late: at most one message is on its way at any time, and it is `Lost`,
a request (`Asked`), its answer (`Replied`), or what is `Heard` in the queue. The request is
of the handshake and of the version that the thread is waiting with (`Current`), and the answer accepts
exactly if the operator has acted (`True`). `late` turns true with the first message that is kept back,
after which `InTurn` claims nothing. TLC checked `InTurn` and `Reported` on the instance
of `handshake` before they were proved.

**TelemetryFrames_proofs**, of `TelemetryFrames` and `BrokerSessions` (`LengthsAssumption`,
`CodesAssumption`: lengths are naturals, codes integers or none). The tables are finite but the
lengths and codes that a broker may deliver are not. `DecoderFits` goes through `layout_for` by
its cases, for every length and code; with the types of messages it gives `BodiesNotOverrun`.
`CodeTable` computes `product_family` for every integer and gives `CodesClassified`.
`GaragesReadAsGarages` has an inductive invariant of its own with the overview that a
read holds (`ReadInv`): an overview that `is_garage` calls a garage's can only
have come from the garage's layout (`GarageLayout`).
For the sessions of a read, a follow or a listener, `KindsKeptApart` is
`RefusedByItsOwnKind`: equal client ids belong to one kind (`DuplicateOfItsKind`), and a
session is refused in no other step than its own connection. `SessionsTypeCorrect` has the types.

**SharedTrigger_proofs** (`SharedAssumption`: finitely many presses, natural bounds).
`BooksInv` keeps the books: `Books` equates what was triggered with what the backend
counted, what is being recorded and what was given up; `Budget` and `Outstanding` relate
the counts to the presses in progress, by their cardinality; `StaysBarred` says that a
press begun after the access had ended never reaches a trigger. `Overrun` bounds the count at the
backend together with the presses that are past their authorisation (`Authorising`): one more is
authorised only while the count is below the limit, and there are never more than `Presses`.
`EveryOpenAccounted`, `EndedAccessIsRefused` and `LimitIsKept` follow.

**GsmGate_proofs** (`GsmAssumption`). `OneFollowerAtMost`: `_polling` is set exactly while one
job runs and a label exists only then, for any number of presses and cycles (`FollowerInv`).
`TypeCorrect` bounds deadlines and labels and says that a label which lasts has a position.

**HttpClient_proofs**, of `SignIn` and `CloudUpdate` (`RegionsAssumption`: there is a datacentre;
`NumbersAssumption`). `StoredTokenTakesEffect`: while the entry
and its coordinator's client differ, a reload is waiting. It is nearly
inductive by itself (`EffectInv` adds that waiting reloads are a natural number), because each form
that writes the entry asks for a reload in the same step or turns to its own.
`AddingNeverReplaces` (`NeverReplaced`) and `TokenMatchesRegion` (`TokenOfItsRegion`) rest on
`FormsInv`, checked by TLC first: of the forms that add the number one at most is past its
check, and only while there is no entry (`OneAdds`); before there is one nothing prompts, reloads or
changes it (`NothingYet`); a prompt that is not outdated has the entry's datacentre
(`PromptsItsRegion`). Without the second, a new entry might meet a prompt of its predecessor.

Of the cloud's update, `PulseSwitchesAsAsked` is `SwitchedAsAsked`. A call that has passed `Redundant`
asks for the opposite of what it saw (`CallsChange`), and one more pulse turns the output's
resting state around (`PulseFlips`); so if what it saw was the resting state, the pulse brings what was
asked for. It holds with any number of cycles, users and pulses, which TLC
cannot reach. `FollowUpsKeepCount` has the types and `PollsLeft`: each follow-up, of any number,
counts its own polls, and while its answer waits to be stored that poll is among those it has left,
whatever the others store.

Only model-checked is all liveness (`DropFallsBack`, `KeepsTrying`, `ThreadReleased`,
`FollowEnds` of telemetry and of the cover, `TelemetryGoesOn`, `ControlsAppear`, `HandshakeEnds`,
`ReloadsSettle`, `ListCatchesUp`, `ShownWhereItRests`, `WorldIsShown`, `BalanceIsShown`, `ListenerReturns`,
`Recovers`): the provers have no rules for fairness, which needs ENABLED.

No module declares a recursive operator.

## Findings

One sentence of the code's documentation is refuted by a run:
`control_untagged`. `coordinator.is_known_gate` and `entity._resolve_family`
believe the newest frame's shape before the code that the operator reported
earlier (`coordinator.py:277`). The docstring (`coordinator.py:271`) reserves gate-only controls
to operators "positively known to be a gate".

Seen while modelling, with no run of their own; where a property has an exception for
one, its formula names it:

- Whatever reply is next is taken as the answer to the activation
  (`mqtt_remote.py:772`), so a late one of an earlier handshake makes
  `open_gate_blocking` return `True`, which should mean that "the gate accepted the
  trigger" (line 682). `TrueExactlyWhenActed` excepts it.
- A late reply to the time synchronisation is popped as the activation's answer and may be
  read as a mismatch of versions. The retry then moves an operator that accepts both versions
  a second time (`mqtt_remote.py:766`). `ActsAgainOnlyIfLate` excepts it.
- A "rejected/expired" certificate is said to be invalidated, "so the supervisor re-fetches on
  the next attempt" (`client.py:1131`), and the cache to be cleared "when the broker rejects the
  credential" (`client.py:894`). Only a TLS error that says `CERTIFICATE_EXPIRED` does that
  (`mqtt_remote.py:637`); refused for another reason, the certificate is tried again until it
  has aged (`CERT_CACHE_SECONDS`). A follow swallows both (`mqtt_remote.py:876`).
  `ListenerReturns` excepts it (`StuckWithRevoked`).
- An operator that is offline for a moment makes a known balance unknown until the next
  regular reading: the answer without one is stored (`client.py:639`, `coordinator.py:660`,
  `:682`). `BalanceIsShown` excepts it.
- `_remember_product_code` writes its own coordinator's dictionary as a whole
  (`coordinator.py:249`); a follow that outlived its coordinator removes codes learned
  since, which are said to stay available "across telemetry gaps and restarts". They are
  learned again (`ReloadsSettle`).
- A prompt for signing in again keeps the datacentre of its start
  (`config_flow.py:230`): answered after a change of the datacentre, it stores a token of
  the old one. The next poll is refused and prompts anew. `TokenOfItsRegion` excepts it.
- A poll that is refused while the prompt's own reload is under way finds that prompt
  still open, so nobody is asked to sign in and the polling has stopped, until
  the user reloads the entry (`config_flow.py:247`; `Unprompted`).
- The form for signing in again sends the PIN once: `_otp_sent` stays set, so a PIN
  that expired cannot be asked for again in that form (`config_flow.py:238`).
- A change of token or datacentre reloads the entry twice, by the form and by the update
  listener; after a set-up that failed there is no update listener.
- A read during a follow, or a second one of either, uses the client id that
  is connected already and is refused, although our own connections are said never
  to collide (`api/const.py:28`, `client.py:896`). So does the first listener after a
  reload, until the old thread has ended.
- `active` may be raised after `async_stop`, by a "connected" that was on its
  way (`live_listener.py:97`; docstring line 55). `LiveChannel` promises nothing once shut.
- An operator that is linked while the listener is connected is not streamed
  until the connection drops (`live_listener.py:111`; line 3 says every owned operator).
- A follow's clean-up removes the label that the listener has pushed meanwhile
  (`coordinator.py:335`; `const.py:36`).
- One timestamp paces the telemetry of all operators: a busy one postpones the
  reads of the others (`coordinator.py:206`; README line 145: about every ten minutes).
- With `strict`, a message of an unknown length is decoded nevertheless if its
  code names a family (`mqtt_remote.py:408`; line 460 says only exact known layouts).
- A mode switch compares with the state before its telemetry fetch and so
  toggles a mode that is already as wanted (`switch.py:137`; line 88 says it is skipped).
- Two presses, or a record that is lost, let a share exceed its maximum
  (`client.py:795`, `:805`): the trigger comes between the authorisation and the count.
  `LimitOverrunBounded` says by how much.
- The GSM gateway reports nothing while a gate opens, so the cover keeps
  its last label, and a press then is not followed by a state of its own; after a follow
  the cover may show an older position until the next poll.
- A two-state GSM output that is turned on twice between polls is switched off
  again (`switch.py:205`). `SwitchedAsAsked` excepts it.
- A shared trigger that is refused with "refresh required" raises; the list is
  not fetched before its interval is over.
- The follow-up of an airtime request ends at the first balance it sees, which
  may be the old one, and puts the next diagnostics off (`coordinator.py:684`).

## What is not modelled

- The values of telemetry fields, packet bytes, encryption, wording, logging, translations.
- The wake that the listener publishes periodically: it changes no state here.
- Concurrent handshakes of two presses on one client id and one topic (`client.py:976`): the
  model has them in sequence. With two, every reply may be anybody's, and the model
  would have to say more about the broker than the code shows.
- The verdict of a mode switch's read-back (`switch.py:137`, `:156`), which compares with a state
  that may be older than a change made elsewhere. `GateControl` has the read-back's steps,
  not its sentence.
- Of the diagnostics all but the balance; they are read together. Which of an
  operator's outputs opens the gate, and how a status is parsed (`api/models.py`).
- Repair issues, the options form, headers, the wording of errors.
- Sensors, tables and constants: views and data.

## Plan

Done: listener with its channel; telemetry; decoding and control; handshake; entry; shared
gates; GSM cover; sign-in; certificates and sessions; the cloud update with outputs and
balances; proofs of all safety properties. What is left, the most useful first:

1. The read-back of a mode switch against changes made elsewhere.
2. Concurrent handshakes, as far as the broker's behaviour is known.
3. The listener together with the telemetry, in place of `LiveChannel`: a proof that the
   coordinator's properties survive the composition.
4. An abstract specification of a press (accepted, refused, or unknown) that the handshake implements.
