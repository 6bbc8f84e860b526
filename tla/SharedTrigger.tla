--------------------------- MODULE SharedTrigger ---------------------------
(***************************************************************************)
(* A gate that somebody has shared with this number (AccessSharing): the   *)
(* coordinator's slow list of shares (coordinator.py, models.py), the      *)
(* entities that stand for its actions (entity.py, cover.py, button.py)    *)
(* and the three requests of a press (client.py): SendActivation           *)
(* authorises it, MCRActEn has the cellular gateway trigger the output,    *)
(* ActivationDeviceResult records it, which is what counts it.             *)
(*                                                                         *)
(* One GSM/ULTRA share that the number does not own.  Its time window is   *)
(* part of `revoked`: both end the access for good.  Every request may be  *)
(* lost, and so may its answer.  The backend and the gateway are external. *)
(***************************************************************************)
EXTENDS Naturals, FiniteSets

CONSTANTS
    Actions,         \* ids of shared actions, stable
    Ios,             \* outputs of the operator
    NoIo,            \* the share does not have the action
    NotListed,       \* the share is not in the list
    Presses,         \* service calls that may be in progress together
    Cycles,          \* update cycles that may overlap, "scheduled" among them
    MaximumTriggers, \* maximum_trigger_count, 0 when there is no limit
    SharedInterval,  \* SHARED_SCAN_INTERVAL
    MaxEdits,        \* bound: the owner edits the share at most so often
    MaxTriggers      \* bound: the gateway is asked at most so often

ASSUME SharedAssumption ==
    /\ NoIo \notin Ios
    /\ "scheduled" \in Cycles
    /\ IsFiniteSet(Presses)
    /\ {MaximumTriggers, SharedInterval, MaxEdits, MaxTriggers} \subseteq Nat

\* A share: what its owner set, when (last_modified_utc) and how often this
\* number has used it (currentTriggerCount).
Shares == [io : [Actions -> Ios \cup {NoIo}], revoked : BOOLEAN,
           modified : 0..MaxEdits, used : 0..MaxTriggers]

ASSUME NotListedAssumption == NotListed \notin Shares

VARIABLES
    share,       \* external: the share in the backend, or NotListed
    shared,      \* coordinator._shared
    loaded,      \* _shared_loaded
    since,       \* monotonic() - _last_shared, saturating at SharedInterval
    data,        \* coordinator.data: the share it shows
    succeeded,   \* last_update_success
    added,       \* the actions that have an entity
    cycle,       \* the update cycles in progress
    call,        \* the presses in progress
    triggered,   \* external, history: outputs the gateway has triggered
    unrecorded   \* history: those whose record was given up

listVars == <<shared, loaded, since, data, succeeded, added, cycle>>
pressVars == <<call, triggered, unrecorded>>
vars == <<share, listVars, pressVars>>

Idle == [at |-> "idle", access |-> NotListed, barred |-> FALSE]
Quiet == [at |-> "idle", answer |-> NotListed]

TypeOK ==
    /\ {share, shared, data} \subseteq Shares \cup {NotListed}
    /\ loaded \in BOOLEAN
    /\ ~loaded => shared = NotListed
    /\ since \in 0..SharedInterval
    /\ succeeded \in BOOLEAN
    /\ added \in SUBSET Actions
    /\ cycle \in [Cycles -> [at : {"idle", "cloud", "asked", "answered"},
                             answer : Shares \cup {NotListed}]]
    /\ call \in [Presses -> [at : {"idle", "asked", "granted", "queued", "recording"},
                             access : Shares \cup {NotListed}, barred : BOOLEAN]]
    /\ triggered \in 0..MaxTriggers
    /\ unrecorded \in 0..MaxTriggers

Init ==
    /\ share \in {s \in Shares : s.used = 0 /\ s.modified = 0 /\ ~s.revoked} \cup {NotListed}
    /\ shared = NotListed
    /\ loaded = FALSE
    /\ since = SharedInterval
    /\ data = NotListed
    /\ succeeded = FALSE
    /\ added = {}
    /\ cycle = [c \in Cycles |-> Quiet]
    /\ call = [p \in Presses |-> Idle]
    /\ triggered = 0
    /\ unrecorded = 0

-----------------------------------------------------------------------------
(***************************************************************************)
(* The owner.                                                              *)
(***************************************************************************)
OwnerEdits ==
    /\ share # NotListed /\ share.modified < MaxEdits
    /\ \E io \in [Actions -> Ios \cup {NoIo}], revoked \in BOOLEAN :
           /\ share.revoked => revoked
           /\ share' = [share EXCEPT !.io = io, !.revoked = revoked, !.modified = @ + 1]
    /\ UNCHANGED <<listVars, pressVars>>

OwnerRemoves ==
    /\ share # NotListed
    /\ share' = NotListed
    /\ UNCHANGED <<listVars, pressVars>>

-----------------------------------------------------------------------------
(***************************************************************************)
(* Availability.                                                           *)
(***************************************************************************)
\* remaining_triggers is not zero.
SomeRemain(s) == MaximumTriggers = 0 \/ s.used < MaximumTriggers

\* SharedAccess.is_available.
is_available(s) == s # NotListed /\ ~s.revoked /\ SomeRemain(s)

\* CentsysSharedEntity.available.
available == succeeded /\ is_available(data)

-----------------------------------------------------------------------------
(***************************************************************************)
(* The list of shares: _maybe_refresh_shared, the last part of a cycle.    *)
(* Nothing is awaited between it and the new coordinator.data.             *)
(***************************************************************************)
\* Every action of the share is a control: the cover, or a button of its own.
Offered(listing) ==
    IF listing = NotListed THEN {} ELSE {a \in Actions : listing.io[a] # NoIo}

\* The update is published, and the factories are run for what it lists.
Publish(c, listing) ==
    /\ data' = listing
    /\ succeeded' = TRUE
    /\ added' = added \cup Offered(listing)
    /\ cycle' = [cycle EXCEPT ![c] = Quiet]

CycleStart(c) ==
    /\ cycle[c].at = "idle"
    /\ cycle' = [cycle EXCEPT ![c].at = "cloud"]
    /\ UNCHANGED <<share, shared, loaded, since, data, succeeded, added, pressVars>>

\* ConfigEntryAuthFailed or UpdateFailed: the entities become unavailable.
CycleFails(c) ==
    /\ cycle[c].at = "cloud"
    /\ cycle' = [cycle EXCEPT ![c] = Quiet]
    /\ succeeded' = FALSE
    /\ UNCHANGED <<share, shared, loaded, since, data, added, pressVars>>

\* Fault: a list that has been loaded is never loaded again.
FaultDue == ~loaded

Due == ~loaded \/ since >= SharedInterval

\* The cached list is still good...
ListReused(c) ==
    /\ cycle[c].at = "cloud" /\ ~Due
    /\ Publish(c, shared)
    /\ UNCHANGED <<share, shared, loaded, since, pressVars>>

\* ...or is asked for anew.
ListAsked(c) ==
    /\ cycle[c].at = "cloud" /\ Due
    /\ since' = 0
    /\ cycle' = [cycle EXCEPT ![c].at = "asked"]
    /\ UNCHANGED <<share, shared, loaded, data, succeeded, added, pressVars>>

\* The backend answers; 400 and 404 say that there is no share.
BackendLists(c) ==
    /\ cycle[c].at = "asked"
    /\ cycle' = [cycle EXCEPT ![c] = [at |-> "answered", answer |-> share]]
    /\ UNCHANGED <<share, shared, loaded, since, data, succeeded, added, pressVars>>

ListParsed(c) ==
    /\ cycle[c].at = "answered"
    /\ shared' = cycle[c].answer
    /\ loaded' = TRUE
    /\ Publish(c, cycle[c].answer)
    /\ UNCHANGED <<share, since, pressVars>>

\* The request failed, or its answer was lost: the previous list is kept.
ListKept(c) ==
    /\ cycle[c].at \in {"asked", "answered"}
    /\ Publish(c, shared)
    /\ UNCHANGED <<share, shared, loaded, since, pressVars>>

-----------------------------------------------------------------------------
(***************************************************************************)
(* A press: trigger_shared_action.                                         *)
(***************************************************************************)
InProgress == Cardinality({p \in Presses : call[p].at \in {"asked", "granted"}})

\* Home Assistant calls entities that are available.  The access is the one
\* last published, and the action is looked up in it (it raises if it is gone).
Press(p, a) ==
    /\ call[p].at = "idle"
    /\ a \in added /\ available /\ a \in Offered(data)
    /\ triggered + InProgress < MaxTriggers
    /\ call' = [call EXCEPT ![p] =
                   [at |-> "asked", access |-> data, barred |-> ~is_available(share)]]
    /\ UNCHANGED <<share, listVars, triggered, unrecorded>>

\* The backend refuses an access that has ended, been used up, or been edited
\* since the client read it ("refresh required").
Authorised(access) == is_available(share) /\ share.modified = access.modified

\* SendActivation is answered with success.
Granted(p) ==
    /\ call[p].at = "asked" /\ Authorised(call[p].access)
    /\ call' = [call EXCEPT ![p].at = "granted"]
    /\ UNCHANGED <<share, listVars, triggered, unrecorded>>

\* Fault: the code in the answer is not looked at.
FaultCodeIgnored(p) ==
    /\ call[p].at = "asked" /\ ~Authorised(call[p].access)
    /\ call' = [call EXCEPT ![p].at = "granted"]
    /\ UNCHANGED <<share, listVars, triggered, unrecorded>>

\* It is answered with another code: the press raises.
Refused(p) ==
    /\ call[p].at = "asked" /\ ~Authorised(call[p].access)
    /\ call' = [call EXCEPT ![p] = Idle]
    /\ UNCHANGED <<share, listVars, triggered, unrecorded>>

\* Fault: MCRActEn is sent again when its answer is lost.
FaultTriggerRetried(p) ==
    /\ call[p].at \in {"granted", "queued"} /\ triggered < MaxTriggers
    /\ triggered' = triggered + 1
    /\ call' = [call EXCEPT ![p].at = "queued"]
    /\ UNCHANGED <<share, listVars, unrecorded>>

\* MCRActEn reaches the gateway, which queues the activation.
Queued(p) ==
    /\ call[p].at = "granted"
    /\ triggered' = triggered + 1
    /\ call' = [call EXCEPT ![p].at = "queued"]
    /\ UNCHANGED <<share, listVars, unrecorded>>

\* The answer arrives; the open is recorded next.
Triggered(p) ==
    /\ call[p].at = "queued"
    /\ call' = [call EXCEPT ![p].at = "recording"]
    /\ UNCHANGED <<share, listVars, triggered, unrecorded>>

\* Fault: the open is recorded although the trigger failed.
FaultRecordedAnyway(p) ==
    /\ call[p].at \in {"asked", "granted"}
    /\ call' = [call EXCEPT ![p].at = "recording"]
    /\ UNCHANGED <<share, listVars, triggered, unrecorded>>

\* SendActivation or MCRActEn failed (offline, time barred, no connection): the
\* press raises, and nothing was triggered.
Fails(p) ==
    /\ call[p].at \in {"asked", "granted"}
    /\ call' = [call EXCEPT ![p] = Idle]
    /\ UNCHANGED <<share, listVars, triggered, unrecorded>>

\* ActivationDeviceResult counts one use of the share, if it is still there;
\* whether or not that is answered, the press is done.
Recorded(p) ==
    /\ call[p].at = "recording" /\ share # NotListed
    /\ share' = [share EXCEPT !.used = @ + 1]
    /\ call' = [call EXCEPT ![p] = Idle]
    /\ UNCHANGED <<listVars, triggered, unrecorded>>

\* The trigger's answer is lost, so the press raises; or the record is, which
\* is swallowed.  Either way the gate has moved and nobody counts it.
NotRecorded(p) ==
    /\ call[p].at \in {"queued", "recording"}
    /\ unrecorded' = unrecorded + 1
    /\ call' = [call EXCEPT ![p] = Idle]
    /\ UNCHANGED <<share, listVars, triggered>>

-----------------------------------------------------------------------------
Tick ==
    /\ since < SharedInterval
    /\ since' = since + 1
    /\ UNCHANGED <<share, shared, loaded, data, succeeded, added, cycle, pressVars>>

Owner == OwnerEdits \/ OwnerRemoves

Poll(c) ==
    CycleFails(c) \/ ListReused(c) \/ ListAsked(c) \/ BackendLists(c) \/ ListParsed(c)
        \/ ListKept(c)

Proceed(p) ==
    Granted(p) \/ Refused(p) \/ Queued(p) \/ Triggered(p) \/ Fails(p) \/ Recorded(p)
        \/ NotRecorded(p)

Next ==
    \/ Owner \/ Tick
    \/ \E c \in Cycles : CycleStart(c) \/ Poll(c)
    \/ \E p \in Presses : Proceed(p)
    \/ \E p \in Presses, a \in Actions : Press(p, a)

Spec == Init /\ [][Next]_vars

(***************************************************************************)
(* Scheduled cycles keep coming and every request ends.  A backend that    *)
(* never answers starves the list, so some cycle's answer is assumed to    *)
(* get through again and again.                                            *)
(***************************************************************************)
Fairness ==
    /\ WF_vars(Tick)
    /\ WF_vars(CycleStart("scheduled"))
    /\ SF_vars(ListReused("scheduled") \/ ListAsked("scheduled"))
    /\ SF_vars(\E c \in Cycles : BackendLists(c))
    /\ SF_vars(\E c \in Cycles : ListParsed(c))
    /\ \A c \in Cycles : WF_vars(Poll(c))
    /\ \A p \in Presses : WF_vars(Proceed(p))

FairSpec == Spec /\ Fairness

-----------------------------------------------------------------------------
(***************************************************************************)
(* Properties.                                                             *)
(***************************************************************************)
\* Neither lost answers nor concurrent presses break the books: while the share
\* exists, each output triggered has been counted against it once, is about to
\* be, or its record was given up; and nothing is counted that was not triggered.
OpensAccounted ==
    share # NotListed =>
        triggered = share.used + unrecorded
                        + Cardinality({p \in Presses : call[p].at \in {"queued", "recording"}})

\* The list is minutes old, so a share that has ended or been used up may still
\* look available; a press that begins then never moves the gate.
EndedAccessMovesNothing ==
    \A p \in Presses :
        call[p].barred => call[p].at \notin {"queued", "recording"}

\* The limit is checked when a press is authorised and counted after the gate has
\* moved.  A limited share moves it more often than its limit only by presses that were
\* authorised together, before any of them was counted, and by those never counted.
LimitOverrunBounded ==
    share # NotListed /\ MaximumTriggers > 0 =>
        triggered < MaximumTriggers + Cardinality(Presses) + unrecorded

\* README: the control goes unavailable once the share is depleted, expired or
\* revoked.  Once neither the owner nor a press changes it any more, what the
\* entities show, lost answers and overlapping cycles notwithstanding, is the share.
ListCatchesUp ==
    ~[]<><<share' # share>>_vars => <>[](data = share)

=============================================================================
