--------------------------- MODULE EntryLifecycle ---------------------------
(***************************************************************************)
(* Setting the config entry up, unloading and reloading it (__init__.py),  *)
(* with what outlives a coordinator: the follow of an operator's stream    *)
(* runs in an executor thread that asyncio cannot cancel, and the product  *)
(* codes that a coordinator learns are persisted in the entry              *)
(* (coordinator.py).  Each set-up builds a coordinator of its own; a       *)
(* thread's frames go to the coordinator that started it.  An operator     *)
(* reports one code all its life, so a set of codes is reduced to the set  *)
(* of operators whose code is known.  Platforms always unload; the reloads *)
(* asked for before an unload begins are taken as one.                     *)
(***************************************************************************)
EXTENDS Naturals

CONSTANTS
    Serials,        \* Wi-Fi operators
    Coordinators    \* coordinator objects; one is reused when nothing refers to it

VARIABLES
    entry,      \* state of the config entry
    current,    \* the coordinator last built
    codes,      \* entry.data[CONF_PRODUCT_CODES]
    reported,   \* _reported_codes of each coordinator
    follow,     \* the follow jobs: task and thread, thread only, or none
    reload      \* an update listener has called async_reload

entryVars == <<entry, current, codes, reported, follow, reload>>

EntryInit ==
    /\ entry = "unloaded"
    /\ current \in Coordinators
    /\ codes = {}
    /\ reported = [g \in Coordinators |-> {}]
    /\ follow = [g \in Coordinators |-> [s \in Serials |-> "none"]]
    /\ reload = FALSE

Running == entry \in {"setting_up", "loaded", "unloading"}

\* The update listener is there from the end of the set-up to the end of the unload.
Listening == entry \in {"loaded", "unloading"}

-----------------------------------------------------------------------------
(***************************************************************************)
(* The entry.                                                              *)
(***************************************************************************)
Unused(g) == \A s \in Serials : follow[g][s] = "none"

\* Fault: a new coordinator does not load what the entry holds.
FaultNotLoaded(g) ==
    /\ entry = "unloaded" /\ Unused(g)
    /\ entry' = "setting_up"
    /\ current' = g
    /\ reported' = [reported EXCEPT ![g] = {}]
    /\ UNCHANGED <<codes, follow, reload>>

\* async_setup_entry: a coordinator with the persisted codes; its first refresh
\* is awaited.
Setup(g) ==
    /\ entry = "unloaded" /\ Unused(g)
    /\ entry' = "setting_up"
    /\ current' = g
    /\ reported' = [reported EXCEPT ![g] = codes]
    /\ UNCHANGED <<codes, follow, reload>>

\* The first refresh failed; Home Assistant tries again later.
SetupFails ==
    /\ entry = "setting_up"
    /\ entry' = "unloaded"
    /\ UNCHANGED <<current, codes, reported, follow, reload>>

SetupDone ==
    /\ entry = "setting_up"
    /\ entry' = "loaded"
    /\ UNCHANGED <<current, codes, reported, follow, reload>>

\* The user saves the options: the update listener reloads the entry.
OptionsChange ==
    /\ entry = "loaded"
    /\ reload' = TRUE
    /\ UNCHANGED <<entry, current, codes, reported, follow>>

\* async_reload, or the user, has the platforms unloaded.
Unload ==
    /\ entry = "loaded"
    /\ entry' = "unloading"
    /\ reload' = FALSE
    /\ UNCHANGED <<current, codes, reported, follow>>

\* Fault: the tasks are left alone.
FaultNotCancelled ==
    /\ entry = "unloading"
    /\ entry' = "unloaded"
    /\ UNCHANGED <<current, codes, reported, follow, reload>>

\* async_shutdown cancels the tasks; a follow's thread is not reached by that.
UnloadDone ==
    /\ entry = "unloading"
    /\ entry' = "unloaded"
    /\ follow' = [follow EXCEPT ![current] =
                     [s \in Serials |-> IF @[s] = "following" THEN "orphaned" ELSE @[s]]]
    /\ UNCHANGED <<current, codes, reported, reload>>

-----------------------------------------------------------------------------
(***************************************************************************)
(* Learning product codes, _remember_product_code.                         *)
(***************************************************************************)
\* A known code is left alone.  A new one is added to the coordinator's own
\* codes, which replace the entry's; changed data call the update listener.
Learn(g, s) ==
    LET learned == reported[g] \cup {s} IN
    /\ reported' = [reported EXCEPT ![g] = learned]
    /\ codes' = IF s \in reported[g] THEN codes ELSE learned
    /\ reload' = (reload \/ (Listening /\ codes' # codes))
    /\ UNCHANGED <<entry, current, follow>>

\* Telemetry of the running coordinator: a sweep, a read, the listener.
Telemetry(s) == Running /\ Learn(current, s)

\* A frame of a follow reaches the coordinator that started it.
FollowFrame(g, s) == follow[g][s] # "none" /\ Learn(g, s)

-----------------------------------------------------------------------------
(***************************************************************************)
(* Following a press.                                                      *)
(***************************************************************************)
\* A follow of this coordinator for the operator coalesces; it cannot tell that
\* another coordinator's thread still follows it.
Press(s) ==
    /\ entry = "loaded" /\ follow[current][s] = "none"
    /\ follow' = [follow EXCEPT ![current][s] = "following"]
    /\ UNCHANGED <<entry, current, codes, reported, reload>>

\* The duration is over, or the connection failed.
FollowEnds(g, s) ==
    /\ follow[g][s] # "none"
    /\ follow' = [follow EXCEPT ![g][s] = "none"]
    /\ UNCHANGED <<entry, current, codes, reported, reload>>

Reload == reload /\ Unload

UserUnload == ~reload /\ Unload

SetUp == \E g \in Coordinators : Setup(g)

EntryNext ==
    \/ SetUp \/ SetupFails \/ SetupDone \/ OptionsChange \/ Reload \/ UserUnload \/ UnloadDone
    \/ \E s \in Serials : Telemetry(s) \/ Press(s)
    \/ \E g \in Coordinators, s \in Serials : FollowFrame(g, s) \/ FollowEnds(g, s)

EntrySpec == EntryInit /\ [][EntryNext]_entryVars

(***************************************************************************)
(* Home Assistant carries a set-up, a reload and an unload through, and    *)
(* tries a failed set-up again until one succeeds; a follow's duration     *)
(* elapses; operators are heard again and again while the entry is loaded. *)
(***************************************************************************)
EntryFairness ==
    /\ WF_entryVars(SetUp)
    /\ SF_entryVars(SetupDone)
    /\ WF_entryVars(Reload)
    /\ WF_entryVars(UnloadDone)
    /\ \A s \in Serials : SF_entryVars(entry = "loaded" /\ Telemetry(s))
    /\ \A g \in Coordinators, s \in Serials : WF_entryVars(FollowEnds(g, s))

EntryFairSpec == EntrySpec /\ EntryFairness

-----------------------------------------------------------------------------
(***************************************************************************)
(* Properties.                                                             *)
(***************************************************************************)
EntryTypeOK ==
    /\ entry \in {"unloaded", "setting_up", "loaded", "unloading"}
    /\ current \in Coordinators
    /\ codes \in SUBSET Serials
    /\ reported \in [Coordinators -> SUBSET Serials]
    /\ follow \in [Coordinators -> [Serials -> {"none", "following", "orphaned"}]]
    /\ reload \in BOOLEAN

\* However set-ups fail and reloads follow each other, only the coordinator of an
\* entry that is loaded, or about to be unloaded, has follow tasks: what an unload
\* leaves behind is a thread at most.
OnlyThreadsOutlive ==
    \A g \in Coordinators, s \in Serials :
        follow[g][s] = "following" => g = current /\ Listening

UserStep == OptionsChange \/ UserUnload \/ \E s \in Serials : Press(s)

\* Learning a code reloads the entry, and the frames of orphaned follows overwrite
\* what later coordinators have learned.  Once users leave the entry alone this
\* settles: it stays loaded, with a coordinator that knows every operator's code.
ReloadsSettle ==
    ~[]<><<UserStep>>_entryVars => <>[](entry = "loaded" /\ reported[current] = Serials)

=============================================================================
