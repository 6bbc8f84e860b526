------------------------------- MODULE SignIn -------------------------------
(***************************************************************************)
(* Signing in to a datacentre with a one-time PIN (config_flow.py) and     *)
(* what becomes of the token: the config entry keeps it, the entry's       *)
(* coordinator polls with it, and a refused poll asks the user to sign in  *)
(* again.  One mobile number and the forms that may be open for it at      *)
(* once: adding the integration, signing in again, changing the            *)
(* datacentre.  Home Assistant is external: it keeps one form per number   *)
(* and one prompt per entry, sets the entry up, and reloads it under a     *)
(* lock.  An exchange with the cloud is one step, at its answer: what a    *)
(* form sends it has fixed before it asks.  A form in which nothing has    *)
(* been submitted yet is not told from one that is not open.               *)
(***************************************************************************)
EXTENDS Naturals

CONSTANTS
    Regions,        \* datacentres
    Tokens,         \* session tokens; one is issued anew when nobody holds it
    NewForms,       \* forms that add the integration for the number
    RegionForms,    \* forms that change the datacentre
    MaxReloads      \* bound: reloads that wait for the entry's lock

ASSUME RegionsAssumption == Regions # {}
ASSUME TokensAssumption == \E t, u \in Tokens : t # u
ASSUME ReloadsAssumption == MaxReloads \in Nat /\ MaxReloads >= 2

VARIABLES
    state,      \* state of the config entry
    entry,      \* its region and token
    client,     \* region and token that its coordinator was built with
    polling,    \* the coordinator's next poll is scheduled
    reloads,    \* reloads that have been asked for by others than a prompt
    new,        \* the forms that add the integration, and the regions chosen
    prompt,     \* the form for signing in again
    change,     \* the forms that change the datacentre
    issuedIn,   \* where each token was issued
    good        \* tokens that their datacentre accepts

entryVars == <<state, entry, client, polling, reloads>>
formVars  == <<new, prompt, change>>
cloudVars == <<issuedIn, good>>
vars == <<entryVars, formVars, cloudVars>>

\* The datacentre of a form that has none yet.
DefaultRegion == CHOOSE r \in Regions : TRUE

Closed == [at |-> "none", region |-> DefaultRegion]

NoPrompt == [at |-> "none", region |-> DefaultRegion, outdated |-> FALSE]

Init ==
    /\ state = "absent"
    /\ entry = [region |-> DefaultRegion, token |-> CHOOSE t \in Tokens : TRUE]
    /\ client = entry
    /\ polling = FALSE
    /\ reloads = 0
    /\ new = [f \in NewForms |-> Closed]
    /\ prompt = NoPrompt
    /\ change = [f \in RegionForms |-> Closed]
    /\ issuedIn = [t \in Tokens |-> entry.region]
    /\ good = {}

-----------------------------------------------------------------------------
(***************************************************************************)
(* The cloud.                                                              *)
(***************************************************************************)
Accepted(c) == c.token \in good /\ issuedIn[c.token] = c.region

\* validate_otp: the datacentre that sent the PIN issues a token.
Issue(t, r) ==
    /\ state = "absent" \/ t # client.token
    /\ issuedIn' = [issuedIn EXCEPT ![t] = r]
    /\ good' = good \cup {t}

Revoke(t) ==
    /\ t \in good
    /\ good' = good \ {t}
    /\ UNCHANGED <<entryVars, formVars, issuedIn>>

-----------------------------------------------------------------------------
(***************************************************************************)
(* Adding the integration.                                                 *)
(***************************************************************************)
\* A form holds the number from async_set_unique_id to its end.
Holds(f) == new[f].at # "none"

\* Fault: a number that is already configured is not noticed.
FaultNotNoticed(f) == (\E g \in NewForms \ {f} : Holds(g)) \/ prompt.at # "none"

\* async_set_unique_id and _abort_if_unique_id_configured.
Aborts(f) ==
    \/ \E g \in NewForms \ {f} : Holds(g)
    \/ prompt.at # "none"
    \/ state # "absent"

\* The number is submitted: the PIN is sent, could not be sent, or never asked for.
NumberSubmitted(f, r) ==
    /\ new[f].at \in {"none", "again"}
    /\ new' = [new EXCEPT ![f] =
                  IF Aborts(f) THEN Closed ELSE [at |-> "pin", region |-> r]]
    /\ UNCHANGED <<entryVars, prompt, change, cloudVars>>

PinNotSent(f) ==
    /\ new[f].at \in {"none", "again"} /\ ~Aborts(f)
    /\ new' = [new EXCEPT ![f].at = "again"]
    /\ UNCHANGED <<entryVars, prompt, change, cloudVars>>

\* async_step_otp: the PIN is right; a wrong one shows the form again.
NewSignedIn(f, t) ==
    /\ new[f].at = "pin"
    /\ Issue(t, new[f].region)
    /\ entry' = [region |-> new[f].region, token |-> t]
    /\ state' = "waiting"
    /\ client' = entry'
    /\ polling' = FALSE
    /\ new' = [new EXCEPT ![f] = Closed]
    /\ UNCHANGED <<reloads, prompt, change>>

NewClosed(f) ==
    /\ new[f].at # "none"
    /\ new' = [new EXCEPT ![f] = Closed]
    /\ UNCHANGED <<entryVars, prompt, change, cloudVars>>

-----------------------------------------------------------------------------
(***************************************************************************)
(* The entry and its coordinator.                                          *)
(***************************************************************************)
\* A coordinator is built from what the entry holds now; its first refresh is awaited.
Build ==
    /\ state' = "setup"
    /\ client' = entry
    /\ polling' = FALSE

SetUp ==
    /\ state = "waiting"
    /\ Build
    /\ UNCHANGED <<entry, reloads, formVars, cloudVars>>

\* A waiting reload gets the lock, which a set-up keeps until its end.
Reload ==
    /\ reloads > 0 /\ state # "setup"
    /\ Build
    /\ reloads' = reloads - 1
    /\ UNCHANGED <<entry, formVars, cloudVars>>

\* Fault: the form is given the default datacentre.
FaultDefaultRegion ==
    prompt' = IF prompt.at = "none"
              THEN [NoPrompt EXCEPT !.at = "unsent"] ELSE prompt

\* ConfigEntryAuthFailed starts async_step_reauth, unless such a form is open.
Prompt ==
    prompt' = IF prompt.at = "none"
              THEN [at |-> "unsent", region |-> entry.region, outdated |-> FALSE]
              ELSE prompt

Loads ==
    /\ state = "setup" /\ Accepted(client)
    /\ state' = "loaded"
    /\ polling' = TRUE
    /\ UNCHANGED <<entry, client, reloads, formVars, cloudVars>>

\* Fault: a refused token is one more failure of the update, to be tried again.
FaultTriedAgain ==
    /\ state = "setup" /\ ~Accepted(client)
    /\ state' = "waiting"
    /\ UNCHANGED <<entry, client, polling, reloads, formVars, cloudVars>>

\* The first refresh is refused; nothing tries again by itself.
SetUpRefused ==
    /\ state = "setup" /\ ~Accepted(client)
    /\ state' = "failed"
    /\ Prompt
    /\ UNCHANGED <<entry, client, polling, reloads, new, change, cloudVars>>

\* UpdateFailed: Home Assistant sets the entry up again later.
SetUpFails ==
    /\ state = "setup"
    /\ state' = "waiting"
    /\ UNCHANGED <<entry, client, polling, reloads, formVars, cloudVars>>

\* A poll, or a refresh that was asked for, is refused: no further one is scheduled.
PollRefused ==
    /\ state = "loaded" /\ ~Accepted(client)
    /\ polling' = FALSE
    /\ Prompt
    /\ UNCHANGED <<state, entry, client, reloads, new, change, cloudVars>>

\* The user reloads the entry.
UserReload ==
    /\ state \notin {"absent", "setup"} /\ reloads = 0
    /\ reloads' = 1
    /\ UNCHANGED <<state, entry, client, polling, formVars, cloudVars>>

\* Home Assistant restarts: the entry is stored, forms are not.
Restart ==
    /\ state # "absent"
    /\ state' = "waiting"
    /\ polling' = FALSE
    /\ reloads' = 0
    /\ new' = [f \in NewForms |-> Closed]
    /\ prompt' = NoPrompt
    /\ change' = [f \in RegionForms |-> Closed]
    /\ UNCHANGED <<entry, client, cloudVars>>

\* The update listener, registered once the entry is loaded, reloads it too.
ByListener == IF state = "loaded" THEN 1 ELSE 0

-----------------------------------------------------------------------------
(***************************************************************************)
(* Signing in again.                                                       *)
(***************************************************************************)
\* The PIN is sent when the form is first shown, or when it is submitted after
\* sending has failed.
PromptSent ==
    /\ prompt.at = "unsent"
    /\ prompt' = [prompt EXCEPT !.at = "sent"]
    /\ UNCHANGED <<entryVars, new, change, cloudVars>>

\* Fault: the reload is left to the update listener.
FaultNoReload(t) ==
    /\ prompt.at = "sent" /\ reloads < MaxReloads
    /\ Issue(t, prompt.region)
    /\ entry' = [entry EXCEPT !.token = t]
    /\ reloads' = reloads + ByListener
    /\ prompt' = NoPrompt
    /\ UNCHANGED <<state, client, polling, new, change>>

\* The PIN is right: the token is swapped, and the form awaits a reload of its own.
SignedInAgain(t) ==
    /\ prompt.at = "sent" /\ reloads < MaxReloads
    /\ Issue(t, prompt.region)
    /\ entry' = [entry EXCEPT !.token = t]
    /\ reloads' = reloads + ByListener
    /\ prompt' = [prompt EXCEPT !.at = "reloading"]
    /\ UNCHANGED <<state, client, polling, new, change>>

PromptReloads ==
    /\ prompt.at = "reloading" /\ state # "setup"
    /\ Build
    /\ prompt' = [prompt EXCEPT !.at = "reloaded"]
    /\ UNCHANGED <<entry, reloads, new, change, cloudVars>>

PromptEnds ==
    /\ prompt.at = "reloaded" /\ state # "setup"
    /\ prompt' = NoPrompt
    /\ UNCHANGED <<entryVars, new, change, cloudVars>>

-----------------------------------------------------------------------------
(***************************************************************************)
(* Changing the datacentre.                                                *)
(***************************************************************************)
\* A PIN that could not be sent leaves the form as it is.
RegionSubmitted(f, r) ==
    /\ change[f].at = "none" /\ state # "absent"
    /\ change' = [change EXCEPT ![f] = [at |-> "pin", region |-> r]]
    /\ UNCHANGED <<entryVars, new, prompt, cloudVars>>

\* async_update_reload_and_abort: region and token are replaced together, the form
\* ends and a reload is scheduled.
RegionChanged(f, t) ==
    /\ change[f].at = "pin" /\ reloads + 1 < MaxReloads
    /\ Issue(t, change[f].region)
    /\ entry' = [region |-> change[f].region, token |-> t]
    /\ reloads' = reloads + 1 + ByListener
    /\ change' = [change EXCEPT ![f] = Closed]
    /\ prompt' = IF prompt.at \in {"unsent", "sent"}
                 THEN [prompt EXCEPT !.outdated = TRUE] ELSE prompt
    /\ UNCHANGED <<state, client, polling, new>>

ChangeClosed(f) ==
    /\ change[f].at # "none"
    /\ change' = [change EXCEPT ![f] = Closed]
    /\ UNCHANGED <<entryVars, new, prompt, cloudVars>>

-----------------------------------------------------------------------------
SignInAgain == \E t \in Tokens : SignedInAgain(t)

Next ==
    \/ SetUp \/ Reload \/ Loads \/ SetUpRefused \/ SetUpFails \/ PollRefused
    \/ UserReload \/ Restart
    \/ PromptSent \/ SignInAgain \/ PromptReloads \/ PromptEnds
    \/ \E f \in NewForms :
           \/ PinNotSent(f) \/ NewClosed(f)
           \/ \E r \in Regions : NumberSubmitted(f, r)
           \/ \E t \in Tokens : NewSignedIn(f, t)
    \/ \E f \in RegionForms :
           \/ ChangeClosed(f)
           \/ \E r \in Regions : RegionSubmitted(f, r)
           \/ \E t \in Tokens : RegionChanged(f, t)
    \/ \E t \in Tokens : Revoke(t)

Spec == Init /\ [][Next]_vars

Stopped == state = "failed" \/ (state = "loaded" /\ ~polling)

\* Nobody is asked to sign in, and nothing is going to change that: the token was
\* refused while a prompt awaited its own reload, and so still counted as open.
Unprompted == Stopped /\ prompt.at = "none" /\ reloads = 0

(***************************************************************************)
(* Home Assistant polls, and carries set-ups and reloads through.  The     *)
(* cloud answers a set-up again and again, and sends the PIN.  A user who  *)
(* is prompted signs in; one whose entry has stopped without a prompt      *)
(* reloads it.                                                             *)
(***************************************************************************)
Fairness ==
    /\ WF_vars(SetUp) /\ WF_vars(Reload)
    /\ SF_vars(Loads) /\ SF_vars(SetUpRefused)
    /\ WF_vars(polling /\ PollRefused)
    /\ WF_vars(PromptSent) /\ SF_vars(SignInAgain)
    /\ WF_vars(PromptReloads) /\ SF_vars(PromptEnds)
    /\ WF_vars(Unprompted /\ UserReload)

FairSpec == Spec /\ Fairness

-----------------------------------------------------------------------------
(***************************************************************************)
(* Properties.                                                             *)
(***************************************************************************)
Stored == [region : Regions, token : Tokens]

NewStates == [at : {"none", "again", "pin"}, region : Regions]

PromptStates == [at : {"none", "unsent", "sent", "reloading", "reloaded"},
                 region : Regions, outdated : BOOLEAN]

ChangeStates == [at : {"none", "pin"}, region : Regions]

TypeOK ==
    /\ state \in {"absent", "waiting", "setup", "loaded", "failed"}
    /\ entry \in Stored /\ client \in Stored
    /\ polling \in BOOLEAN
    /\ reloads \in 0..MaxReloads
    /\ new \in [NewForms -> NewStates]
    /\ prompt \in PromptStates
    /\ change \in [RegionForms -> ChangeStates]
    /\ issuedIn \in [Tokens -> Regions]
    /\ good \in SUBSET Tokens

\* The stored token is one of the stored datacentre.  The only step that breaks
\* this is a prompt answered after the datacentre was changed behind it.
TokenOfItsRegion ==
    [][entry' # entry =>
          \/ issuedIn'[entry'.token] = entry'.region
          \/ prompt.at = "sent" /\ prompt.outdated]_vars

\* Whatever the entry stores is put to use: while its coordinator still has another
\* token or datacentre, a reload is on its way, from any state and after any form.
TokenTakesEffect ==
    (state \notin {"absent", "waiting"} /\ client # entry)
        => reloads > 0 \/ prompt.at = "reloading"

\* An existing entry is never replaced by adding the integration once more, not
\* even by a form that was open before it.
NeverReplaced ==
    [][\A f \in NewForms :
          (new[f].at = "pin" /\ entry' # entry /\ change' = change /\ prompt' = prompt)
              => state = "absent"]_vars

Working == state = "loaded" /\ polling /\ client = entry /\ Accepted(client)

Disturbance ==
    \/ \E t \in Tokens : Revoke(t)
    \/ Restart
    \/ ~Unprompted /\ UserReload
    \/ \E f \in RegionForms, t \in Tokens : RegionChanged(f, t)

\* Whatever was refused, and in whatever order forms were answered: once tokens and
\* the datacentre are left alone, the entry works again for good.
Recovers == ~[]<><<Disturbance>>_vars => (state # "absent" ~> []Working)

=============================================================================
