-------------------------- MODULE HttpClient_proofs --------------------------
(***************************************************************************)
(* What the HTTP client does: SignIn first, then CloudUpdate.              *)
(*                                                                         *)
(* What the forms store is put to use, is a token of the datacentre it is  *)
(* stored with, and never replaces an entry by adding it again: proved for *)
(* any number of forms, datacentres, tokens and waiting reloads.  An       *)
(* output is switched as asked, for any number of users and pulses.        *)
(***************************************************************************)
EXTENDS SignIn, CloudUpdate, TLAPS

EffectInv == reloads \in Nat /\ TokenTakesEffect

\* The steps that leave the entry, its coordinator and the waiting reloads alone.
LEMMA UntouchedKeepsInv ==
    ASSUME EffectInv, UNCHANGED entryVars,
           prompt.at = "reloading" => prompt'.at = "reloading"
    PROVE  EffectInv'
  BY DEF EffectInv, TokenTakesEffect, entryVars

\* A coordinator that is built from the entry has what the entry stores.
LEMMA BuiltKeepsInv ==
    ASSUME reloads' \in Nat, Build, entry' = entry
    PROVE  EffectInv'
  BY DEF EffectInv, TokenTakesEffect, Build

LEMMA EntryStep ==
    ASSUME EffectInv,
           \/ SetUp \/ Reload \/ Loads \/ SetUpRefused \/ SetUpFails \/ PollRefused
           \/ UserReload \/ Restart
    PROVE  EffectInv'
<1> USE DEF EffectInv
<1>1. CASE SetUp
  BY <1>1, BuiltKeepsInv DEF SetUp
<1>2. CASE Reload
  BY <1>2, BuiltKeepsInv DEF Reload
<1>3. CASE Loads \/ SetUpFails
  BY <1>3 DEF Loads, SetUpFails, formVars, TokenTakesEffect
<1>4. CASE SetUpRefused \/ PollRefused
  BY <1>4 DEF SetUpRefused, PollRefused, Prompt, TokenTakesEffect
<1>5. CASE UserReload
  BY <1>5 DEF UserReload, TokenTakesEffect
<1>6. CASE Restart
  BY <1>6 DEF Restart, TokenTakesEffect
<1> QED
  BY <1>1, <1>2, <1>3, <1>4, <1>5, <1>6

LEMMA PromptStep ==
    ASSUME EffectInv, PromptSent \/ SignInAgain \/ PromptReloads \/ PromptEnds
    PROVE  EffectInv'
<1>1. CASE PromptSent
  BY <1>1, UntouchedKeepsInv DEF PromptSent
<1>2. CASE SignInAgain
  <2>1. PICK t \in Tokens : SignedInAgain(t)
    BY <1>2 DEF SignInAgain
  <2>2. reloads' \in Nat
    BY <2>1 DEF EffectInv, SignedInAgain, ByListener
  <2>3. prompt'.at = "reloading"
    BY <2>1 DEF SignedInAgain
  <2> QED
    BY <2>2, <2>3 DEF EffectInv, TokenTakesEffect
<1>3. CASE PromptReloads
  BY <1>3, BuiltKeepsInv DEF PromptReloads, EffectInv
<1>4. CASE PromptEnds
  BY <1>4, UntouchedKeepsInv DEF PromptEnds
<1> QED
  BY <1>1, <1>2, <1>3, <1>4

LEMMA NewFormStep ==
    ASSUME EffectInv, NEW f \in NewForms,
           \/ PinNotSent(f) \/ NewClosed(f)
           \/ \E r \in Regions : NumberSubmitted(f, r)
           \/ \E t \in Tokens : NewSignedIn(f, t)
    PROVE  EffectInv'
<1>1. CASE PinNotSent(f) \/ NewClosed(f) \/ \E r \in Regions : NumberSubmitted(f, r)
  BY <1>1, UntouchedKeepsInv DEF PinNotSent, NewClosed, NumberSubmitted
<1>2. CASE \E t \in Tokens : NewSignedIn(f, t)
  BY <1>2 DEF NewSignedIn, EffectInv, TokenTakesEffect
<1> QED
  BY <1>1, <1>2

LEMMA RegionFormStep ==
    ASSUME EffectInv, NEW f \in RegionForms,
           \/ ChangeClosed(f)
           \/ \E r \in Regions : RegionSubmitted(f, r)
           \/ \E t \in Tokens : RegionChanged(f, t)
    PROVE  EffectInv'
<1>1. CASE ChangeClosed(f) \/ \E r \in Regions : RegionSubmitted(f, r)
  BY <1>1, UntouchedKeepsInv DEF ChangeClosed, RegionSubmitted
<1>2. CASE \E t \in Tokens : RegionChanged(f, t)
  <2>1. reloads' \in Nat /\ reloads' > 0
    BY <1>2 DEF RegionChanged, EffectInv, ByListener
  <2> QED
    BY <2>1 DEF EffectInv, TokenTakesEffect
<1> QED
  BY <1>1, <1>2

\* While the coordinator of an entry has another token or datacentre than the entry
\* stores, a reload is on its way: the update listener's, which exists only once the
\* entry is loaded, or the one that the form itself asks for.
THEOREM StoredTokenTakesEffect == Spec => []TokenTakesEffect
<1>1. Init => EffectInv
  BY DEF Init, EffectInv, TokenTakesEffect
<1>2. EffectInv /\ [Next]_vars => EffectInv'
  <2> SUFFICES ASSUME EffectInv, [Next]_vars PROVE EffectInv'
    OBVIOUS
  <2>1. CASE \E t \in Tokens : Revoke(t)
    BY <2>1, UntouchedKeepsInv DEF Revoke, formVars
  <2>2. CASE UNCHANGED vars
    BY <2>2, UntouchedKeepsInv DEF vars, formVars
  <2> QED
    BY <2>1, <2>2, EntryStep, PromptStep, NewFormStep, RegionFormStep DEF Next
<1>3. EffectInv => TokenTakesEffect
  BY DEF EffectInv
<1> QED
  BY <1>1, <1>2, <1>3, PTL DEF Spec

-----------------------------------------------------------------------------
(***************************************************************************)
(* Types.                                                                  *)
(***************************************************************************)
LEMMA DefaultsExist == DefaultRegion \in Regions /\ (CHOOSE t \in Tokens : TRUE) \in Tokens
  BY RegionsAssumption, TokensAssumption DEF DefaultRegion

LEMMA FormTypes ==
    /\ Closed \in NewStates /\ Closed \in ChangeStates /\ NoPrompt \in PromptStates
    /\ \A r \in Regions, c \in {"none", "pin"} :
           [at |-> c, region |-> r] \in NewStates \cap ChangeStates
    /\ \A r \in Regions : [at |-> "unsent", region |-> r, outdated |-> FALSE] \in PromptStates
    /\ \A r \in Regions, t \in Tokens : [region |-> r, token |-> t] \in Stored
  BY DefaultsExist DEF Closed, NoPrompt, NewStates, ChangeStates, PromptStates, Stored

LEMMA FieldTypes ==
    /\ \A x \in NewStates : x.region \in Regions /\ [x EXCEPT !.at = "again"] \in NewStates
    /\ \A x \in ChangeStates : x.region \in Regions
    /\ \A x \in PromptStates :
           /\ x.region \in Regions /\ [x EXCEPT !.outdated = TRUE] \in PromptStates
           /\ \A c \in {"sent", "reloading", "reloaded"} : [x EXCEPT !.at = c] \in PromptStates
    /\ \A x \in Stored : x.region \in Regions /\ x.token \in Tokens
    /\ \A x \in Stored, t \in Tokens : [x EXCEPT !.token = t] \in Stored
  BY DEF NewStates, ChangeStates, PromptStates, Stored

LEMMA TypeOKInit == Init => TypeOK
<1> SUFFICES ASSUME Init PROVE TypeOK
  OBVIOUS
<1>1. entry \in Stored /\ client = entry /\ entry.region \in Regions
  BY DefaultsExist, FormTypes DEF Init
<1>2. new \in [NewForms -> NewStates] /\ change \in [RegionForms -> ChangeStates]
  BY FormTypes DEF Init
<1>3. issuedIn \in [Tokens -> Regions]
  BY <1>1 DEF Init
<1>4. prompt \in PromptStates /\ reloads \in 0..MaxReloads /\ good \in SUBSET Tokens
  BY FormTypes, ReloadsAssumption DEF Init
<1>5. state = "absent" /\ polling \in BOOLEAN
  BY DEF Init
<1> QED
  BY <1>1, <1>2, <1>3, <1>4, <1>5 DEF TypeOK

LEMMA IssuedTypes ==
    ASSUME TypeOK, NEW t \in Tokens, NEW r \in Regions, Issue(t, r)
    PROVE  issuedIn' \in [Tokens -> Regions] /\ issuedIn'[t] = r /\ good' \in SUBSET Tokens
  BY DEF TypeOK, Issue

LEMMA TypeOKEntry ==
    ASSUME TypeOK,
           \/ SetUp \/ Reload \/ Loads \/ SetUpRefused \/ SetUpFails \/ PollRefused
           \/ UserReload \/ Restart \/ \E t \in Tokens : Revoke(t)
    PROVE  TypeOK'
<1> USE ReloadsAssumption DEF TypeOK, formVars, cloudVars, entryVars
<1>1. CASE SetUp \/ Reload \/ Loads \/ SetUpFails \/ UserReload
  <2>1. polling' \in BOOLEAN
    BY <1>1 DEF SetUp, Reload, Build, Loads, SetUpFails, UserReload
  <2>2. reloads' \in 0..MaxReloads
    BY <1>1 DEF SetUp, Reload, Loads, SetUpFails, UserReload
  <2>3. /\ state' \in {"absent", "waiting", "setup", "loaded", "failed"} /\ client' \in Stored
        /\ UNCHANGED <<entry, formVars, cloudVars>>
    BY <1>1 DEF SetUp, Reload, Build, Loads, SetUpFails, UserReload
  <2> QED
    BY <2>1, <2>2, <2>3
<1>2. CASE SetUpRefused \/ PollRefused
  <2>1. prompt' \in PromptStates
    BY <1>2, FormTypes, FieldTypes DEF SetUpRefused, PollRefused, Prompt
  <2> QED
    BY <1>2, <2>1 DEF SetUpRefused, PollRefused
<1>3. CASE Restart
  <2>1. new' \in [NewForms -> NewStates] /\ change' \in [RegionForms -> ChangeStates]
    BY <1>3, FormTypes, FieldTypes DEF Restart
  <2>2. reloads' \in 0..MaxReloads /\ prompt' \in PromptStates
    BY <1>3, FormTypes DEF Restart
  <2>3. polling' = FALSE /\ state' = "waiting" /\ UNCHANGED <<entry, client, cloudVars>>
    BY <1>3 DEF Restart
  <2> QED
    BY <2>1, <2>2, <2>3
<1>4. CASE \E t \in Tokens : Revoke(t)
  BY <1>4 DEF Revoke
<1> QED
  BY <1>1, <1>2, <1>3, <1>4

LEMMA TypeOKForms ==
    ASSUME TypeOK,
           \/ PromptSent \/ SignInAgain \/ PromptReloads \/ PromptEnds
           \/ \E f \in NewForms :
                  \/ PinNotSent(f) \/ NewClosed(f)
                  \/ \E r \in Regions : NumberSubmitted(f, r)
                  \/ \E t \in Tokens : NewSignedIn(f, t)
           \/ \E f \in RegionForms :
                  \/ ChangeClosed(f)
                  \/ \E r \in Regions : RegionSubmitted(f, r)
                  \/ \E t \in Tokens : RegionChanged(f, t)
    PROVE  TypeOK'
<1> USE ReloadsAssumption DEF TypeOK, formVars, cloudVars, entryVars, ByListener
<1>1. CASE PromptSent \/ PromptReloads \/ PromptEnds
  <2>1. prompt' \in PromptStates
    BY <1>1, FormTypes, FieldTypes DEF PromptSent, PromptReloads, PromptEnds
  <2>2. /\ state' \in {"absent", "waiting", "setup", "loaded", "failed"}
        /\ client' \in Stored /\ polling' \in BOOLEAN
        /\ UNCHANGED <<entry, reloads, new, change, cloudVars>>
    BY <1>1 DEF PromptSent, PromptReloads, PromptEnds, Build
  <2> QED
    BY <2>1, <2>2
<1>2. CASE SignInAgain
  <2>1. PICK t \in Tokens : SignedInAgain(t)
    BY <1>2 DEF SignInAgain
  <2>i. prompt.region \in Regions /\ Issue(t, prompt.region)
    BY <2>1, FieldTypes, Zenon DEF SignedInAgain
  <2>2. issuedIn' \in [Tokens -> Regions] /\ good' \in SUBSET Tokens
    BY <2>i, IssuedTypes
  <2>3. reloads' \in 0..MaxReloads
    BY <2>1 DEF SignedInAgain
  <2>4. prompt' \in PromptStates /\ entry' \in Stored
    BY <2>1, FieldTypes DEF SignedInAgain
  <2>5. UNCHANGED <<state, client, polling, new, change>>
    BY <2>1, Zenon DEF SignedInAgain
  <2> QED
    BY <2>2, <2>3, <2>4, <2>5
<1>3. ASSUME NEW f \in NewForms, NEW r \in Regions,
             PinNotSent(f) \/ NewClosed(f) \/ NumberSubmitted(f, r)
      PROVE  TypeOK'
  <2>1. new' \in [NewForms -> NewStates]
    <3>1. CASE PinNotSent(f)
      BY <3>1 DEF PinNotSent, NewStates
    <3>2. CASE NewClosed(f) \/ NumberSubmitted(f, r)
      BY <3>2, FormTypes DEF NewClosed, NumberSubmitted
    <3> QED
      BY <1>3, <3>1, <3>2
  <2>2. UNCHANGED <<entryVars, prompt, change, cloudVars>>
    BY <1>3, Zenon DEF PinNotSent, NewClosed, NumberSubmitted
  <2> QED
    BY <2>1, <2>2
<1>4. ASSUME NEW f \in NewForms, NEW t \in Tokens, NewSignedIn(f, t) PROVE TypeOK'
  <2>1. new' \in [NewForms -> NewStates] /\ new[f].region \in Regions
    BY <1>4, FormTypes, FieldTypes DEF NewSignedIn
  <2>2. issuedIn' \in [Tokens -> Regions] /\ good' \in SUBSET Tokens
    BY <1>4, <2>1, IssuedTypes DEF NewSignedIn
  <2>3. entry' \in Stored /\ client' \in Stored /\ polling' \in BOOLEAN /\ state' = "waiting"
    BY <1>4, <2>1, FormTypes DEF NewSignedIn
  <2> QED
    BY <1>4, <2>1, <2>2, <2>3 DEF NewSignedIn
<1>5. ASSUME NEW f \in RegionForms, NEW r \in Regions, ChangeClosed(f) \/ RegionSubmitted(f, r)
      PROVE  TypeOK'
  <2>1. change' \in [RegionForms -> ChangeStates]
    BY <1>5, FormTypes, FieldTypes DEF ChangeClosed, RegionSubmitted
  <2> QED
    BY <1>5, <2>1 DEF ChangeClosed, RegionSubmitted
<1>6. ASSUME NEW f \in RegionForms, NEW t \in Tokens, RegionChanged(f, t) PROVE TypeOK'
  <2>1. change' \in [RegionForms -> ChangeStates] /\ change[f].region \in Regions
    BY <1>6, FormTypes, FieldTypes DEF RegionChanged
  <2>2. issuedIn' \in [Tokens -> Regions] /\ good' \in SUBSET Tokens
    BY <1>6, <2>1, IssuedTypes DEF RegionChanged
  <2>3. reloads' \in 0..MaxReloads
    BY <1>6 DEF RegionChanged
  <2>4. prompt' \in PromptStates
    BY <1>6, FieldTypes DEF RegionChanged
  <2>5. entry' \in Stored
    BY <1>6, <2>1, FormTypes DEF RegionChanged
  <2> QED
    BY <1>6, <2>1, <2>2, <2>3, <2>4, <2>5 DEF RegionChanged
<1> QED
  BY <1>1, <1>2, <1>3, <1>4, <1>5, <1>6, DefaultsExist

\* The entry, the forms and the cloud's tokens keep their types.
THEOREM TypeCorrect == Spec => []TypeOK
<1>1. TypeOK /\ [Next]_vars => TypeOK'
  <2>1. ASSUME TypeOK, UNCHANGED vars PROVE TypeOK'
    BY <2>1 DEF vars, entryVars, formVars, cloudVars, TypeOK
  <2> QED
    BY <2>1, TypeOKEntry, TypeOKForms DEF Next
<1> QED
  BY <1>1, TypeOKInit, PTL DEF Spec

-----------------------------------------------------------------------------
(***************************************************************************)
(* The forms.  A number has one form for adding it, and none any more once *)
(* it has an entry; the form for signing in again keeps to the datacentre  *)
(* of the entry unless that is changed behind it.                          *)
(***************************************************************************)
OneAdds == \A f \in NewForms : Holds(f) => state = "absent" /\ \A g \in NewForms : Holds(g) => g = f

NothingYet ==
    state = "absent" =>
        /\ prompt.at = "none" /\ reloads = 0
        /\ \A f \in RegionForms : change[f].at = "none"

PromptsItsRegion ==
    prompt.at \in {"unsent", "sent"} /\ ~prompt.outdated => prompt.region = entry.region

FormsInv == OneAdds /\ NothingYet /\ PromptsItsRegion

\* The steps of the entry leave the forms alone, or open a prompt with its datacentre.
LEMMA FormsEntry ==
    ASSUME TypeOK, FormsInv,
           \/ SetUp \/ Reload \/ Loads \/ SetUpRefused \/ SetUpFails \/ PollRefused
           \/ UserReload \/ Restart \/ \E t \in Tokens : Revoke(t)
    PROVE  FormsInv'
<1> USE DEF FormsInv, formVars, cloudVars, entryVars
<1>1. CASE Reload
  <2>1. state # "absent" /\ state' # "absent"
    BY <1>1 DEF Reload, Build, NothingYet
  <2> QED
    BY <1>1, <2>1 DEF Reload, OneAdds, Holds, NothingYet, PromptsItsRegion
<1>2. CASE SetUp \/ Loads \/ SetUpFails \/ UserReload
  BY <1>2 DEF SetUp, Build, Loads, SetUpFails, UserReload, OneAdds, Holds, NothingYet,
              PromptsItsRegion
<1>3. CASE SetUpRefused \/ PollRefused
  <2>1. /\ state # "absent" /\ state' # "absent" /\ UNCHANGED <<entry, new>>
        /\ \/ prompt' = prompt
           \/ prompt' = [at |-> "unsent", region |-> entry.region, outdated |-> FALSE]
    BY <1>3 DEF SetUpRefused, PollRefused, Prompt
  <2> QED
    BY <2>1 DEF OneAdds, Holds, NothingYet, PromptsItsRegion
<1>4. CASE Restart
  <2>1. /\ state' # "absent" /\ prompt'.at = "none"
        /\ \A f \in NewForms : new'[f].at = "none"
    BY <1>4 DEF Restart, NoPrompt, Closed
  <2> QED
    BY <2>1 DEF OneAdds, Holds, NothingYet, PromptsItsRegion
<1>5. CASE \E t \in Tokens : Revoke(t)
  BY <1>5 DEF Revoke, OneAdds, Holds, NothingYet, PromptsItsRegion
<1> QED
  BY <1>1, <1>2, <1>3, <1>4, <1>5

LEMMA FormsPrompt ==
    ASSUME TypeOK, FormsInv, PromptSent \/ SignInAgain \/ PromptReloads \/ PromptEnds
    PROVE  FormsInv'
<1>1. state # "absent" /\ prompt \in PromptStates /\ entry \in Stored
  BY DEF FormsInv, NothingYet, TypeOK, PromptSent, SignInAgain, SignedInAgain,
         PromptReloads, PromptEnds
<1>2. state' # "absent" /\ UNCHANGED new
  BY <1>1 DEF PromptSent, SignInAgain, SignedInAgain, PromptReloads, PromptEnds, Build, entryVars
<1>3. OneAdds' /\ NothingYet'
  BY <1>1, <1>2 DEF FormsInv, OneAdds, Holds, NothingYet
<1>4. PromptsItsRegion'
  <2>1. CASE PromptSent
    BY <1>1, <2>1 DEF PromptSent, FormsInv, PromptsItsRegion, entryVars, PromptStates
  <2>2. CASE SignInAgain \/ PromptReloads \/ PromptEnds
    <3>1. prompt'.at \notin {"unsent", "sent"}
      BY <1>1, <2>2 DEF SignInAgain, SignedInAgain, PromptReloads, PromptEnds, NoPrompt,
                        PromptStates
    <3> QED
      BY <3>1 DEF PromptsItsRegion
  <2> QED
    BY <2>1, <2>2
<1> QED
  BY <1>3, <1>4 DEF FormsInv

LEMMA FormsNew ==
    ASSUME TypeOK, FormsInv, NEW f \in NewForms,
           \/ PinNotSent(f) \/ NewClosed(f)
           \/ \E r \in Regions : NumberSubmitted(f, r)
           \/ \E t \in Tokens : NewSignedIn(f, t)
    PROVE  FormsInv'
<1>1. new \in [NewForms -> NewStates]
  BY DEF TypeOK
<1>2. \A g \in NewForms \ {f} : new'[g] = new[g]
  BY <1>1 DEF PinNotSent, NewClosed, NumberSubmitted, NewSignedIn
<1>3. CASE PinNotSent(f) \/ \E r \in Regions : NumberSubmitted(f, r)
  <2>1. UNCHANGED <<entryVars, prompt, change>>
    BY <1>3, Zenon DEF PinNotSent, NumberSubmitted
  <2>2. Aborts(f) => new'[f].at = "none"
    BY <1>1, <1>3 DEF PinNotSent, NumberSubmitted, Closed
  <2>3. OneAdds'
    BY <1>2, <2>1, <2>2 DEF FormsInv, OneAdds, Holds, Aborts, entryVars
  <2> QED
    BY <2>1, <2>3 DEF FormsInv, NothingYet, PromptsItsRegion, entryVars
<1>4. CASE NewClosed(f)
  <2>1. UNCHANGED <<entryVars, prompt, change>> /\ new'[f].at = "none"
    BY <1>1, <1>4 DEF NewClosed, Closed
  <2> QED
    BY <1>2, <2>1 DEF FormsInv, OneAdds, Holds, NothingYet, PromptsItsRegion, entryVars
<1>5. CASE \E t \in Tokens : NewSignedIn(f, t)
  <2>1. Holds(f) /\ state' = "waiting" /\ UNCHANGED prompt /\ new'[f].at = "none"
    BY <1>1, <1>5 DEF NewSignedIn, Closed, Holds
  <2>2. state = "absent" /\ \A g \in NewForms : ~Holds(g)'
    BY <1>2, <2>1 DEF FormsInv, OneAdds, Holds
  <2> QED
    BY <2>1, <2>2 DEF FormsInv, OneAdds, NothingYet, PromptsItsRegion
<1> QED
  BY <1>3, <1>4, <1>5

LEMMA FormsRegion ==
    ASSUME TypeOK, FormsInv, NEW f \in RegionForms,
           \/ ChangeClosed(f)
           \/ \E r \in Regions : RegionSubmitted(f, r)
           \/ \E t \in Tokens : RegionChanged(f, t)
    PROVE  FormsInv'
<1>1. prompt \in PromptStates
  BY DEF TypeOK
<1>2. UNCHANGED <<state, new>> /\ state # "absent"
  BY DEF ChangeClosed, RegionSubmitted, RegionChanged, entryVars, FormsInv, NothingYet
<1>3. OneAdds' /\ NothingYet'
  BY <1>2 DEF FormsInv, OneAdds, Holds, NothingYet
<1>4. CASE ChangeClosed(f) \/ \E r \in Regions : RegionSubmitted(f, r)
  BY <1>3, <1>4 DEF ChangeClosed, RegionSubmitted, FormsInv, PromptsItsRegion, entryVars
<1>5. CASE \E t \in Tokens : RegionChanged(f, t)
  <2>1. prompt'.at \in {"unsent", "sent"} => prompt'.outdated
    BY <1>1, <1>5 DEF RegionChanged, PromptStates
  <2> QED
    BY <1>3, <2>1 DEF FormsInv, PromptsItsRegion
<1> QED
  BY <1>4, <1>5

LEMMA FormsStep == TypeOK /\ FormsInv /\ [Next]_vars => FormsInv'
<1>1. ASSUME FormsInv, UNCHANGED vars PROVE FormsInv'
  BY <1>1 DEF vars, entryVars, formVars, FormsInv, OneAdds, Holds, NothingYet, PromptsItsRegion
<1> QED
  BY <1>1, FormsEntry, FormsPrompt, FormsNew, FormsRegion DEF Next

LEMMA FormsInductive == Spec => [](TypeOK /\ FormsInv)
<1>1. Init => FormsInv
  BY DEF Init, FormsInv, OneAdds, Holds, Closed, NoPrompt, NothingYet, PromptsItsRegion
<1> QED
  BY <1>1, FormsStep, TypeCorrect, PTL DEF Spec

\* A form for adding the integration that was open while another one created the entry
\* never replaces the entry (async_set_unique_id, _abort_if_unique_id_configured).
THEOREM AddingNeverReplaces == Spec => NeverReplaced
<1>1. FormsInv /\ [Next]_vars
        => [\A f \in NewForms :
               (new[f].at = "pin" /\ entry' # entry /\ change' = change /\ prompt' = prompt)
                   => state = "absent"]_vars
  BY DEF FormsInv, OneAdds, Holds
<1> QED
  BY <1>1, FormsInductive, PTL DEF Spec, NeverReplaced

\* The stored token is one of the stored datacentre, unless a prompt is answered after
\* the datacentre was changed behind it: async_step_reauth_confirm keeps its client.
THEOREM TokenMatchesRegion == Spec => TokenOfItsRegion
<1>1. ASSUME TypeOK, FormsInv, [Next]_vars, entry' # entry
      PROVE  issuedIn'[entry'.token] = entry'.region \/ (prompt.at = "sent" /\ prompt.outdated)
  <2>1. CASE SignInAgain
    <3>1. PICK t \in Tokens : SignedInAgain(t)
      BY <2>1 DEF SignInAgain
    <3>2. prompt.at = "sent" /\ Issue(t, prompt.region) /\ prompt.region \in Regions
      BY <1>1, <3>1, FieldTypes, Zenon DEF SignedInAgain, TypeOK
    <3>3. issuedIn'[t] = prompt.region
      BY <1>1, <3>2, IssuedTypes
    <3>4. entry'.token = t /\ entry'.region = entry.region
      BY <1>1, <3>1 DEF SignedInAgain, TypeOK, Stored
    <3> QED
      BY <1>1, <3>2, <3>3, <3>4 DEF FormsInv, PromptsItsRegion
  <2>2. ASSUME NEW f \in NewForms, NEW t \in Tokens, NewSignedIn(f, t)
        PROVE  issuedIn'[entry'.token] = entry'.region
    <3>1. Issue(t, new[f].region) /\ new[f].region \in Regions
      BY <1>1, <2>2, FieldTypes DEF NewSignedIn, TypeOK
    <3> QED
      BY <1>1, <2>2, <3>1, IssuedTypes DEF NewSignedIn
  <2>3. ASSUME NEW f \in RegionForms, NEW t \in Tokens, RegionChanged(f, t)
        PROVE  issuedIn'[entry'.token] = entry'.region
    <3>1. Issue(t, change[f].region) /\ change[f].region \in Regions
      BY <1>1, <2>3, FieldTypes DEF RegionChanged, TypeOK
    <3> QED
      BY <1>1, <2>3, <3>1, IssuedTypes DEF RegionChanged
  <2>4. \/ SignInAgain
        \/ \E f \in NewForms, t \in Tokens : NewSignedIn(f, t)
        \/ \E f \in RegionForms, t \in Tokens : RegionChanged(f, t)
    BY <1>1 DEF Next, SetUp, Reload, Build, Loads, SetUpRefused, SetUpFails, PollRefused,
                UserReload, Restart, PromptSent, PromptReloads, PromptEnds, PinNotSent,
                NewClosed, NumberSubmitted, ChangeClosed, RegionSubmitted, Revoke, vars, entryVars
  <2> QED
    BY <2>1, <2>2, <2>3, <2>4
<1>2. TypeOK /\ FormsInv /\ [Next]_vars
        => [entry' # entry =>
               \/ issuedIn'[entry'.token] = entry'.region
               \/ prompt.at = "sent" /\ prompt.outdated]_vars
  BY <1>1
<1> QED
  BY <1>2, FormsInductive, PTL DEF Spec, TokenOfItsRegion

-----------------------------------------------------------------------------
(***************************************************************************)
(* What the token gives access to: CloudUpdate, with any number of update  *)
(* cycles, users and follow-ups, and any ages, attempts and queued pulses. *)
(***************************************************************************)
\* A poll of a follow-up that waits to be stored counts among the polls it has left.
PollsLeft ==
    /\ answer \in [Jobs -> Balances \cup {Unknown, Nothing}]
    /\ \A j \in Jobs : answer[j] # Nothing => tries[j] > 0

\* A call that has passed Redundant asks for the opposite of what it saw.
CallsChange ==
    /\ call = [u \in Users |-> call[u]]
    /\ \A u \in Users : call[u] # Idle =>
           /\ call[u].wants \in BOOLEAN
           /\ call[u].saw # call[u].wants

CloudInv == CloudTypeOK /\ PollsLeft /\ CallsChange

LEMMA CloudInvInit == ASSUME CloudInit PROVE CloudInv
<1>1. {DiagAge, Attempts, MaxPulses} \subseteq Nat
  BY NumbersAssumption
<1>2. pulses \in 0..MaxPulses /\ age \in 0..DiagAge /\ tries \in [Jobs -> 0..Attempts]
  BY <1>1 DEF CloudInit
<1>3. CloudTypeOK
  BY <1>2 DEF CloudInit, CloudTypeOK
<1>4. CallsChange
  BY DEF CallsChange, CloudInit
<1> QED
  BY <1>3, <1>4 DEF CloudInv, PollsLeft, CloudInit

\* Calls are left alone by every step but their own.
LEMMA CallsKept == ASSUME CallsChange, UNCHANGED call PROVE CallsChange'
  BY DEF CallsChange, Idle

\* A call that begins asks for a change; one that ends is idle.
LEMMA CallSet ==
    ASSUME CallsChange, NEW u \in Users, NEW made, call' = [call EXCEPT ![u] = made],
           made # Idle => made.wants \in BOOLEAN /\ made.saw # made.wants
    PROVE  CallsChange'
<1>1. Idle' = Idle
  BY DEF Idle
<1>2. call' = [v \in Users |-> IF v = u THEN made ELSE call[v]]
  BY DEF CallsChange
<1>3. call' = [v \in Users |-> call'[v]]
  BY <1>2
<1>4. ASSUME NEW v \in Users, call'[v] # Idle
      PROVE  call'[v].wants \in BOOLEAN /\ call'[v].saw # call'[v].wants
  BY <1>2, <1>4 DEF CallsChange
<1> QED
  BY <1>1, <1>3, <1>4 DEF CallsChange

LEMMA WorldStep == ASSUME CloudInv, Environment PROVE CloudInv'
<1> USE DEF CloudInv, CloudTypeOK, PollsLeft, cycleVars, caches, followUps
<1>1. CASE Relisted
  BY <1>1, CallsKept DEF Relisted
<1>2. CASE Moves
  BY <1>2, CallsKept DEF Moves
<1>3. CASE SwitchedByHand
  BY <1>3, CallsKept DEF SwitchedByHand
<1>4. CASE PulseArrives
  <2>1. pulses' \in 0..MaxPulses
    BY <1>4, NumbersAssumption DEF PulseArrives
  <2>2. output' \in BOOLEAN
    BY <1>4 DEF PulseArrives
  <2> QED
    BY <1>4, <2>1, <2>2, CallsKept DEF PulseArrives
<1>5. CASE BalanceSyncs
  BY <1>5, CallsKept DEF BalanceSyncs
<1> QED
  BY <1>1, <1>2, <1>3, <1>4, <1>5 DEF Environment

\* Of what CloudInv speaks of, a cycle sets `known` and the age only.
LEMMA CycleKeeps ==
    ASSUME CloudInv, NEW c \in Cycles, Begin(c) \/ CycleStep(c)
    PROVE  CloudInv'
<1>1. UNCHANGED <<world, tries, answer, call>>
  BY DEF Begin, CycleStep, CycleAnswered, Hiccup, Unlisted, Devices,
         AdminDevices, Statuses, GsmConfig, IoAnswered,
         DiagAnswered, IoStored, DiagStored, Fails, IoFails,
         DiagFails, End, followUps
<1>2. known' \in BOOLEAN \cup {known} /\ age' \in {age, 0}
  BY DEF Begin, CycleStep, CycleAnswered, Hiccup, Unlisted, Devices,
         AdminDevices, Statuses, GsmConfig, IoAnswered,
         DiagAnswered, IoStored, DiagStored, Fails, IoFails,
         DiagFails, End, caches, AskedForDiag
<1>3. CallsChange'
  BY <1>1, CallsKept DEF CloudInv
<1>4. age' \in 0..DiagAge
  BY <1>2, NumbersAssumption DEF CloudInv, CloudTypeOK
<1>5. known' \in BOOLEAN
  BY <1>2 DEF CloudInv, CloudTypeOK
<1> QED
  BY <1>1, <1>3, <1>4, <1>5 DEF CloudInv, CloudTypeOK, PollsLeft, world

\* What a poll may have read.
LEMMA ReportTypes ==
    ASSUME CloudTypeOK, NEW online
    PROVE  Reported(online) \in Balances \cup {Unknown} /\ Reported(online) # Nothing
  BY UnknownAssumption DEF CloudTypeOK, Reported

\* Each step of a follow-up counts that one's polls; the others' stay as they are.
LEMMA FollowUpKeeps ==
    ASSUME CloudInv, NEW j \in Jobs, RequestBalance(j) \/ FollowUpStep(j)
    PROVE  CloudInv'
<1> USE DEF CloudInv, CloudTypeOK, PollsLeft, world, cycleVars, caches, followUps
<1>1. CASE RequestBalance(j)
  <2>1. tries' \in [Jobs -> 0..Attempts] /\ \A i \in Jobs : tries[i] > 0 => tries'[i] > 0
    BY <1>1, NumbersAssumption DEF RequestBalance
  <2> QED
    BY <1>1, <2>1, CallsKept DEF RequestBalance
<1>2. ASSUME NEW online \in BOOLEAN, FollowUpAnswered(j, online) PROVE CloudInv'
  <2>1. /\ answer' \in [Jobs -> Balances \cup {Unknown, Nothing}]
        /\ \A i \in Jobs : answer'[i] # Nothing => tries[i] > 0
    BY <1>2, ReportTypes DEF FollowUpAnswered
  <2> QED
    BY <1>2, <2>1, CallsKept DEF FollowUpAnswered
<1>3. CASE FollowUpFails(j)
  <2>1. tries' \in [Jobs -> 0..Attempts]
    BY <1>3, NumbersAssumption DEF FollowUpFails
  <2>2. \A i \in Jobs : answer[i] # Nothing => tries'[i] > 0
    BY <1>3 DEF FollowUpFails
  <2> QED
    BY <1>3, <2>1, <2>2, CallsKept DEF FollowUpFails
<1>4. CASE FollowUpStored(j)
  <2>1. tries[j] > 0 /\ tries' \in [Jobs -> 0..Attempts]
    BY <1>4, NumbersAssumption DEF FollowUpStored
  <2>2. /\ answer' \in [Jobs -> Balances \cup {Unknown, Nothing}]
        /\ \A i \in Jobs : answer'[i] # Nothing => tries'[i] > 0
    BY <1>4 DEF FollowUpStored
  <2>3. age' \in 0..DiagAge
    BY <1>4, NumbersAssumption DEF FollowUpStored
  <2> QED
    BY <1>4, <2>1, <2>2, <2>3, CallsKept DEF FollowUpStored
<1> QED
  BY <1>1, <1>2, <1>3, <1>4 DEF FollowUpStep

LEMMA TickKeeps == ASSUME CloudInv, Tick PROVE CloudInv'
<1>1. age' \in 0..DiagAge
  BY NumbersAssumption DEF Tick, CloudInv, CloudTypeOK
<1> QED
  BY <1>1, CallsKept DEF Tick, CloudInv, CloudTypeOK, PollsLeft, world, followUps

LEMMA SwitchKeeps ==
    ASSUME CloudInv, NEW u \in Users,
           \/ \E wanted \in BOOLEAN : TurnOnOrOff(u, wanted)
           \/ Queued(u) \/ Refused(u)
    PROVE  CloudInv'
<1> USE DEF world, cycleVars, caches, followUps
<1>1. /\ UNCHANGED <<remote, admin, position, output, balance, requested, known, age, tries,
                     answer>>
      /\ pulses' \in 0..MaxPulses
  BY NumbersAssumption DEF CloudInv, CloudTypeOK, TurnOnOrOff, Queued, Refused
<1>2. ASSUME \E wanted \in BOOLEAN : TurnOnOrOff(u, wanted) PROVE CallsChange'
  <2>1. PICK wanted \in BOOLEAN : TurnOnOrOff(u, wanted)
    BY <1>2
  <2> DEFINE asked == [wants |-> wanted, saw |-> data.io]
  <2>2. call' = [call EXCEPT ![u] = asked]
    BY <2>1 DEF TurnOnOrOff
  <2>3. asked.wants \in BOOLEAN /\ asked.saw # asked.wants
    BY <2>1 DEF TurnOnOrOff, Redundant
  <2> HIDE DEF asked
  <2> QED
    BY <2>2, <2>3, CallSet DEF CloudInv
<1>3. ASSUME Queued(u) \/ Refused(u) PROVE CallsChange'
  BY <1>3, CallSet DEF CloudInv, Queued, Refused
<1>4. CallsChange'
  BY <1>2, <1>3 DEF CloudInv
<1> QED
  BY <1>1, <1>4 DEF CloudInv, CloudTypeOK, PollsLeft

LEMMA CloudInvStep == ASSUME CloudInv, [CloudNext]_updateVars PROVE CloudInv'
<1>1. CASE UNCHANGED updateVars
  BY <1>1, CallsKept
     DEF CloudInv, CloudTypeOK, PollsLeft, updateVars, world, caches, followUps
<1> QED
  BY <1>1, WorldStep, CycleKeeps, FollowUpKeeps, TickKeeps, SwitchKeeps DEF CloudNext

\* Every count of the update cycle, of the follow-ups of a balance and of the gateway's
\* queue stays within its bounds, and a follow-up that is about to store an answer has
\* that poll left: each _poll_airtime counts its own polls, whatever others store and
\* however many requests spawn them.
THEOREM FollowUpsKeepCount == CloudSpec => [](CloudTypeOK /\ PollsLeft)
<1>1. CloudInit => CloudInv
  BY CloudInvInit
<1>2. CloudInv /\ [CloudNext]_updateVars => CloudInv'
  BY CloudInvStep
<1>3. CloudInv => CloudTypeOK /\ PollsLeft
  BY DEF CloudInv
<1> QED
  BY <1>1, <1>2, <1>3, PTL DEF CloudSpec

\* What is queued and what is on, seen as what will be on.
LEMMA PulseFlips ==
    ASSUME CloudInv, pulses' = pulses + 1, output' = output
    PROVE  Outcome' = ~Outcome
<1>1. pulses \in Nat /\ output \in BOOLEAN
  BY DEF CloudInv, CloudTypeOK
<1>2. ((pulses + 1) % 2 = 0) <=> ~(pulses % 2 = 0)
  BY <1>1
<1> QED
  BY <1>1, <1>2 DEF Outcome

\* A switch of an output that toggles (async_turn_on, async_turn_off) queues its pulse
\* only to change the state that entities showed: if that was where the output would
\* have come to rest, it now comes to rest as asked, whatever other users, update
\* cycles and queued pulses there are.
THEOREM PulseSwitchesAsAsked == CloudSpec => SwitchedAsAsked
<1>1. ASSUME CloudInv, CloudNext, NEW u \in Users, Queued(u),
             call[u].saw = Outcome
      PROVE  Outcome' = call[u].wants
  <2>1. call[u].wants \in BOOLEAN /\ call[u].saw # call[u].wants
    BY <1>1 DEF CloudInv, CallsChange, Queued
  <2>2. Outcome' = ~Outcome
    BY <1>1, PulseFlips DEF Queued
  <2>3. Outcome \in BOOLEAN
    BY DEF Outcome
  <2> QED
    BY <1>1, <2>1, <2>2, <2>3, Zenon
<1>2. CloudInv /\ [CloudNext]_updateVars
        => [\A u \in Users : Queued(u) /\ call[u].saw = Outcome
                => Outcome' = call[u].wants]_updateVars
  BY <1>1
<1>3. CloudInit => CloudInv
  BY CloudInvInit
<1>4. CloudInv /\ [CloudNext]_updateVars => CloudInv'
  BY CloudInvStep
<1> QED
  BY <1>2, <1>3, <1>4, PTL DEF CloudSpec, SwitchedAsAsked
=============================================================================
