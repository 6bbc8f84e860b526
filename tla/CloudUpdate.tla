---------------------------- MODULE CloudUpdate ----------------------------
(***************************************************************************)
(* What the cloud knows and what entities show: the update cycle of        *)
(* coordinator.py without its telemetry (LiveTelemetry) and its shares     *)
(* (SharedTrigger), for one Wi-Fi operator with its status and one GSM     *)
(* device with a two-state output and a balance.  A cycle reads the lists  *)
(* and the status first and publishes them at its end, after the awaits    *)
(* of the GSM phases; what those read goes through caches of their own.    *)
(* Beside cycles run the calls of the output's switch, whose pulses the    *)
(* gateway queues, and the follow-ups of requests for the balance, a task  *)
(* of its own for each.                                                    *)
(***************************************************************************)
EXTENDS Naturals

CONSTANTS
    Cycles,      \* update cycles that may overlap: scheduled, requested
    Users,       \* who may use the switch at a time
    Jobs,        \* bound: follow-ups that may run at a time
    Positions,   \* statuses of the Wi-Fi operator
    Balances,    \* balances of the GSM device
    Unknown,     \* not reported, not read, not listed
    Nothing,     \* no answer that waits to be stored
    DiagAge,     \* TELEMETRY_SCAN_INTERVAL
    Attempts,    \* AIRTIME_POLL_ATTEMPTS
    MaxPulses    \* bound on the pulses queued at the gateway

ASSUME UnknownAssumption ==
    /\ Unknown \notin Positions \cup Balances \cup BOOLEAN
    /\ Nothing \notin Balances \cup BOOLEAN \cup {Unknown}
ASSUME NumbersAssumption == {DiagAge, Attempts, MaxPulses} \subseteq Nat \ {0}

VARIABLES
    remote, admin,   \* the operator is in GetDevices; in GetDevicesByAdmin
    position,        \* the operator's status
    output,          \* the output is on
    pulses,          \* pulses queued for it
    balance,         \* what MCRStatus would answer
    requested,       \* a request for the balance is under way
    at,              \* where each cycle is
    read,            \* what a cycle has read for its end
    heard,           \* the answer a cycle is about to store
    known,           \* the GSM device is in the coordinator's list
    io, diag,        \* cached: state of the output, balance
    hasDiag,         \* _gsm_diag holds something
    age,             \* since _last_gsm_diag
    data,            \* what entities see
    tries, answer,   \* each follow-up: polls left, the answer it is about to store
    call             \* calls of the switch: what is wanted, what was seen

world == <<remote, admin, position, output, pulses, balance, requested>>
cycleVars == <<at, read, heard>>
caches == <<known, io, diag, hasDiag, age>>
followUps == <<tries, answer>>
updateVars == <<world, cycleVars, caches, data, followUps, call>>

NothingRead == [remote |-> FALSE, admin |-> FALSE, position |-> Unknown]

Idle == [wants |-> Unknown, saw |-> Unknown]

CloudInit ==
    /\ remote = TRUE /\ admin = FALSE
    /\ position \in Positions
    /\ output = FALSE /\ pulses = 0
    /\ balance = Unknown /\ requested = FALSE
    /\ at = [c \in Cycles |-> "idle"]
    /\ read = [c \in Cycles |-> NothingRead]
    /\ heard = [c \in Cycles |-> Nothing]
    /\ known = FALSE /\ io = Unknown /\ diag = Unknown /\ hasDiag = FALSE /\ age = DiagAge
    /\ data = [listed |-> FALSE, position |-> Unknown, gsm |-> FALSE,
               io |-> Unknown, balance |-> Unknown]
    /\ tries = [j \in Jobs |-> 0] /\ answer = [j \in Jobs |-> Nothing]
    /\ call = [u \in Users |-> Idle]

-----------------------------------------------------------------------------
(***************************************************************************)
(* The world.                                                              *)
(***************************************************************************)
Relisted ==
    /\ \/ remote' = ~remote /\ UNCHANGED admin
       \/ admin' = ~admin /\ UNCHANGED remote
    /\ UNCHANGED <<position, output, pulses, balance, requested>>
    /\ UNCHANGED <<cycleVars, caches, data, followUps, call>>

Moves ==
    /\ \E p \in Positions \ {position} : position' = p
    /\ UNCHANGED <<remote, admin, output, pulses, balance, requested>>
    /\ UNCHANGED <<cycleVars, caches, data, followUps, call>>

SwitchedByHand ==
    /\ output' = ~output
    /\ UNCHANGED <<remote, admin, position, pulses, balance, requested>>
    /\ UNCHANGED <<cycleVars, caches, data, followUps, call>>

PulseArrives ==
    /\ pulses > 0
    /\ pulses' = pulses - 1
    /\ output' = ~output
    /\ UNCHANGED <<remote, admin, position, balance, requested>>
    /\ UNCHANGED <<cycleVars, caches, data, followUps, call>>

\* A request is answered over the cellular network, or never.
BalanceSyncs ==
    /\ requested
    /\ requested' = FALSE
    /\ balance' \in Balances \cup {balance}
    /\ UNCHANGED <<remote, admin, position, output, pulses>>
    /\ UNCHANGED <<cycleVars, caches, data, followUps, call>>

-----------------------------------------------------------------------------
(***************************************************************************)
(* The update cycle, _async_update_data.                                   *)
(***************************************************************************)
Goes(c, from, to) == at[c] = from /\ at' = [at EXCEPT ![c] = to]

Begin(c) ==
    /\ Goes(c, "idle", "devices")
    /\ UNCHANGED <<world, read, heard, caches, data, followUps, call>>

\* UpdateFailed: what was published stays.
Fails(c) ==
    /\ at[c] \in {"devices", "statuses"}
    /\ at' = [at EXCEPT ![c] = "idle"]
    /\ read' = [read EXCEPT ![c] = NothingRead]
    /\ UNCHANGED <<world, heard, caches, data, followUps, call>>

Devices(c) ==
    /\ Goes(c, "devices", "admin")
    /\ read' = [read EXCEPT ![c].remote = remote]
    /\ UNCHANGED <<world, heard, caches, data, followUps, call>>

\* The union of the two lists.
Listed(c) == read[c].remote \/ read[c].admin

\* A failure is an empty list; without an operator no status is asked.
AdminDevices(c, answered) ==
    /\ at[c] = "admin"
    /\ read' = [read EXCEPT ![c].admin = answered /\ admin]
    /\ at' = [at EXCEPT ![c] = IF Listed(c)' THEN "statuses" ELSE "config"]
    /\ UNCHANGED <<world, heard, caches, data, followUps, call>>

Statuses(c, answered) ==
    /\ Goes(c, "statuses", "config")
    /\ read' = [read EXCEPT ![c].position = IF answered THEN position ELSE Unknown]
    /\ UNCHANGED <<world, heard, caches, data, followUps, call>>

\* Fault: diagnostics are read until there are some.
FaultDiagDue == ~hasDiag

DiagDue == ~hasDiag \/ age >= DiagAge

\* Diagnostics are asked for, of whatever is listed, or the cycle goes on to its end.
AfterIo == IF DiagDue /\ known THEN "ask diag" ELSE "end"

AskedForDiag == age' = IF DiagDue THEN 0 ELSE age

\* The list of GSM devices is kept between refreshes and failures, or becomes what the
\* answer lists.
GsmConfig(c) ==
    /\ at[c] = "config"
    /\ known' \in BOOLEAN
    /\ \/ known' /\ at' = [at EXCEPT ![c] = "ask io"] /\ UNCHANGED age
       \/ ~known' /\ at' = [at EXCEPT ![c] = "end"] /\ AskedForDiag
    /\ UNCHANGED <<world, read, heard, io, diag, hasDiag, data, followUps, call>>

\* An answer that is no configuration ("No Buttons for this number") lists nothing.
Unlisted(c) == GsmConfig(c) /\ known /\ ~known'

\* An answer is on its way; an operator that is offline reports no state.
IoAnswered(c, online) ==
    /\ Goes(c, "ask io", "io")
    /\ heard' = [heard EXCEPT ![c] = IF online THEN output ELSE Unknown]
    /\ UNCHANGED <<world, read, caches, data, followUps, call>>

IoStored(c) ==
    /\ Goes(c, "io", AfterIo)
    /\ io' = heard[c]
    /\ heard' = [heard EXCEPT ![c] = Nothing]
    /\ AskedForDiag
    /\ UNCHANGED <<world, read, known, diag, hasDiag, data, followUps, call>>

IoFails(c) ==
    /\ Goes(c, "ask io", AfterIo)
    /\ AskedForDiag
    /\ UNCHANGED <<world, read, heard, known, io, diag, hasDiag, data, followUps, call>>

\* An operator that is offline, or an empty answer, has no balance.
Reported(online) == IF online THEN balance ELSE Unknown

DiagAnswered(c, online) ==
    /\ Goes(c, "ask diag", "diag")
    /\ heard' = [heard EXCEPT ![c] = Reported(online)]
    /\ UNCHANGED <<world, read, caches, data, followUps, call>>

DiagStored(c) ==
    /\ Goes(c, "diag", "end")
    /\ diag' = heard[c] /\ hasDiag' = TRUE
    /\ heard' = [heard EXCEPT ![c] = Nothing]
    /\ UNCHANGED <<world, read, known, io, age, data, followUps, call>>

\* Nor does an answer that cannot be parsed change anything.
DiagFails(c) ==
    /\ Goes(c, "ask diag", "end")
    /\ UNCHANGED <<world, read, heard, caches, data, followUps, call>>

\* Fault: GSM devices are added to the data that was published before.
FaultEnd(c) ==
    /\ Goes(c, "end", "idle")
    /\ data' = [data EXCEPT !.gsm = known, !.io = io, !.balance = diag,
                            !.listed = @ \/ Listed(c), !.position = read[c].position]
    /\ read' = [read EXCEPT ![c] = NothingRead]
    /\ UNCHANGED <<world, heard, caches, followUps, call>>

\* What is not listed is not in the data.
End(c) ==
    /\ Goes(c, "end", "idle")
    /\ data' = [listed |-> Listed(c), position |-> read[c].position, gsm |-> known,
                io |-> IF known THEN io ELSE Unknown,
                balance |-> IF known THEN diag ELSE Unknown]
    /\ read' = [read EXCEPT ![c] = NothingRead]
    /\ UNCHANGED <<world, heard, caches, followUps, call>>

CycleAnswered(c) ==
    \/ Devices(c) \/ AdminDevices(c, TRUE) \/ Statuses(c, TRUE)
    \/ (GsmConfig(c) /\ known') \/ IoAnswered(c, TRUE) \/ DiagAnswered(c, TRUE)

Hiccup(c) ==
    (admin /\ AdminDevices(c, FALSE)) \/ Statuses(c, FALSE) \/ IoAnswered(c, FALSE)
        \/ Unlisted(c)

CycleStep(c) ==
    \/ CycleAnswered(c) \/ Hiccup(c) \/ DiagAnswered(c, FALSE)
    \/ GsmConfig(c) \/ IoStored(c) \/ DiagStored(c)
    \/ Fails(c) \/ IoFails(c) \/ DiagFails(c) \/ End(c)

Tick ==
    /\ age < DiagAge
    /\ age' = age + 1
    /\ UNCHANGED <<world, cycleVars, known, io, diag, hasDiag, data, followUps, call>>

-----------------------------------------------------------------------------
(***************************************************************************)
(* The balance: CentsysGsmAirtimeButton and _poll_airtime.                 *)
(***************************************************************************)
\* The request is queued; its follow-up is spawned beside those that still run, unless
\* the answer to the request is lost and the press raises.
RequestBalance(j) ==
    /\ data.gsm /\ tries[j] = 0
    /\ requested' = TRUE
    /\ tries' \in {tries, [tries EXCEPT ![j] = Attempts]}
    /\ UNCHANGED <<remote, admin, position, output, pulses, balance>>
    /\ UNCHANGED <<cycleVars, caches, data, answer, call>>

FollowUpAnswered(j, online) ==
    /\ tries[j] > 0 /\ answer[j] = Nothing
    /\ answer' = [answer EXCEPT ![j] = Reported(online)]
    /\ UNCHANGED <<world, cycleVars, caches, data, tries, call>>

FollowUpFails(j) ==
    /\ tries[j] > 0 /\ answer[j] = Nothing
    /\ tries' = [tries EXCEPT ![j] = @ - 1]
    /\ UNCHANGED <<world, cycleVars, caches, data, answer, call>>

\* It ends with the first balance, be it the one of before the request.
FollowUpStored(j) ==
    /\ answer[j] # Nothing
    /\ diag' = answer[j] /\ hasDiag' = TRUE
    /\ age' = 0
    /\ data' = [data EXCEPT !.balance = IF data.gsm THEN answer[j] ELSE @]
    /\ tries' = [tries EXCEPT ![j] = IF answer[j] = Unknown THEN @ - 1 ELSE 0]
    /\ answer' = [answer EXCEPT ![j] = Nothing]
    /\ UNCHANGED <<world, cycleVars, known, io, call>>

FollowUpStep(j) ==
    \/ FollowUpAnswered(j, TRUE) \/ FollowUpAnswered(j, FALSE)
    \/ FollowUpFails(j) \/ FollowUpStored(j)

-----------------------------------------------------------------------------
(***************************************************************************)
(* The switch of the output, CentsysGsmIoSwitch.                           *)
(***************************************************************************)
\* Fault: a pulse is sent whatever the state is.
FaultRedundant(wanted) == FALSE

\* The reported state matches already.
Redundant(wanted) == data.io = wanted

TurnOnOrOff(u, wanted) ==
    /\ data.gsm /\ call[u] = Idle
    /\ ~Redundant(wanted)
    /\ call' = [call EXCEPT ![u] = [wants |-> wanted, saw |-> data.io]]
    /\ UNCHANGED <<world, cycleVars, caches, data, followUps>>

\* "Activation Queued Successfully", or an answer that is lost on its way.
Queued(u) ==
    /\ call[u] # Idle /\ pulses < MaxPulses
    /\ pulses' = pulses + 1
    /\ call' = [call EXCEPT ![u] = Idle]
    /\ UNCHANGED <<remote, admin, position, output, balance, requested>>
    /\ UNCHANGED <<cycleVars, caches, data, followUps>>

Refused(u) ==
    /\ call[u] # Idle
    /\ call' = [call EXCEPT ![u] = Idle]
    /\ UNCHANGED <<world, cycleVars, caches, data, followUps>>

-----------------------------------------------------------------------------
Environment == Relisted \/ Moves \/ SwitchedByHand \/ PulseArrives \/ BalanceSyncs

CloudNext ==
    \/ Environment \/ Tick
    \/ \E c \in Cycles : Begin(c) \/ CycleStep(c)
    \/ \E j \in Jobs : RequestBalance(j) \/ FollowUpStep(j)
    \/ \E u \in Users :
           \/ \E wanted \in BOOLEAN : TurnOnOrOff(u, wanted)
           \/ Queued(u) \/ Refused(u)

CloudSpec == CloudInit /\ [][CloudNext]_updateVars

(***************************************************************************)
(* Cycles are scheduled for ever and every await in them ends; the cloud   *)
(* answers each kind of request again and again.  Nothing is assumed of    *)
(* follow-ups' answers nor of what users and the world do.                 *)
(***************************************************************************)
CloudFairness ==
    /\ WF_updateVars(Tick)
    /\ \A j \in Jobs : WF_updateVars(FollowUpStep(j))
    /\ \A c \in Cycles :
           /\ WF_updateVars(Begin(c)) /\ WF_updateVars(CycleStep(c))
           /\ SF_updateVars(Devices(c)) /\ SF_updateVars(Statuses(c, TRUE))
           /\ SF_updateVars(GsmConfig(c) /\ known')
           /\ SF_updateVars(IoAnswered(c, TRUE)) /\ SF_updateVars(DiagAnswered(c, TRUE))

CloudFairSpec == CloudSpec /\ CloudFairness

-----------------------------------------------------------------------------
(***************************************************************************)
(* Properties.                                                             *)
(***************************************************************************)
CloudTypeOK ==
    /\ {remote, admin, output, requested, known} \subseteq BOOLEAN
    /\ position \in Positions
    /\ pulses \in 0..MaxPulses
    /\ balance \in Balances \cup {Unknown}
    /\ age \in 0..DiagAge
    /\ tries \in [Jobs -> 0..Attempts]

\* Statuses are published minutes after they were read, beside fresher values; still,
\* once the operator and the output rest and lookups succeed, entities come to show
\* the operator exactly if either list has it, its status, and the output's state.
Shown ==
    /\ data.listed = (remote \/ admin)
    /\ data.position = IF remote \/ admin THEN position ELSE Unknown
    /\ data.gsm /\ data.io = output

WorldIsShown ==
    ~[]<><<Relisted \/ Moves \/ SwitchedByHand \/ PulseArrives
            \/ \E c \in Cycles : Hiccup(c)>>_updateVars => <>[]Shown

\* Answers that have no balance, and a list that loses the device, hide a known one.
BalanceHidden ==
    \/ \E c \in Cycles : DiagAnswered(c, FALSE) \/ Unlisted(c)
    \/ \E j \in Jobs : FollowUpAnswered(j, FALSE)

\* A follow-up ends with the first balance it hears, which may be the one of before the
\* request, puts off the next regular reading, and overtakes or is overtaken by other
\* follow-ups and by cycles; still, once the balance rests and answers have it, it comes
\* to be shown.
BalanceIsShown ==
    ~[]<><<BalanceSyncs \/ BalanceHidden>>_updateVars => <>[](data.balance = balance)

Outcome == output = (pulses % 2 = 0)

\* Turning on and off send the same pulse.  The output ends up opposite to what was
\* asked only if the state that the call saw was overtaken: by a pulse still queued,
\* another call or a hand.
SwitchedAsAsked ==
    [][\A u \in Users :
          Queued(u) /\ call[u].saw = Outcome => Outcome' = call[u].wants]_updateVars

=============================================================================
