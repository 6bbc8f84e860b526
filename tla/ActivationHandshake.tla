------------------------ MODULE ActivationHandshake ------------------------
(***************************************************************************)
(* The challenge-response handshake that makes a Wi-Fi operator act:       *)
(* open_gate_blocking in api/mqtt_remote.py, run by client.send_activation *)
(* in an executor thread.                                                  *)
(*                                                                         *)
(* Two threads share one attempt: the executor thread, which publishes and *)
(* waits, and paho's network thread, whose on_message appends a reply to   *)
(* trig_q and then sets trig_evt.  Replies carry no request id: whatever   *)
(* is popped next is taken for the answer to the latest request.           *)
(*                                                                         *)
(* The operator and the broker are external.  QoS 0 messages of one topic  *)
(* stay in order but are lost or as late as they like, past a wait and     *)
(* into the next handshake.  An operator issues a challenge per cmd 01 and *)
(* acts on every cmd 03 with that challenge and a configuration version    *)
(* that it accepts: some accept several versions, stricter ones only one.  *)
(***************************************************************************)
EXTENDS Naturals, Sequences

CONSTANTS
    Versions,      \* configuration versions, 0 among them
    Acceptances,   \* the sets of versions an operator may accept
    Misread,       \* codes a reply that is no cmd 04 may be decoded to
    MaxCalls       \* bound: handshakes run one after another

Codes == {"ok", "mismatch", "other"}

ASSUME VersionsAssumption == Versions \subseteq Nat /\ 0 \in Versions
\* External: most operators accept version 0, a stricter one what it reports.
ASSUME AcceptancesAssumption == Acceptances \subseteq (SUBSET Versions) \ {{}}
ASSUME MisreadAssumption == Misread \subseteq Codes /\ Misread # {}
ASSUME MaxCallsAssumption == MaxCalls \in Nat

Garbage == 0   \* the last bytes of a reply that is no cmd 02
Challenges == Nat

VARIABLES
    calls,      \* handshakes begun
    at,         \* where the executor thread is
    step,       \* what it published last: "identify", "sync" or "activate"
    tries,      \* cmd 03 published in this handshake
    cv,         \* local `cv`
    challenge,  \* local `challenge`
    result,     \* what the handshake returned or raised
    trig_q,     \* replies the network thread has appended
    trig_evt,
    appended,   \* on_message has appended but not yet set the event
    requests,   \* published on userRemoteTrigger, not yet at the operator
    replies,    \* published by the operator, not yet at the client
    accepts,    \* external: the versions the operator accepts
    issued,     \* external: the challenge the operator issued last
    acted,      \* history: how often it acted on a cmd 03 of each handshake
    late        \* history: a reply wait ran out, or a message was still on
                \* its way when the handshake began

localVars == <<calls, at, step, tries, cv, challenge, result>>
queueVars == <<trig_q, trig_evt, appended>>
vars == <<localVars, queueVars, requests, replies, accepts, issued, acted, late>>

Requests == [cmd : {"cmd01"}] \cup [cmd : {"cmd05"}]
                \cup [cmd : {"cmd03"}, challenge : Challenges, cv : Versions,
                     call : 1..MaxCalls]   \* history: the handshake it is of
Replies  == [cmd : {"cmd02"}, challenge : Challenges] \cup [cmd : {"cmd05"}]
                \cup [cmd : {"cmd04"}, code : Codes, cv : Versions]

TypeOK ==
    /\ calls \in 0..MaxCalls
    /\ at \in {"idle", "connecting", "requesting", "waiting", "cleared"}
    /\ step \in {"identify", "sync", "activate"}
    /\ tries \in 0..2
    /\ cv \in Versions
    /\ challenge \in Challenges
    /\ result \in {"none", "true", "false", "raised"}
    /\ trig_q \in Seq(Replies)
    /\ trig_evt \in BOOLEAN
    /\ appended \in BOOLEAN
    /\ requests \in Seq(Requests)
    /\ replies \in Seq(Replies)
    /\ accepts \in Acceptances
    /\ issued \in Challenges
    /\ acted \in [1..MaxCalls -> Nat]
    /\ late \in BOOLEAN

Init ==
    /\ calls = 0 /\ at = "idle" /\ step = "identify" /\ tries = 0
    /\ cv = 0 /\ challenge = Garbage /\ result = "none"
    /\ trig_q = <<>> /\ trig_evt = FALSE /\ appended = FALSE
    /\ requests = <<>> /\ replies = <<>>
    /\ accepts \in Acceptances
    /\ issued = 0 /\ acted = [i \in 1..MaxCalls |-> 0] /\ late = FALSE

-----------------------------------------------------------------------------
(***************************************************************************)
(* The executor thread.                                                    *)
(***************************************************************************)
\* send_activation: the certificate is there, the blocking call starts with a
\* queue and an event of its own.
Begin ==
    /\ at = "idle" /\ calls < MaxCalls
    /\ calls' = calls + 1
    /\ at' = "connecting"
    /\ step' = "identify" /\ tries' = 0 /\ cv' = 0 /\ challenge' = Garbage
    /\ result' = "none"
    /\ trig_q' = <<>> /\ trig_evt' = FALSE /\ appended' = FALSE
    /\ late' = (requests # <<>> \/ replies # <<>>)
    /\ UNCHANGED <<requests, replies, accepts, issued, acted>>

\* Leaving the `with` block stops the network loop.
Returns(verdict) ==
    /\ at' = "idle"
    /\ result' = verdict
    /\ UNCHANGED <<calls, step, tries, cv, challenge, queueVars, requests, replies,
                   accepts, issued, acted>>

\* The connection fails, a rejected certificate among the reasons.
ConnectFails ==
    /\ at = "connecting"
    /\ Returns("raised")
    /\ UNCHANGED late

\* The subscriptions are never confirmed, or the operator is offline.
NoAnswer ==
    /\ at \in {"connecting", "requesting"}
    /\ Returns("false")
    /\ UNCHANGED late

\* The subscriptions are confirmed: connectionRequest is published, QoS 2.
Subscribed ==
    /\ at = "connecting"
    /\ at' = "requesting"
    /\ UNCHANGED <<calls, step, tries, cv, challenge, result, queueVars, requests, replies,
                   accepts, issued, acted, late>>

Publish(request, s) ==
    /\ requests' = Append(requests, request)
    /\ at' = "waiting"
    /\ step' = s
    /\ UNCHANGED <<calls, result, trig_evt, appended, replies, accepts, issued, acted, late>>

Identify ==
    /\ at = "requesting"
    /\ Publish([cmd |-> "cmd01"], "identify")
    /\ UNCHANGED <<tries, cv, challenge, trig_q>>

\* Fault: the wait has no timeout.
FaultNoTimeout ==
    /\ at = "waiting" /\ trig_evt
    /\ at' = "cleared"
    /\ trig_evt' = FALSE
    /\ UNCHANGED <<calls, step, tries, cv, challenge, result, trig_q, appended, requests,
                   replies, accepts, issued, acted, late>>

\* wait_trig: trig_evt.wait(timeout) and trig_evt.clear() ...
Wakes ==
    /\ at = "waiting"
    /\ at' = "cleared"
    /\ late' = (late \/ ~trig_evt)
    /\ trig_evt' = FALSE
    /\ UNCHANGED <<calls, step, tries, cv, challenge, result, trig_q, appended, requests,
                   replies, accepts, issued, acted>>

\* ... and then trig_q.pop(0), which finds nothing.
Empty == at = "cleared" /\ trig_q = <<>>

GivesUp ==
    /\ Empty /\ step # "sync"
    /\ Returns("false")
    /\ UNCHANGED late

Activation(v, c) == [cmd |-> "cmd03", challenge |-> c, cv |-> v, call |-> calls]

Activate(v, c) == Publish(Activation(v, c), "activate")

\* The answer to the time sync is not looked at, if there is one.
SyncWaited ==
    /\ at = "cleared" /\ step = "sync"
    /\ trig_q' = IF trig_q = <<>> THEN <<>> ELSE Tail(trig_q)
    /\ Activate(0, challenge)
    /\ cv' = 0 /\ tries' = 1
    /\ UNCHANGED challenge

Popped == at = "cleared" /\ trig_q # <<>>

\* Fault: the time sync is published without waiting for its answer.
FaultSyncNotAwaited ==
    /\ Popped /\ step = "identify"
    /\ trig_q' = Tail(trig_q)
    /\ challenge' = IF Head(trig_q).cmd = "cmd02" THEN Head(trig_q).challenge ELSE Garbage
    /\ requests' = requests \o <<[cmd |-> "cmd05"],
                                 Activation(0, challenge')>>
    /\ at' = "waiting"
    /\ step' = "activate"
    /\ tries' = 1
    /\ UNCHANGED <<calls, cv, result, trig_evt, appended, replies, accepts, issued, acted, late>>

\* The last bytes of whatever was popped are the challenge.
Challenged ==
    /\ Popped /\ step = "identify"
    /\ trig_q' = Tail(trig_q)
    /\ challenge' = IF Head(trig_q).cmd = "cmd02" THEN Head(trig_q).challenge ELSE Garbage
    /\ Publish([cmd |-> "cmd05"], "sync")
    /\ UNCHANGED <<tries, cv>>

\* decode_cmd04: (response_code, config_version) of whatever was popped.
Decodings(reply) ==
    IF reply.cmd = "cmd04" THEN {[code |-> reply.code, cv |-> reply.cv]}
    ELSE [code : Misread, cv : Versions]

\* Fault: any mismatch is retried, even one that asks for the version just sent.
FaultAlwaysRetried(d) == d.code # "mismatch"

\* The answer is final unless it asks for another configuration version.
Final(d) == d.code # "mismatch" \/ d.cv = cv

Answered(d) ==
    /\ Popped /\ step = "activate" /\ d \in Decodings(Head(trig_q))
    /\ Final(d)
    /\ at' = "idle"
    /\ result' = IF d.code = "ok" THEN "true" ELSE "false"
    /\ trig_q' = Tail(trig_q)
    /\ UNCHANGED <<calls, step, tries, cv, challenge, trig_evt, appended, requests, replies,
                   accepts, issued, acted, late>>

\* A mismatch: once, the activation is sent again with the version asked for.
Mismatched(d) ==
    /\ Popped /\ step = "activate" /\ d \in Decodings(Head(trig_q))
    /\ ~Final(d)
    /\ trig_q' = Tail(trig_q)
    /\ cv' = d.cv
    /\ \/ tries = 1 /\ Activate(d.cv, challenge) /\ tries' = 2
       \/ /\ tries = 2 /\ at' = "idle" /\ result' = "false"
          /\ UNCHANGED <<calls, step, tries, trig_evt, appended, requests, replies, accepts,
                         issued, acted, late>>
    /\ UNCHANGED challenge

-----------------------------------------------------------------------------
(***************************************************************************)
(* The network thread: on_message, while the session is open.              *)
(***************************************************************************)
Open == at \in {"requesting", "waiting", "cleared"}

Arrives ==
    /\ Open /\ ~appended /\ replies # <<>>
    /\ trig_q' = Append(trig_q, Head(replies))
    /\ replies' = Tail(replies)
    /\ appended' = TRUE
    /\ UNCHANGED <<localVars, trig_evt, requests, accepts, issued, acted, late>>

EventSet ==
    /\ Open /\ appended
    /\ trig_evt' = TRUE
    /\ appended' = FALSE
    /\ UNCHANGED <<localVars, trig_q, requests, replies, accepts, issued, acted, late>>

-----------------------------------------------------------------------------
(***************************************************************************)
(* The broker and the operator (external).                                 *)
(***************************************************************************)
LoseRequest ==
    /\ requests # <<>>
    /\ requests' = Tail(requests)
    /\ UNCHANGED <<localVars, queueVars, replies, accepts, issued, acted, late>>

\* A reply is lost, or nobody is subscribed.
LoseReply ==
    /\ replies # <<>>
    /\ replies' = Tail(replies)
    /\ UNCHANGED <<localVars, queueVars, requests, accepts, issued, acted, late>>

Reply(reply) == replies' = Append(replies, reply)

OperatorChallenges ==
    /\ requests # <<>> /\ Head(requests).cmd = "cmd01"
    /\ requests' = Tail(requests)
    /\ issued' = issued + 1
    /\ Reply([cmd |-> "cmd02", challenge |-> issued'])
    /\ UNCHANGED <<localVars, queueVars, accepts, acted, late>>

OperatorSyncs ==
    /\ requests # <<>> /\ Head(requests).cmd = "cmd05"
    /\ requests' = Tail(requests)
    /\ Reply([cmd |-> "cmd05"])
    /\ UNCHANGED <<localVars, queueVars, accepts, issued, acted, late>>

\* A cmd 03 is refused for its challenge or its version, is refused for a
\* reason of the operator's own, or makes it act.
OperatorActivates ==
    LET request == Head(requests) IN
    /\ requests # <<>> /\ request.cmd = "cmd03"
    /\ requests' = Tail(requests)
    /\ \/ /\ \/ request.challenge = Garbage \/ request.challenge # issued
             \/ request.cv \in accepts
          /\ \E v \in Versions : Reply([cmd |-> "cmd04", code |-> "other", cv |-> v])
          /\ UNCHANGED acted
       \/ /\ request.challenge = issued /\ issued # Garbage
          /\ request.cv \notin accepts
          /\ \E v \in accepts : Reply([cmd |-> "cmd04", code |-> "mismatch", cv |-> v])
          /\ UNCHANGED acted
       \/ /\ request.challenge = issued /\ issued # Garbage
          /\ request.cv \in accepts
          /\ acted' = [acted EXCEPT ![request.call] = @ + 1]
          /\ Reply([cmd |-> "cmd04", code |-> "ok", cv |-> request.cv])
    /\ UNCHANGED <<localVars, queueVars, accepts, issued, late>>

Decided == [code : Codes, cv : Versions]

Thread ==
    \/ ConnectFails \/ NoAnswer \/ Subscribed \/ Identify \/ Wakes \/ GivesUp
    \/ SyncWaited \/ Challenged
    \/ \E d \in Decided : Answered(d) \/ Mismatched(d)

Network == Arrives \/ EventSet

Operator == OperatorChallenges \/ OperatorSyncs \/ OperatorActivates

Next == Begin \/ Thread \/ Network \/ LoseRequest \/ LoseReply \/ Operator

Spec == Init /\ [][Next]_vars

\* Every wait has a timeout, so the executor thread always goes on.
FairSpec == Spec /\ WF_vars(Thread)

-----------------------------------------------------------------------------
(***************************************************************************)
(* Properties.                                                             *)
(***************************************************************************)

\* It accepts one version only.
Strict == \A v, w \in accepts : v = w

\* A second act for one press would stop or reverse the gate.  The retry risks none as
\* long as replies are in time, and none at all with an operator that accepts a single
\* version: it is sent with another version than the activation before it.  An operator
\* that accepts both may act again, once a late reply was taken for a mismatch.
ActsAgainOnlyIfLate ==
    [][\A i \in 1..MaxCalls :
          acted'[i] > acted[i] /\ acted[i] > 0 => late /\ ~Strict]_vars

\* When every reply came within its wait and nothing of an earlier handshake was
\* on its way, the verdict is the truth: True exactly if the operator acted.
TrueExactlyWhenActed ==
    result \in {"true", "false"} /\ ~late => (result = "true" <=> acted[calls] = 1)

\* The handshake always ends, whatever the broker and the operator do.
HandshakeEnds == at # "idle" ~> at = "idle"

=============================================================================
