--------------------- MODULE ActivationHandshake_proofs ---------------------
(***************************************************************************)
(* When an operator may act twice in a handshake and when the verdict is   *)
(* the truth, proved for any number of handshakes one after another, any   *)
(* versions that operators accept and any way of misreading a reply.       *)
(***************************************************************************)
EXTENDS ActivationHandshake, SequenceTheorems, TLAPS

-----------------------------------------------------------------------------
(***************************************************************************)
(* Queues.                                                                 *)
(***************************************************************************)
LEMMA PublishProperties ==
    ASSUME NEW S, NEW q \in Seq(S), NEW e \in S
    PROVE  /\ Append(q, e) \in Seq(S)
           /\ Len(Append(q, e)) = Len(q) + 1 /\ Len(q) \in Nat
           /\ \A i \in 1..Len(q) : Append(q, e)[i] = q[i]
           /\ Append(q, e)[Len(q) + 1] = e
  OBVIOUS

LEMMA TailProperties ==
    ASSUME NEW S, NEW q \in Seq(S), q # <<>>
    PROVE  /\ Head(q) = q[1] /\ Head(q) \in S /\ 1 \in 1..Len(q)
           /\ Tail(q) \in Seq(S)
           /\ Len(Tail(q)) = Len(q) - 1 /\ Len(q) \in Nat
           /\ \A i \in 1..Len(Tail(q)) : Tail(q)[i] = q[i + 1] /\ i + 1 \in 1..Len(q)
  OBVIOUS

-----------------------------------------------------------------------------
(***************************************************************************)
(* Types.                                                                  *)
(***************************************************************************)
LEMMA MessageTypes ==
    /\ [cmd |-> "cmd01"] \in Requests /\ [cmd |-> "cmd05"] \in Requests
    /\ [cmd |-> "cmd05"] \in Replies
    /\ \A n \in Challenges : [cmd |-> "cmd02", challenge |-> n] \in Replies
    /\ \A c \in Codes, v \in Versions : [cmd |-> "cmd04", code |-> c, cv |-> v] \in Replies
    /\ \A n \in Challenges, v \in Versions, i \in 1..MaxCalls :
           [cmd |-> "cmd03", challenge |-> n, cv |-> v, call |-> i] \in Requests
    /\ \A r \in Replies : r.cmd = "cmd02" => r.challenge \in Challenges
    /\ \A r \in Requests :
           r.cmd = "cmd03" => r.cv \in Versions /\ r.call \in 1..MaxCalls
  BY DEF Requests, Replies

\* A handshake that has begun has a number.
Begun == at # "idle" => calls \in 1..MaxCalls

LEMMA TypeOKThread ==
    ASSUME TypeOK, Begun, Begin \/ Thread
    PROVE  TypeOK' /\ Begun'
<1> USE VersionsAssumption, MaxCallsAssumption DEF TypeOK, Begun
<1>1. CASE Begin
  <2>1. trig_q' \in Seq(Replies)
    BY <1>1, EmptySeq DEF Begin
  <2>2. calls' \in 1..MaxCalls
    BY <1>1 DEF Begin
  <2>3. /\ at' = "connecting" /\ step' = "identify" /\ tries' = 0 /\ cv' = 0
        /\ challenge' = 0 /\ result' = "none"
        /\ trig_evt' \in BOOLEAN /\ appended' \in BOOLEAN /\ late' \in BOOLEAN
    BY <1>1 DEF Begin, Garbage
  <2>4. UNCHANGED <<requests, replies, accepts, issued, acted>>
    BY <1>1 DEF Begin
  <2>5. calls' \in 0..MaxCalls /\ 0 \in Challenges
    BY <2>2 DEF Challenges
  <2> QED
    BY <2>1, <2>2, <2>3, <2>4, <2>5
<1>2. CASE ConnectFails \/ NoAnswer \/ GivesUp
  BY <1>2 DEF ConnectFails, NoAnswer, GivesUp, Returns, queueVars, Empty
<1>3. CASE Subscribed \/ Wakes
  BY <1>3 DEF Subscribed, Wakes, queueVars
<1>4. CASE Identify
  <2>1. requests' \in Seq(Requests)
    BY <1>4, MessageTypes, PublishProperties DEF Identify, Publish
  <2> QED
    BY <1>4, <2>1 DEF Identify, Publish
<1>5. CASE SyncWaited
  <2>1. Activation(0, challenge) \in Requests
    BY <1>5, MessageTypes DEF Activation, SyncWaited
  <2>2. requests' \in Seq(Requests)
    BY <1>5, <2>1, PublishProperties DEF SyncWaited, Activate, Publish
  <2>3. trig_q' \in Seq(Replies)
    BY <1>5, TailProperties DEF SyncWaited
  <2> QED
    BY <1>5, <2>2, <2>3 DEF SyncWaited, Activate, Publish
<1>6. CASE Challenged
  <2>1. trig_q' \in Seq(Replies) /\ Head(trig_q) \in Replies
    BY <1>6, TailProperties DEF Challenged, Popped
  <2>2. challenge' \in Challenges
    BY <1>6, <2>1, MessageTypes DEF Challenged, Garbage, Challenges
  <2>3. requests' \in Seq(Requests)
    BY <1>6, MessageTypes, PublishProperties DEF Challenged, Publish
  <2> QED
    BY <1>6, <2>1, <2>2, <2>3 DEF Challenged, Publish, Popped
<1>7. ASSUME NEW d \in Decided, Answered(d) \/ Mismatched(d) PROVE TypeOK' /\ Begun'
  <2>1. trig_q' \in Seq(Replies)
    BY <1>7, TailProperties DEF Answered, Mismatched, Popped
  <2>2. d.cv \in Versions
    BY DEF Decided
  <2>3. CASE Answered(d)
    BY <2>1, <2>3 DEF Answered, Popped
  <2>4. CASE Mismatched(d) /\ tries' = 2 /\ Activate(d.cv, challenge)
    <3>1. Activation(d.cv, challenge) \in Requests
      BY <2>2, <2>4, MessageTypes DEF Activation, Mismatched, Popped
    <3>2. requests' \in Seq(Requests)
      BY <2>4, <3>1, PublishProperties DEF Activate, Publish
    <3> QED
      BY <2>1, <2>2, <2>4, <3>2 DEF Mismatched, Popped, Activate, Publish
  <2>5. CASE Mismatched(d) /\ at' = "idle"
    BY <2>1, <2>2, <2>5 DEF Mismatched, Popped, Activate, Publish
  <2> QED
    BY <1>7, <2>3, <2>4, <2>5 DEF Mismatched
<1> QED
  BY <1>1, <1>2, <1>3, <1>4, <1>5, <1>6, <1>7 DEF Thread

LEMMA TypeOKWorld ==
    ASSUME TypeOK, Begun, Network \/ LoseRequest \/ LoseReply \/ Operator
    PROVE  TypeOK' /\ Begun'
<1> USE DEF TypeOK, Begun, localVars, queueVars
<1>1. CASE Arrives
  <2>1. replies' \in Seq(Replies) /\ Head(replies) \in Replies
    BY <1>1, TailProperties DEF Arrives
  <2>2. trig_q' \in Seq(Replies)
    BY <1>1, <2>1, PublishProperties DEF Arrives
  <2> QED
    BY <1>1, <2>1, <2>2 DEF Arrives
<1>2. CASE EventSet
  BY <1>2 DEF EventSet
<1>3. CASE LoseRequest
  BY <1>3, TailProperties DEF LoseRequest
<1>4. CASE LoseReply
  BY <1>4, TailProperties DEF LoseReply
<1>5. CASE OperatorChallenges
  <2>1. requests' \in Seq(Requests)
    BY <1>5, TailProperties DEF OperatorChallenges
  <2>2. issued' \in Challenges
    BY <1>5 DEF OperatorChallenges, Challenges
  <2>3. replies' \in Seq(Replies)
    BY <1>5, <2>2, MessageTypes, PublishProperties DEF OperatorChallenges, Reply
  <2> QED
    BY <1>5, <2>1, <2>2, <2>3 DEF OperatorChallenges
<1>7. CASE OperatorSyncs
  <2>1. requests' \in Seq(Requests)
    BY <1>7, TailProperties DEF OperatorSyncs
  <2>2. replies' \in Seq(Replies)
    BY <1>7, MessageTypes, PublishProperties DEF OperatorSyncs, Reply
  <2> QED
    BY <1>7, <2>1, <2>2 DEF OperatorSyncs
<1>6. CASE OperatorActivates
  <2>1. requests' \in Seq(Requests) /\ Head(requests) \in Requests
    BY <1>6, TailProperties DEF OperatorActivates
  <2>2. Head(requests).call \in 1..MaxCalls /\ Head(requests).cv \in Versions
    BY <1>6, <2>1, MessageTypes DEF OperatorActivates
  <2>3. accepts \subseteq Versions
    BY AcceptancesAssumption
  <2>4. PICK c \in Codes, v \in Versions : Reply([cmd |-> "cmd04", code |-> c, cv |-> v])
    BY <1>6, <2>2, <2>3 DEF OperatorActivates, Codes
  <2>5. replies' \in Seq(Replies)
    BY <2>4, MessageTypes, PublishProperties DEF Reply
  <2>6. acted' \in [1..MaxCalls -> Nat]
    <3>1. acted' = acted \/ acted' = [acted EXCEPT ![Head(requests).call] = @ + 1]
      BY <1>6 DEF OperatorActivates
    <3> QED
      BY <2>2, <3>1
  <2> QED
    BY <1>6, <2>1, <2>5, <2>6 DEF OperatorActivates
<1> QED
  BY <1>1, <1>2, <1>3, <1>4, <1>5, <1>6, <1>7 DEF Network, Operator

LEMMA TypeOKStep == TypeOK /\ Begun /\ [Next]_vars => TypeOK' /\ Begun'
<1>1. CASE UNCHANGED vars
  BY <1>1 DEF vars, localVars, queueVars, TypeOK, Begun
<1> QED
  BY <1>1, TypeOKThread, TypeOKWorld DEF Next

\* The variables of open_gate_blocking, of the broker and of the operator keep their
\* types.
THEOREM TypeCorrect == Spec => [](TypeOK /\ Begun)
<1>1. Init => TypeOK /\ Begun
  <2> SUFFICES ASSUME Init PROVE TypeOK /\ Begun
    OBVIOUS
  <2>1. trig_q \in Seq(Replies) /\ replies \in Seq(Replies) /\ requests \in Seq(Requests)
    BY EmptySeq DEF Init
  <2>2. calls \in 0..MaxCalls /\ acted \in [1..MaxCalls -> Nat]
    BY MaxCallsAssumption DEF Init
  <2>3. {trig_evt, appended, late} \subseteq BOOLEAN
    BY DEF Init
  <2>4. calls = 0 /\ at = "idle" /\ step = "identify" /\ tries = 0 /\ cv = 0 /\ challenge = 0
        /\ result = "none" /\ issued = 0 /\ accepts \in Acceptances
    BY DEF Init, Garbage
  <2> QED
    BY <2>1, <2>2, <2>3, <2>4, VersionsAssumption DEF TypeOK, Begun, Challenges
<1> QED
  BY <1>1, TypeOKStep, PTL DEF Spec

-----------------------------------------------------------------------------
(***************************************************************************)
(* Versions.  What keeps a strict operator from acting on both activations *)
(* of a handshake is that the retry carries another version.               *)
(***************************************************************************)
\* The i-th message on its way is an activation.
IsActivation(i) == requests[i].cmd = "cmd03"

\* Those on their way are of handshakes that have begun.
OfThePast == \A i \in 1..Len(requests) : IsActivation(i) => requests[i].call <= calls

\* Two of one handshake have different versions.
VersionsDiffer ==
    \A i, j \in 1..Len(requests) :
        /\ IsActivation(i) /\ IsActivation(j) /\ i # j
        /\ requests[i].call = requests[j].call
        => requests[i].cv # requests[j].cv

\* Once a strict operator has acted, what is left of that handshake is not accepted.
RestRefused ==
    Strict => \A i \in 1..Len(requests) :
        IsActivation(i) /\ acted[requests[i].call] > 0 => requests[i].cv \notin accepts

\* Nothing is activated by a handshake that has not begun or has not come to it.
NotYet ==
    /\ \A c \in 1..MaxCalls : c > calls \/ (c = calls /\ tries = 0) => acted[c] = 0
    /\ tries = 0 =>
           \A i \in 1..Len(requests) : IsActivation(i) => requests[i].call # calls

\* Before the retry, the version sent was 0.
FirstIsZero ==
    tries = 1 =>
        /\ cv = 0
        /\ \A i \in 1..Len(requests) :
               IsActivation(i) /\ requests[i].call = calls => requests[i].cv = 0
        /\ \A c \in 1..MaxCalls : c = calls /\ acted[c] > 0 => 0 \in accepts

\* Nothing is tried before the activation's turn.
TriedInTurn == at \in {"connecting", "requesting"} \/ step # "activate" => tries = 0

OnceInv ==
    /\ OfThePast /\ VersionsDiffer /\ RestRefused
    /\ NotYet /\ FirstIsZero /\ TriedInTurn

\* The network, the broker's losses and what is no activation disturb nothing.
LEMMA QueueTaken ==
    ASSUME TypeOK, OnceInv, requests # <<>>, requests' = Tail(requests),
           UNCHANGED <<calls, at, step, tries, cv, accepts, acted>>
    PROVE  OnceInv'
<1>1. \A i \in 1..Len(requests') : requests'[i] = requests[i + 1] /\ i + 1 \in 1..Len(requests)
  BY TailProperties DEF TypeOK
<1>2. \A i, j \in 1..Len(requests') : i # j => i + 1 # j + 1
  OBVIOUS
<1>3. OfThePast'
  BY <1>1 DEF OnceInv, OfThePast, IsActivation
<1>4. VersionsDiffer'
  BY <1>1, <1>2 DEF OnceInv, VersionsDiffer, IsActivation
<1>5. RestRefused'
  BY <1>1 DEF OnceInv, RestRefused, Strict, IsActivation
<1>6. NotYet'
  BY <1>1 DEF OnceInv, NotYet, IsActivation
<1>7. FirstIsZero'
  BY <1>1 DEF OnceInv, FirstIsZero, IsActivation
<1> QED
  BY <1>3, <1>4, <1>5, <1>6, <1>7 DEF OnceInv, TriedInTurn

\* A message that is no activation is published.
LEMMA OtherPublished ==
    ASSUME TypeOK, OnceInv, TriedInTurn', NEW r \in Requests, r.cmd # "cmd03",
           requests' = Append(requests, r),
           UNCHANGED <<calls, tries, cv, accepts, acted>>
    PROVE  OnceInv'
<1>1. /\ \A i \in 1..Len(requests) : requests'[i] = requests[i]
      /\ requests'[Len(requests) + 1] = r
      /\ Len(requests') = Len(requests) + 1 /\ Len(requests) \in Nat
  BY PublishProperties DEF TypeOK
<1>2. \A i \in 1..Len(requests') :
          IsActivation(i)' => i \in 1..Len(requests) /\ IsActivation(i)
  BY <1>1 DEF IsActivation
<1>3. OfThePast'
  BY <1>1, <1>2 DEF OnceInv, OfThePast
<1>4. VersionsDiffer'
  BY <1>1, <1>2 DEF OnceInv, VersionsDiffer
<1>5. RestRefused'
  BY <1>1, <1>2 DEF OnceInv, RestRefused, Strict
<1>6. NotYet'
  BY <1>1, <1>2 DEF OnceInv, NotYet
<1>7. FirstIsZero'
  BY <1>1, <1>2 DEF OnceInv, FirstIsZero
<1> QED
  BY <1>3, <1>4, <1>5, <1>6, <1>7 DEF OnceInv

\* An activation is published: the first one, or the retry.
LEMMA ActivationPublished ==
    ASSUME TypeOK, Begun, OnceInv, at # "idle", NEW v \in Versions,
           requests' = Append(requests, Activation(v, challenge)),
           step' = "activate", at' = "waiting", cv' = v,
           \/ tries = 0 /\ tries' = 1 /\ v = 0
           \/ tries = 1 /\ tries' = 2 /\ v # cv,
           UNCHANGED <<calls, accepts, acted>>
    PROVE  OnceInv'
<1> DEFINE r == Activation(v, challenge)
<1>1. calls \in 1..MaxCalls /\ calls \in Nat
  BY MaxCallsAssumption DEF Begun, TypeOK
<1>2. r \in Requests /\ r.cmd = "cmd03" /\ r.cv = v /\ r.call = calls
  BY <1>1, MessageTypes DEF Activation, TypeOK
<1> HIDE DEF r
<1>3. /\ \A i \in 1..Len(requests) : requests'[i] = requests[i]
      /\ requests'[Len(requests) + 1] = r
      /\ Len(requests') = Len(requests) + 1 /\ Len(requests) \in Nat
  BY <1>2, PublishProperties DEF TypeOK, r
<1>4. \A i \in 1..Len(requests') : i \in 1..Len(requests) \/ i = Len(requests) + 1
  BY <1>3
<1>5. \A i \in 1..Len(requests) :
          IsActivation(i) /\ requests[i].call = calls => requests[i].cv # v
  BY DEF OnceInv, NotYet, FirstIsZero
<1>6. Strict /\ acted[calls] > 0 => v \notin accepts
  <2>1. acted[calls] > 0 => tries = 1
    BY <1>1 DEF OnceInv, NotYet
  <2>2. acted[calls] > 0 => 0 \in accepts /\ v # 0
    BY <1>1, <2>1 DEF OnceInv, FirstIsZero
  <2> QED
    BY <2>2 DEF Strict
<1>7. OfThePast'
  BY <1>1, <1>2, <1>3, <1>4 DEF OnceInv, OfThePast, IsActivation
<1>8. VersionsDiffer'
  BY <1>2, <1>3, <1>4, <1>5 DEF OnceInv, VersionsDiffer, IsActivation
<1>9. RestRefused'
  BY <1>2, <1>3, <1>4, <1>6 DEF OnceInv, RestRefused, Strict, IsActivation
<1>10. NotYet'
  BY <1>1 DEF OnceInv, NotYet
<1>11. FirstIsZero'
  <2>1. tries' = 1 => \A c \in 1..MaxCalls : c = calls => acted[c] = 0
    BY DEF OnceInv, NotYet
  <2>2. tries' = 1 => v = 0 /\ tries = 0
    OBVIOUS
  <2> QED
    BY <1>2, <1>3, <1>4, <2>1, <2>2 DEF OnceInv, NotYet, FirstIsZero, IsActivation
<1> QED
  BY <1>7, <1>8, <1>9, <1>10, <1>11 DEF OnceInv, TriedInTurn

\* The operator acts.
LEMMA OperatorActs ==
    ASSUME TypeOK, OnceInv, requests # <<>>, Head(requests).cmd = "cmd03",
           Head(requests).cv \in accepts,
           requests' = Tail(requests),
           acted' = [acted EXCEPT ![Head(requests).call] = @ + 1],
           UNCHANGED <<calls, at, step, tries, cv, accepts>>
    PROVE  OnceInv'
<1> DEFINE c == Head(requests).call
<1>1. /\ \A i \in 1..Len(requests') :
             requests'[i] = requests[i + 1] /\ i + 1 \in 1..Len(requests) /\ i + 1 # 1
      /\ Head(requests) = requests[1] /\ 1 \in 1..Len(requests)
      /\ Head(requests) \in Requests
  BY TailProperties DEF TypeOK
<1>2. c \in 1..MaxCalls /\ c <= calls /\ acted[c] \in Nat
  <2>1. c \in 1..MaxCalls
    BY <1>1, MessageTypes
  <2>2. c <= calls
    BY <1>1 DEF OnceInv, OfThePast, IsActivation
  <2>3. acted[c] \in Nat
    BY <2>1 DEF TypeOK
  <2> QED
    BY <2>1, <2>2, <2>3
<1>3. acted'[c] > 0 /\ \A d \in 1..MaxCalls : d # c => acted'[d] = acted[d]
  BY <1>2 DEF TypeOK
<1>4. Strict' = Strict
  BY DEF Strict
<1>5. OfThePast'
  BY <1>1 DEF OnceInv, OfThePast, IsActivation
<1>6. VersionsDiffer'
  <2> SUFFICES ASSUME NEW i \in 1..Len(requests'), NEW j \in 1..Len(requests'), i # j,
                      IsActivation(i)', IsActivation(j)', requests'[i].call = requests'[j].call
               PROVE  requests'[i].cv # requests'[j].cv
    BY DEF VersionsDiffer
  <2>1. i + 1 # j + 1
    OBVIOUS
  <2>2. IsActivation(i + 1) /\ IsActivation(j + 1)
    BY <1>1 DEF IsActivation
  <2> QED
    BY <1>1, <2>1, <2>2 DEF OnceInv, VersionsDiffer
<1>7. RestRefused'
  <2> SUFFICES ASSUME Strict, NEW i \in 1..Len(requests'), IsActivation(i)',
                      acted'[requests'[i].call] > 0
               PROVE  requests'[i].cv \notin accepts
    BY <1>4 DEF RestRefused
  <2>1. IsActivation(i + 1) /\ requests[i + 1] \in Requests
    BY <1>1 DEF IsActivation, TypeOK
  <2>2. requests[i + 1].call \in 1..MaxCalls
    BY <2>1, MessageTypes DEF IsActivation
  <2>3. CASE requests[i + 1].call = c
    <3>1. requests[i + 1].cv # Head(requests).cv
      BY <1>1, <2>1, <2>3 DEF OnceInv, VersionsDiffer, IsActivation
    <3> QED
      BY <1>1, <3>1 DEF Strict
  <2>4. CASE requests[i + 1].call # c
    BY <1>1, <1>3, <2>1, <2>2, <2>4 DEF OnceInv, RestRefused
  <2> QED
    BY <2>3, <2>4
<1>8. NotYet'
  <2>1. tries = 0 => c # calls
    BY <1>1 DEF OnceInv, NotYet, IsActivation
  <2>2. \A d \in 1..MaxCalls : d > calls \/ (d = calls /\ tries = 0) => d # c
    BY <1>2, <2>1 DEF TypeOK
  <2> QED
    BY <1>1, <1>3, <2>2 DEF OnceInv, NotYet, IsActivation
<1>9. FirstIsZero'
  <2>1. tries = 1 /\ c = calls => 0 \in accepts
    BY <1>1 DEF OnceInv, FirstIsZero, IsActivation
  <2> QED
    BY <1>1, <1>3, <2>1 DEF OnceInv, FirstIsZero, IsActivation
<1> QED
  BY <1>5, <1>6, <1>7, <1>8, <1>9 DEF OnceInv, TriedInTurn

\* Steps that neither publish nor take a request.
LEMMA Unpublished ==
    ASSUME OnceInv, TriedInTurn', UNCHANGED <<calls, tries, cv, requests, accepts, acted>>
    PROVE  OnceInv'
  BY DEF OnceInv, OfThePast, VersionsDiffer, RestRefused, Strict, NotYet, FirstIsZero, IsActivation

LEMMA OnceStep == TypeOK /\ Begun /\ OnceInv /\ [Next]_vars => OnceInv'
<1> SUFFICES ASSUME TypeOK, Begun, OnceInv, [Next]_vars PROVE OnceInv'
  OBVIOUS
<1>t. TriedInTurn
  BY DEF OnceInv
<1>1. CASE Begin
  <2>1. calls \in Nat /\ calls' = calls + 1 /\ tries' = 0 /\ cv' = 0
        /\ UNCHANGED <<requests, accepts, acted>>
    BY <1>1, MaxCallsAssumption DEF Begin, TypeOK
  <2>2. \A i \in 1..Len(requests) :
            IsActivation(i) => requests[i].call \in 1..MaxCalls /\ requests[i].call <= calls
    BY MessageTypes DEF OnceInv, OfThePast, IsActivation, TypeOK
  <2>3. OfThePast' /\ VersionsDiffer' /\ RestRefused'
    BY <2>1, <2>2 DEF OnceInv, OfThePast, VersionsDiffer, RestRefused, Strict, IsActivation
  <2>4. NotYet'
    BY <2>1, <2>2 DEF OnceInv, NotYet, IsActivation
  <2> QED
    BY <2>1, <2>3, <2>4 DEF OnceInv, FirstIsZero, TriedInTurn
<1>2. CASE ConnectFails \/ NoAnswer \/ GivesUp
  BY <1>2, <1>t, Unpublished DEF ConnectFails, NoAnswer, GivesUp, Returns, TriedInTurn
<1>3. CASE Subscribed \/ Wakes
  BY <1>3, <1>t, Unpublished DEF Subscribed, Wakes, TriedInTurn
<1>4. CASE Identify
  BY <1>4, <1>t, OtherPublished, MessageTypes DEF Identify, Publish, TriedInTurn
<1>5. CASE SyncWaited
  <2>1. tries = 0 /\ at # "idle"
    BY <1>5, <1>t DEF SyncWaited, TriedInTurn
  <2> QED
    BY <1>5, <2>1, ActivationPublished, VersionsAssumption DEF SyncWaited, Activate, Publish
<1>6. CASE Challenged
  BY <1>6, <1>t, OtherPublished, MessageTypes DEF Challenged, Publish, TriedInTurn
<1>7. ASSUME NEW d \in Decided, Answered(d) PROVE OnceInv'
  BY <1>7, <1>t, Unpublished DEF Answered, TriedInTurn
<1>8. ASSUME NEW d \in Decided, Mismatched(d) PROVE OnceInv'
  <2>1. d.cv \in Versions /\ cv' = d.cv /\ d.cv # cv /\ at = "cleared" /\ step = "activate"
    BY <1>8 DEF Mismatched, Final, Decided, Popped
  <2>2. CASE tries = 1 /\ Activate(d.cv, challenge) /\ tries' = 2
    BY <2>1, <2>2, ActivationPublished DEF Activate, Publish
  <2>3. CASE tries = 2 /\ at' = "idle" /\ UNCHANGED <<calls, step, tries, requests, accepts, acted>>
    BY <2>1, <2>3
       DEF OnceInv, OfThePast, VersionsDiffer, RestRefused, Strict, NotYet, FirstIsZero,
           IsActivation, TriedInTurn
  <2> QED
    BY <1>8, <2>2, <2>3 DEF Mismatched
<1>9. CASE Network \/ LoseReply
  BY <1>9, <1>t, Unpublished
     DEF Network, Arrives, EventSet, LoseReply, localVars, queueVars, TriedInTurn
<1>10. CASE LoseRequest \/ OperatorChallenges \/ OperatorSyncs
  BY <1>10, QueueTaken
     DEF LoseRequest, OperatorChallenges, OperatorSyncs, localVars, queueVars
<1>11. CASE OperatorActivates
  <2>1. /\ requests # <<>> /\ Head(requests).cmd = "cmd03" /\ requests' = Tail(requests)
        /\ UNCHANGED <<calls, at, step, tries, cv, accepts>>
        /\ \/ acted' = acted
           \/ /\ Head(requests).cv \in accepts
              /\ acted' = [acted EXCEPT ![Head(requests).call] = @ + 1]
    BY <1>11 DEF OperatorActivates, localVars
  <2> QED
    BY <2>1, QueueTaken, OperatorActs
<1>12. CASE UNCHANGED vars
  BY <1>12, <1>t, Unpublished DEF vars, localVars, queueVars, TriedInTurn
<1> QED
  BY <1>1, <1>2, <1>3, <1>4, <1>5, <1>6, <1>7, <1>8, <1>9, <1>10, <1>11, <1>12
     DEF Next, Thread, Operator

LEMMA InitOnce == Init => OnceInv
<1> SUFFICES ASSUME Init PROVE OnceInv
  OBVIOUS
<1>1. Len(requests) = 0 /\ tries = 0 /\ \A c \in 1..MaxCalls : acted[c] = 0
  BY DEF Init
<1> QED
  BY <1>1 DEF OnceInv, OfThePast, VersionsDiffer, RestRefused, NotYet, FirstIsZero,
              TriedInTurn

-----------------------------------------------------------------------------
(***************************************************************************)
(* The verdict.  A handshake whose waits have all been in time has at most *)
(* one message on its way at a time: the request it has published last or  *)
(* the answer to it.                                                       *)
(***************************************************************************)
Single(q) == q # <<>> /\ Tail(q) = <<>>

Quiet == requests = <<>> /\ replies = <<>>

Unheard == trig_q = <<>> /\ ~trig_evt /\ ~appended

\* A request that will be answered for this handshake and this version.
Current(request) ==
    IF step # "activate" THEN request.cmd # "cmd03" ELSE
        /\ request.cmd = "cmd03" /\ request.call = calls /\ request.cv = cv
        /\ acted[calls] = 0

\* An answer that says what the operator has done in this handshake.
True(reply) ==
    step = "activate" =>
        /\ reply.cmd = "cmd04"
        /\ acted[calls] = IF reply.code = "ok" THEN 1 ELSE 0
        /\ reply.code = "mismatch" => reply.cv # cv

Lost == Quiet /\ Unheard

Asked == Single(requests) /\ replies = <<>> /\ Unheard /\ Current(Head(requests))

Replied == requests = <<>> /\ Single(replies) /\ Unheard /\ True(Head(replies))

Heard == Quiet /\ Single(trig_q) /\ True(Head(trig_q))

InTurn ==
    ~late =>
        /\ at = "idle" =>
               /\ Quiet
               /\ result \in {"true", "false"} => (result = "true" <=> acted[calls] = 1)
        /\ at \in {"connecting", "requesting"} => Lost
        /\ at = "waiting" => Lost \/ Asked \/ Replied \/ (Heard /\ appended = ~trig_evt)
        /\ at = "cleared" => Heard /\ ~appended /\ ~trig_evt

\* The verdict is forgotten when the next handshake begins.
Reported == at # "idle" => result = "none"

LEMMA FirstAppended == ASSUME NEW r PROVE Single(Append(<<>>, r)) /\ Head(Append(<<>>, r)) = r
  BY DEF Single

\* No activation of this handshake is on its way before its turn.
LEMMA NotActedYet ==
    ASSUME TypeOK, Begun, OnceInv, at # "idle",
           at \in {"connecting", "requesting"} \/ step # "activate"
    PROVE  acted[calls] = 0
  BY DEF OnceInv, NotYet, TriedInTurn, Begun

\* A request is published while nothing else is on its way.
LEMMA PublishInTurn ==
    ASSUME NEW r, NEW s, Quiet, Unheard', Publish(r, s), Current(r)'
    PROVE  InTurn'
<1>1. Asked'
  BY FirstAppended DEF Asked, Quiet, Publish
<1> QED
  BY <1>1 DEF InTurn, Publish

LEMMA InTurnThread ==
    ASSUME TypeOK, Begun, OnceInv, InTurn, Begin \/ Thread
    PROVE  InTurn'
<1>0. CASE late' /\ ~Begin
  BY <1>0 DEF InTurn
<1>1. CASE Begin
  BY <1>1 DEF Begin, InTurn, Lost, Quiet, Unheard
<1> SUFFICES ASSUME ~late', ~Begin PROVE InTurn'
  BY <1>0, <1>1
<1>l. ~late
  BY DEF Thread, ConnectFails, NoAnswer, Subscribed, Identify, Wakes, GivesUp, SyncWaited,
         Challenged, Answered, Mismatched, Activate, Publish
<1>2. CASE ConnectFails \/ NoAnswer
  <2>1. at # "idle" /\ acted[calls] = 0 /\ Lost
    BY <1>2, <1>l, NotActedYet DEF ConnectFails, NoAnswer, InTurn
  <2> QED
    BY <1>2, <2>1 DEF ConnectFails, NoAnswer, Returns, queueVars, InTurn, Lost, Quiet
<1>3. CASE Subscribed
  BY <1>3, <1>l DEF Subscribed, queueVars, InTurn, Lost, Quiet, Unheard
<1>4. CASE Identify
  <2>1. Quiet /\ Unheard'
    BY <1>4, <1>l DEF Identify, Publish, InTurn, Lost, Unheard
  <2>2. Current([cmd |-> "cmd01"])'
    BY <1>4 DEF Current, Identify, Publish
  <2> QED
    BY <1>4, <2>1, <2>2, PublishInTurn DEF Identify
<1>5. CASE Wakes
  BY <1>5, <1>l DEF Wakes, InTurn, Lost, Asked, Replied, Heard, Quiet, Unheard, True, TypeOK
<1>6. CASE GivesUp
  BY <1>6, <1>l DEF GivesUp, Empty, InTurn, Heard, Single
<1>7. CASE SyncWaited
  <2>1. Heard /\ ~appended /\ ~trig_evt /\ at # "idle"
    BY <1>7, <1>l DEF SyncWaited, InTurn
  <2>2. Quiet /\ Unheard'
    BY <1>7, <2>1 DEF SyncWaited, Heard, Single, Unheard, Activate, Publish
  <2>3. acted[calls] = 0
    BY <1>7, <2>1, NotActedYet DEF SyncWaited
  <2>4. Current(Activation(0, challenge))'
    BY <1>7, <2>3 DEF Current, SyncWaited, Activate, Activation, Publish
  <2>5. Activation(0, challenge)' = Activation(0, challenge)
    BY <1>7 DEF SyncWaited, Activate, Activation, Publish
  <2> QED
    BY <1>7, <2>2, <2>4, <2>5, PublishInTurn DEF SyncWaited, Activate
<1>8. CASE Challenged
  <2>1. Quiet /\ Unheard'
    BY <1>8, <1>l DEF Challenged, Popped, InTurn, Heard, Single, Unheard, Publish
  <2>2. Current([cmd |-> "cmd05"])'
    BY <1>8 DEF Current, Challenged, Publish
  <2> QED
    BY <1>8, <2>1, <2>2, PublishInTurn DEF Challenged
<1>9. ASSUME NEW d \in Decided, Answered(d) \/ Mismatched(d) PROVE InTurn'
  <2>1. Heard /\ ~appended /\ ~trig_evt /\ step = "activate"
    BY <1>9, <1>l DEF Answered, Mismatched, Popped, InTurn
  <2>2. d = [code |-> Head(trig_q).code, cv |-> Head(trig_q).cv]
    BY <1>9, <2>1 DEF Answered, Mismatched, Decodings, Heard, True
  <2>3. acted[calls] = (IF d.code = "ok" THEN 1 ELSE 0) /\ (d.code = "mismatch" => d.cv # cv)
    BY <2>1, <2>2 DEF Heard, True
  <2>4. CASE Answered(d)
    BY <2>1, <2>3, <2>4 DEF Answered, Final, InTurn, Heard, Quiet
  <2>5. CASE Mismatched(d) /\ Activate(d.cv, challenge)
    <3>1. Quiet /\ Unheard'
      BY <2>1, <2>5 DEF Mismatched, Heard, Single, Unheard, Activate, Publish
    <3>2. Current(Activation(d.cv, challenge))'
      BY <2>3, <2>5 DEF Mismatched, Final, Current, Activate, Activation, Publish
    <3>3. Activation(d.cv, challenge)' = Activation(d.cv, challenge)
      BY <2>5 DEF Mismatched, Activate, Activation, Publish
    <3> QED
      BY <2>5, <3>1, <3>2, <3>3, PublishInTurn DEF Activate
  <2>6. CASE Mismatched(d) /\ at' = "idle"
    BY <2>1, <2>3, <2>6 DEF Mismatched, Final, InTurn, Heard, Quiet, Activate, Publish
  <2> QED
    BY <1>9, <2>4, <2>5, <2>6 DEF Mismatched
<1> QED
  BY <1>2, <1>3, <1>4, <1>5, <1>6, <1>7, <1>8, <1>9 DEF Thread

\* What is on its way is what the executor thread is waiting for.
LEMMA OnItsWay ==
    ASSUME TypeOK, InTurn, ~late
    PROVE  /\ requests # <<>> => at = "waiting" /\ Asked
           /\ replies # <<>> => at = "waiting" /\ Replied
           /\ appended => at = "idle" \/ (at = "waiting" /\ Heard /\ ~trig_evt)
  BY DEF TypeOK, InTurn, Lost, Asked, Replied, Heard, Quiet, Unheard, Single

\* The operator takes the request and answers it.
LEMMA AnsweredInTurn ==
    ASSUME TypeOK, InTurn, ~late, NEW r, requests # <<>>, requests' = Tail(requests), Reply(r),
           UNCHANGED <<localVars, queueVars, late>>, True(r)'
    PROVE  InTurn'
<1>1. at = "waiting" /\ Asked
  BY OnItsWay
<1>2. requests' = <<>> /\ Single(replies') /\ Head(replies') = r
  BY <1>1, FirstAppended DEF Asked, Single, Reply
<1>3. True(Head(replies))'
  BY <1>2
<1>4. Unheard'
  BY <1>1 DEF Asked, Unheard, queueVars
<1>5. Replied'
  BY <1>2, <1>3, <1>4 DEF Replied, Single
<1> QED
  BY <1>1, <1>5 DEF InTurn, localVars

LEMMA InTurnWorld ==
    ASSUME TypeOK, Begun, OnceInv, InTurn, Network \/ LoseRequest \/ LoseReply \/ Operator
    PROVE  InTurn'
<1>0. CASE late
  BY <1>0 DEF InTurn, Network, Arrives, EventSet, LoseRequest, LoseReply, Operator,
              OperatorChallenges, OperatorSyncs, OperatorActivates
<1> SUFFICES ASSUME ~late PROVE InTurn'
  BY <1>0
<1>1. CASE Arrives
  <2>1. at = "waiting" /\ Replied
    BY <1>1, OnItsWay DEF Arrives
  <2>2. Single(trig_q') /\ Head(trig_q') = Head(replies) /\ Quiet'
    BY <1>1, <2>1, FirstAppended DEF Arrives, Replied, Unheard, Single, Quiet
  <2>3. True(Head(trig_q))'
    BY <1>1, <2>1, <2>2 DEF Arrives, Replied, True, localVars
  <2> QED
    BY <1>1, <2>1, <2>2, <2>3 DEF Arrives, Replied, Unheard, Heard, InTurn, localVars, Single
<1>2. CASE EventSet
  <2>1. at = "waiting" /\ Heard
    BY <1>2, OnItsWay DEF EventSet, Open
  <2> QED
    BY <1>2, <2>1 DEF EventSet, Heard, Quiet, True, InTurn, localVars, Single
<1>3. CASE LoseRequest
  <2>1. at = "waiting" /\ Asked
    BY <1>3, OnItsWay DEF LoseRequest
  <2> QED
    BY <1>3, <2>1 DEF LoseRequest, Asked, Single, Lost, Quiet, Unheard, InTurn, localVars, queueVars
<1>4. CASE LoseReply
  <2>1. at = "waiting" /\ Replied
    BY <1>4, OnItsWay DEF LoseReply
  <2> QED
    BY <1>4, <2>1 DEF LoseReply, Replied, Single, Lost, Quiet, Unheard, InTurn, localVars, queueVars
<1>5. CASE OperatorChallenges \/ OperatorSyncs
  <2>1. requests # <<>> /\ requests' = Tail(requests) /\ Head(requests).cmd # "cmd03"
        /\ UNCHANGED <<localVars, queueVars, late>>
    BY <1>5 DEF OperatorChallenges, OperatorSyncs
  <2>2. step # "activate"
    BY <2>1, OnItsWay DEF Asked, Current
  <2>3. \A r : True(r)'
    BY <2>1, <2>2 DEF True, localVars
  <2> QED
    BY <1>5, <2>1, <2>3, AnsweredInTurn DEF OperatorChallenges, OperatorSyncs
<1>6. CASE OperatorActivates
  <2> DEFINE request == Head(requests)
  <2>1. at = "waiting" /\ Asked /\ requests # <<>> /\ requests' = Tail(requests)
        /\ UNCHANGED <<localVars, queueVars, accepts, late>> /\ calls \in 1..MaxCalls
    BY <1>6, OnItsWay DEF OperatorActivates, Begun
  <2>2. step = "activate" => request.call = calls /\ request.cv = cv /\ acted[calls] = 0
    BY <2>1 DEF Asked, Current
  <2>3. CASE /\ acted' = acted
             /\ \E v \in Versions : Reply([cmd |-> "cmd04", code |-> "other", cv |-> v])
    <3>1. PICK v \in Versions : Reply([cmd |-> "cmd04", code |-> "other", cv |-> v])
      BY <2>3
    <3>2. True([cmd |-> "cmd04", code |-> "other", cv |-> v])'
      BY <2>1, <2>2, <2>3 DEF True, localVars
    <3> QED
      BY <2>1, <3>1, <3>2, AnsweredInTurn
  <2>4. CASE /\ acted' = acted /\ request.cv \notin accepts
             /\ \E v \in accepts : Reply([cmd |-> "cmd04", code |-> "mismatch", cv |-> v])
    <3>1. PICK v \in accepts : Reply([cmd |-> "cmd04", code |-> "mismatch", cv |-> v])
      BY <2>4
    <3>2. True([cmd |-> "cmd04", code |-> "mismatch", cv |-> v])'
      BY <2>1, <2>2, <2>4 DEF True, localVars
    <3> QED
      BY <2>1, <3>1, <3>2, AnsweredInTurn
  <2>5. CASE /\ acted' = [acted EXCEPT ![request.call] = @ + 1]
             /\ Reply([cmd |-> "cmd04", code |-> "ok", cv |-> request.cv])
    <3>1. PICK v : v = request.cv
      OBVIOUS
    <3>2. True([cmd |-> "cmd04", code |-> "ok", cv |-> v])'
      BY <2>1, <2>2, <2>5 DEF True, localVars, TypeOK
    <3> QED
      BY <2>1, <2>5, <3>1, <3>2, AnsweredInTurn
  <2>6. \/ /\ \E v \in Versions : Reply([cmd |-> "cmd04", code |-> "other", cv |-> v])
           /\ acted' = acted
        \/ /\ request.cv \notin accepts
           /\ \E v \in accepts : Reply([cmd |-> "cmd04", code |-> "mismatch", cv |-> v])
           /\ acted' = acted
        \/ /\ acted' = [acted EXCEPT ![request.call] = @ + 1]
           /\ Reply([cmd |-> "cmd04", code |-> "ok", cv |-> request.cv])
    BY <1>6, Zenon DEF OperatorActivates
  <2> QED
    BY <2>3, <2>4, <2>5, <2>6
<1> QED
  BY <1>1, <1>2, <1>3, <1>4, <1>5, <1>6 DEF Network, Operator

LEMMA InTurnStep ==
    TypeOK /\ Begun /\ OnceInv /\ InTurn /\ Reported /\ [Next]_vars => InTurn' /\ Reported'
<1> SUFFICES ASSUME TypeOK, Begun, OnceInv, InTurn, Reported, [Next]_vars PROVE InTurn' /\ Reported'
  OBVIOUS
<1>1. CASE UNCHANGED vars
  <2>1. UNCHANGED <<calls, at, step, cv, result, trig_q, trig_evt, appended, requests, replies,
                    acted, late>>
    BY <1>1 DEF vars, localVars, queueVars
  <2>2. (Lost <=> Lost') /\ (Asked <=> Asked') /\ (Replied <=> Replied') /\ (Heard <=> Heard')
    BY <2>1 DEF Lost, Asked, Replied, Heard, Quiet, Unheard, Single, Current, True
  <2> QED
    BY <2>1, <2>2 DEF InTurn, Reported, Quiet
<1>2. InTurn'
  BY <1>1, InTurnThread, InTurnWorld DEF Next
<1>3. ASSUME Begin \/ Thread PROVE Reported'
  <2>1. CASE Begin \/ ConnectFails \/ NoAnswer \/ GivesUp
    BY <2>1 DEF Begin, ConnectFails, NoAnswer, GivesUp, Returns, Reported
  <2>2. CASE Subscribed \/ Identify \/ Wakes \/ SyncWaited \/ Challenged
    BY <2>2 DEF Subscribed, Identify, Wakes, SyncWaited, Challenged, Activate, Publish, Popped,
                Reported
  <2>3. ASSUME NEW d \in Decided, Answered(d) \/ Mismatched(d) PROVE Reported'
    BY <2>3 DEF Answered, Mismatched, Activate, Publish, Popped, Reported
  <2> QED
    BY <1>3, <2>1, <2>2, <2>3 DEF Thread
<1>4. ASSUME Network \/ LoseRequest \/ LoseReply \/ Operator PROVE Reported'
  <2>1. UNCHANGED localVars
    BY <1>4 DEF Network, Arrives, EventSet, LoseRequest, LoseReply, Operator, OperatorChallenges,
                OperatorSyncs, OperatorActivates
  <2> QED
    BY <2>1 DEF localVars, Reported
<1> QED
  BY <1>1, <1>2, <1>3, <1>4 DEF Next

\* When every reply came within its wait and nothing of an earlier handshake was on
\* its way, True is returned exactly if the operator acted: replies carry no id, and
\* yet the one popped is then the answer to the request published last.
THEOREM VerdictIsTrue == Spec => []TrueExactlyWhenActed
<1>1. Init => OnceInv
  BY InitOnce
<1>2. Init => InTurn /\ Reported
  BY DEF Init, InTurn, Reported, Quiet
<1>3. InTurn /\ Reported /\ TypeOK => TrueExactlyWhenActed
  BY DEF InTurn, Reported, TrueExactlyWhenActed
<1> QED
  BY <1>1, <1>2, <1>3, TypeCorrect, OnceStep, InTurnStep, PTL DEF Spec

\* Only OperatorActivates counts an act.
LEMMA ActedByOperator ==
    ASSUME [Next]_vars, acted' # acted
    PROVE  /\ requests # <<>> /\ Head(requests).cmd = "cmd03" /\ Head(requests).cv \in accepts
           /\ acted' = [acted EXCEPT ![Head(requests).call] = @ + 1]
<1>1. OperatorActivates
  <2>1. ASSUME NEW d \in Decided, Answered(d) \/ Mismatched(d) PROVE acted' = acted
    BY <2>1 DEF Answered, Mismatched, Activate, Publish
  <2>2. Begin \/ Thread => acted' = acted
    BY <2>1 DEF Thread, Begin, ConnectFails, NoAnswer, Subscribed, Identify, Wakes, GivesUp,
           SyncWaited, Challenged, Activate, Publish, Returns
  <2>3. Network \/ LoseRequest \/ LoseReply \/ OperatorChallenges \/ OperatorSyncs
            => acted' = acted
    BY DEF Network, Arrives, EventSet, LoseRequest, LoseReply, OperatorChallenges, OperatorSyncs
  <2> QED
    BY <2>2, <2>3 DEF Next, Operator, vars
<1> QED
  BY <1>1, Zenon DEF OperatorActivates

\* A press makes an operator act a second time only if it accepts several versions
\* and a reply of the handshake was late (wait_trig and the retry of cmd 03).
THEOREM SecondActNeedsDelay == Spec => ActsAgainOnlyIfLate
<1>1. ASSUME TypeOK, Begun, OnceInv, InTurn, [Next]_vars, NEW i \in 1..MaxCalls,
             acted'[i] > acted[i], acted[i] > 0
      PROVE  late /\ ~Strict
  <2>1. /\ requests # <<>> /\ Head(requests).cmd = "cmd03" /\ Head(requests).cv \in accepts
        /\ acted' = [acted EXCEPT ![Head(requests).call] = @ + 1]
    <3>1. acted' # acted
      <4>1. acted[i] \in Nat
        BY <1>1 DEF TypeOK
      <4>2. acted' = acted => acted'[i] = acted[i]
        OBVIOUS
      <4> QED
        BY <1>1, <4>1, <4>2
    <3> QED
      BY <1>1, <3>1, ActedByOperator
  <2>2. Head(requests) = requests[1] /\ 1 \in 1..Len(requests) /\ Head(requests).call = i
    BY <1>1, <2>1, TailProperties DEF TypeOK
  <2>3. ~Strict
    BY <1>1, <2>1, <2>2 DEF OnceInv, RestRefused, IsActivation
  <2>4. ASSUME ~late PROVE FALSE
    <3>1. Asked
      BY <1>1, <2>1, <2>4, OnItsWay
    <3>2. i = calls /\ acted[calls] = 0
      BY <2>1, <2>2, <3>1 DEF Asked, Current
    <3> QED
      BY <1>1, <3>2
  <2> QED
    BY <2>3, <2>4
<1>2. TypeOK /\ Begun /\ OnceInv /\ InTurn /\ [Next]_vars
          => [\A i \in 1..MaxCalls :
                 acted'[i] > acted[i] /\ acted[i] > 0 => late /\ ~Strict]_vars
  BY <1>1
<1>3. Init => InTurn /\ Reported
  BY DEF Init, InTurn, Reported, Quiet
<1> QED
  BY <1>2, <1>3, InitOnce, TypeCorrect, OnceStep, InTurnStep, PTL
     DEF Spec, ActsAgainOnlyIfLate

=============================================================================
