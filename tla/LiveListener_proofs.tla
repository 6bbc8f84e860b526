------------------------ MODULE LiveListener_proofs ------------------------
(***************************************************************************)
(* Proofs about LiveListener, for every set of operators and every choice  *)
(* of the reconnect delays: the inductive invariant IInv, the two safety   *)
(* invariants it carries, and the refinement of LiveChannel.               *)
(***************************************************************************)
EXTENDS LiveListener, SequenceTheorems, TLAPS

-----------------------------------------------------------------------------
(***************************************************************************)
(* The event loop's queue.                                                 *)
(***************************************************************************)

\* Posting a callback keeps every waiting one in its place and adds the new
\* one at the end (call_soon_threadsafe).
LEMMA PostProperties ==
    ASSUME NEW q \in Seq(Callbacks), NEW c \in Callbacks
    PROVE  /\ Append(q, c) \in Seq(Callbacks)
           /\ Len(Append(q, c)) = Len(q) + 1
           /\ \A i \in 1..Len(q) : Append(q, c)[i] = q[i]
           /\ Append(q, c)[Len(q) + 1] = c
  OBVIOUS

\* Running the oldest callback shifts every other one by a place.
LEMMA TakeProperties ==
    ASSUME NEW q \in Seq(Callbacks), q # <<>>
    PROVE  /\ Head(q) = q[1]
           /\ 1 \in 1..Len(q)
           /\ Tail(q) \in Seq(Callbacks)
           /\ Len(Tail(q)) = Len(q) - 1
           /\ \A i \in 1..Len(Tail(q)) : Tail(q)[i] = q[i + 1] /\ i + 1 \in 1..Len(q)
  OBVIOUS

-----------------------------------------------------------------------------
(***************************************************************************)
(* The inductive invariant.                                                *)
(***************************************************************************)

\* The delay after a reset, a doubling or no change stays within its bounds.
LEMMA DelayInRange ==
    ASSUME NEW b \in BackoffMin..BackoffMax
    PROVE  /\ Capped(2 * b) \in BackoffMin..BackoffMax
           /\ BackoffMin \in BackoffMin..BackoffMax
           /\ b \in 0..BackoffMax
  BY BackoffAssumption DEF Capped

LEMMA IInvInit == Init => IInv
<1>1. BackoffMin \in BackoffMin..BackoffMax /\ 0 \in 0..BackoffMax /\ 0 \in 0..Healthy
  BY BackoffAssumption, HealthyAssumption
<1>2. Init => TypeOK
  <2>1. <<>> \in Seq(Callbacks)
    BY EmptySeq
  <2> QED BY <1>1, <2>1 DEF Init, TypeOK, Suspensions, Places
<1>3. Init => \A i \in 1..Len(ready) : FALSE
  <2>1. Len(<<>>) = 0
    BY EmptySeq
  <2>2. \A i \in 1..0 : FALSE
    OBVIOUS
  <2> QED BY <2>1, <2>2 DEF Init
<1> QED
  BY <1>2, <1>3
  DEF Init, IInv, ThreadOwned, QuietOutside, DoneIsLast, CancelFromStop,
      ConnectedAfterSubscribe, AttemptHasTargets, ActiveIsSubscribed, Posted

\* Steps of the supervisor that reach the top of its loop.
LEMMA TopOfLoopKeepsIInv ==
    ASSUME IInv, TopOfLoop, ~stop, sup \in {"spawned", "nowifi", "backoff"},
           UNCHANGED <<linked, stop, connected, worker, ready>>,
           backoff' \in BackoffMin..BackoffMax
    PROVE  IInv'
<1> USE DEF IInv, TypeOK, TopOfLoop, Suspensions
<1>1. TypeOK'
  <2>1. BackoffMin \in 0..BackoffMax /\ 0 \in 0..Healthy
    BY BackoffAssumption, HealthyAssumption
  <2> QED BY <2>1
<1>2. sup' \in {"nowifi", "session"}
  OBVIOUS
<1>3. ThreadOwned' /\ QuietOutside' /\ DoneIsLast' /\ CancelFromStop'
  BY <1>2 DEF ThreadOwned, QuietOutside, DoneIsLast, CancelFromStop, Posted
<1>4. ~Posted("connected")'
  BY DEF QuietOutside, Posted
<1>5. ConnectedAfterSubscribe' /\ AttemptHasTargets'
  BY <1>4 DEF ConnectedAfterSubscribe, AttemptHasTargets
<1>6. ActiveIsSubscribed'
  BY DEF ActiveIsSubscribed
<1> QED BY <1>1, <1>3, <1>5, <1>6

\* The end of an attempt, with the callbacks that are left.
LEMMA AttemptOverKeepsIInv ==
    ASSUME IInv, AttemptOver, ~stop, worker = "none",
           UNCHANGED <<linked, stop, targets, elapsed, threadVars>>,
           ready' \in Seq(Callbacks),
           \A i \in 1..Len(ready') : ready'[i] = "cancel",
           ~Posted("cancel")'
    PROVE  IInv'
<1> USE DEF IInv, AttemptOver, threadVars
<1>1. TypeOK'
  <2>1. backoff' \in BackoffMin..BackoffMax /\ nap' \in 0..BackoffMax
    BY DelayInRange DEF TypeOK
  <2> QED BY <2>1 DEF TypeOK, Suspensions
<1>2. ThreadOwned' /\ QuietOutside' /\ DoneIsLast'
  BY DEF ThreadOwned, QuietOutside, DoneIsLast
<1>3. CancelFromStop' /\ ConnectedAfterSubscribe'
  BY DEF CancelFromStop, ConnectedAfterSubscribe, Posted
<1>4. AttemptHasTargets' /\ ActiveIsSubscribed'
  BY DEF AttemptHasTargets, ActiveIsSubscribed
<1> QED BY <1>1, <1>2, <1>3, <1>4

LEMMA IInvStep == IInv /\ [Next]_vars => IInv'
<1> SUFFICES ASSUME IInv, [Next]_vars PROVE IInv'
  OBVIOUS
<1> USE DEF IInv, loopVars, threadVars
<1>t. TypeOK
  OBVIOUS
<1>1. CASE Relink
  BY <1>1 DEF Relink, TypeOK, ThreadOwned, QuietOutside, DoneIsLast,
     CancelFromStop, ConnectedAfterSubscribe, AttemptHasTargets,
     ActiveIsSubscribed, Posted
<1>2. CASE Start
  BY <1>2 DEF Start, TypeOK, Suspensions, ThreadOwned, QuietOutside, DoneIsLast,
     CancelFromStop, ConnectedAfterSubscribe, AttemptHasTargets,
     ActiveIsSubscribed, Posted
<1>3. CASE Stop
  <2> USE <1>3 DEF Stop, TypeOK
  <2>1. "cancel" \in Callbacks
    BY DEF Callbacks
  <2>2. /\ ready' \in Seq(Callbacks)
        /\ \A i \in 1..Len(ready') :
               \/ i \in 1..Len(ready) /\ ready'[i] = ready[i]
               \/ i = Len(ready) + 1 /\ ready'[i] = "cancel"
        /\ Len(ready') = Len(ready) \/ ~Posted("done")
    BY <2>1, PostProperties DEF Posted
  <2>3. TypeOK'
    BY <2>2
  <2>4. ThreadOwned' /\ AttemptHasTargets' /\ ActiveIsSubscribed'
    BY DEF ThreadOwned, AttemptHasTargets, ActiveIsSubscribed
  <2>5. QuietOutside' /\ ConnectedAfterSubscribe'
    BY <2>2 DEF QuietOutside, ConnectedAfterSubscribe, Posted
  <2>6. DoneIsLast'
    BY <2>2 DEF DoneIsLast, Posted
  <2>7. CancelFromStop'
    BY DEF CancelFromStop
  <2> QED BY <2>3, <2>4, <2>5, <2>6, <2>7
<1>4. CASE Supervise
  <2>1. CASE Begin
    <3>1. backoff' \in BackoffMin..BackoffMax
      BY <2>1 DEF Begin, TypeOK
    <3> QED BY <2>1, <3>1, TopOfLoopKeepsIInv DEF Begin
  <2>2. CASE LookAgain
    <3>1. backoff' \in BackoffMin..BackoffMax
      BY <2>2 DEF LookAgain, TypeOK
    <3> QED BY <2>2, <3>1, TopOfLoopKeepsIInv DEF LookAgain
  <2>3. CASE Retry
    <3>1. backoff' \in BackoffMin..BackoffMax
      BY <2>3, <1>t, DelayInRange DEF Retry, TypeOK
    <3> QED BY <2>3, <3>1, TopOfLoopKeepsIInv DEF Retry
  <2>4. CASE SessionReady
    <3> USE <2>4 DEF SessionReady
    <3>1. TypeOK'
      BY DEF TypeOK, Suspensions, Places
    <3>2. \A i \in 1..Len(ready) : ready[i] = "cancel"
      BY DEF QuietOutside
    <3>3. ThreadOwned' /\ QuietOutside' /\ DoneIsLast'
      BY <3>2 DEF ThreadOwned, QuietOutside, DoneIsLast
    <3>4. CancelFromStop' /\ ConnectedAfterSubscribe'
      BY DEF CancelFromStop, ConnectedAfterSubscribe, Posted
    <3>5. AttemptHasTargets' /\ ActiveIsSubscribed'
      BY DEF AttemptHasTargets, ActiveIsSubscribed
    <3> QED BY <3>1, <3>3, <3>4, <3>5
  <2>5. CASE SessionFails
    <3> USE <2>5 DEF SessionFails
    <3>1. worker = "none"
      BY DEF ThreadOwned
    <3>2. \A i \in 1..Len(ready) : ready[i] = "cancel"
      BY DEF QuietOutside
    <3>3. ~Posted("cancel")
      BY DEF CancelFromStop
    <3> QED BY <3>1, <3>2, <3>3, AttemptOverKeepsIInv DEF TypeOK, Posted
  <2> QED BY <1>4, <2>1, <2>2, <2>3, <2>4, <2>5 DEF Supervise
<1>5. CASE Deliver
  <2>0. ready # <<>> /\ ready' = Tail(ready)
    BY <1>5 DEF Deliver, DeliverConnected, DeliverFrame, DeliverDone,
       DeliverCancel, Oldest
  <2>q. /\ Head(ready) = ready[1]
        /\ 1 \in 1..Len(ready)
        /\ ready' \in Seq(Callbacks)
        /\ Len(ready') = Len(ready) - 1
        /\ \A i \in 1..Len(ready') : ready'[i] = ready[i + 1] /\ i + 1 \in 1..Len(ready)
    BY <2>0, TakeProperties DEF TypeOK
  <2>p. \A c \in Callbacks : Posted(c)' => Posted(c)
    BY <2>q DEF Posted
  <2>d. worker' = worker \/ worker' = "none" => DoneIsLast'
    BY <2>q DEF DoneIsLast
  <2>s. Len(ready) \in Nat
    BY DEF TypeOK
  <2>1. CASE DeliverConnected
    <3> USE <2>1 DEF DeliverConnected, Oldest
    <3>1. TypeOK'
      BY <2>q DEF TypeOK
    <3>2. Posted("connected")
      BY <2>q DEF Posted
    <3>3. sup \in {"thread", "ended"}
      BY <2>q DEF QuietOutside
    <3>4. ThreadOwned' /\ QuietOutside' /\ DoneIsLast'
      BY <3>3, <2>d DEF ThreadOwned, QuietOutside
    <3>5. CancelFromStop' /\ ConnectedAfterSubscribe'
      BY <2>p DEF CancelFromStop, ConnectedAfterSubscribe, Callbacks
    <3>6. AttemptHasTargets' /\ ActiveIsSubscribed'
      BY <3>2, <3>3 DEF AttemptHasTargets, ActiveIsSubscribed, CancelFromStop,
         ConnectedAfterSubscribe
    <3> QED BY <3>1, <3>4, <3>5, <3>6
  <2>2. CASE DeliverFrame
    <3> USE <2>2 DEF DeliverFrame
    <3>1. TypeOK'
      BY <2>q DEF TypeOK
    <3>2. ThreadOwned' /\ QuietOutside' /\ DoneIsLast'
      BY <2>d, <2>q DEF ThreadOwned, QuietOutside
    <3>3. CancelFromStop' /\ ConnectedAfterSubscribe'
      BY <2>p DEF CancelFromStop, ConnectedAfterSubscribe, Callbacks
    <3>4. AttemptHasTargets' /\ ActiveIsSubscribed'
      BY DEF AttemptHasTargets, ActiveIsSubscribed
    <3> QED BY <3>1, <3>2, <3>3, <3>4
  <2>3. CASE DeliverDone
    <3> USE <2>3 DEF DeliverDone, Oldest
    <3>1. Len(ready) = 1 /\ worker = "none"
      BY <2>q DEF DoneIsLast
    <3>2. Len(ready') = 0
      BY <2>q, <3>1
    <3>3. \A i \in 1..Len(ready') : FALSE
      <4>1. \A i \in 1..0 : FALSE
        OBVIOUS
      <4> QED BY <3>2, <4>1
    <3>4. CASE sup = "thread" /\ ~stop /\ AttemptOver
      BY <3>1, <3>3, <3>4, <2>q, AttemptOverKeepsIInv DEF Posted
    <3>5. CASE sup = "thread" /\ stop /\ sup' = "ended" /\ connected' = FALSE
               /\ UNCHANGED <<backoff, nap>>
      BY <3>1, <3>3, <3>5, <2>q DEF TypeOK, Suspensions, ThreadOwned,
         QuietOutside, DoneIsLast, CancelFromStop, ConnectedAfterSubscribe,
         AttemptHasTargets, ActiveIsSubscribed, Posted
    <3>6. CASE sup # "thread" /\ UNCHANGED <<sup, connected, backoff, nap>>
      BY <3>1, <3>3, <3>6, <2>q DEF TypeOK, Suspensions, ThreadOwned,
         QuietOutside, DoneIsLast, CancelFromStop, ConnectedAfterSubscribe,
         AttemptHasTargets, ActiveIsSubscribed, Posted
    <3> QED BY <3>4, <3>5, <3>6
  <2>4. CASE DeliverCancel
    <3> USE <2>4 DEF DeliverCancel, Oldest
    <3>1. stop
      BY <2>q DEF CancelFromStop, Posted
    <3>2. TypeOK'
      BY <2>q DEF TypeOK, Suspensions, Places
    <3>3. ThreadOwned' /\ QuietOutside'
      BY DEF ThreadOwned, QuietOutside
    <3>4. DoneIsLast'
      BY <2>d
    <3>5. CancelFromStop' /\ ConnectedAfterSubscribe'
      BY <2>p, <3>1 DEF CancelFromStop, ConnectedAfterSubscribe, Callbacks
    <3>6. AttemptHasTargets' /\ ActiveIsSubscribed'
      BY <3>1 DEF AttemptHasTargets, ActiveIsSubscribed
    <3> QED BY <3>2, <3>3, <3>4, <3>5, <3>6
  <2> QED BY <1>5, <2>1, <2>2, <2>3, <2>4 DEF Deliver
<1>6. CASE WorkerStep
  <2>0. /\ worker # "none"
        /\ worker' \in Places
        /\ UNCHANGED <<loopVars, stopSet, subscribed, dropped>>
    BY <1>6 DEF WorkerStep, WorkerStart, WorkerConnect, WorkerConnectFails,
       WorkerAnnounce, WorkerNotSubscribed, WorkerLeave, WorkerClose, Move, Places
  <2>1. /\ sup \in {"thread", "ended"}
        /\ \A i \in 1..Len(ready) : ready[i] # "done"
    BY <2>0 DEF ThreadOwned, DoneIsLast
  <2>2. CASE UNCHANGED ready
    BY <2>0, <2>1, <2>2 DEF TypeOK, ThreadOwned, QuietOutside, DoneIsLast,
       CancelFromStop, ConnectedAfterSubscribe, AttemptHasTargets,
       ActiveIsSubscribed, Posted
  <2>3. ASSUME NEW c \in {"connected", "done"}, Post(c),
               c = "done" => worker' = "none",
               c = "connected" => subscribed
        PROVE  IInv'
    <3>1. /\ ready' \in Seq(Callbacks)
          /\ Len(ready') = Len(ready) + 1
          /\ Len(ready) \in Nat
          /\ \A i \in 1..Len(ready) : ready'[i] = ready[i]
          /\ ready'[Len(ready) + 1] = c
      BY <2>3, PostProperties DEF TypeOK, Post, Callbacks
    <3>2. \A i \in 1..Len(ready') :
              \/ i \in 1..Len(ready) /\ ready'[i] = ready[i]
              \/ i = Len(ready') /\ ready'[i] = c
      BY <3>1
    <3>3. TypeOK'
      BY <2>0, <3>1 DEF TypeOK
    <3>4. ThreadOwned' /\ QuietOutside'
      BY <2>0, <2>1 DEF ThreadOwned, QuietOutside
    <3>5. DoneIsLast'
      BY <2>1, <2>3, <3>2 DEF DoneIsLast
    <3>6. CancelFromStop' /\ ConnectedAfterSubscribe'
      BY <2>0, <2>3, <3>2 DEF CancelFromStop, ConnectedAfterSubscribe, Posted
    <3>7. AttemptHasTargets' /\ ActiveIsSubscribed'
      BY <2>0 DEF AttemptHasTargets, ActiveIsSubscribed
    <3> QED BY <3>3, <3>4, <3>5, <3>6, <3>7
  <2> QED BY <1>6, <2>2, <2>3 DEF WorkerStep, WorkerStart, WorkerConnect,
          WorkerConnectFails, WorkerAnnounce, WorkerNotSubscribed, WorkerLeave,
          WorkerClose, Move
<1>7. CASE Network
  <2>0. worker # "none" /\ UNCHANGED <<loopVars, stopSet, worker>>
    BY <1>7 DEF Network, Subscribed, Drop, Frame, NetworkThread
  <2>1. sup \in {"thread", "ended"}
    BY <2>0 DEF ThreadOwned
  <2>2. CASE Subscribed \/ Drop
    BY <2>0, <2>2 DEF Subscribed, Drop, TypeOK, ThreadOwned, QuietOutside,
       DoneIsLast, CancelFromStop, ConnectedAfterSubscribe, AttemptHasTargets,
       ActiveIsSubscribed, Posted
  <2>3. CASE Frame
    <3> USE <2>3 DEF Frame
    <3>1. /\ ready' \in Seq(Callbacks)
          /\ Len(ready') = Len(ready) + 1
          /\ Len(ready) \in Nat
          /\ \A i \in 1..Len(ready) : ready'[i] = ready[i]
          /\ ready'[Len(ready) + 1] = "frame"
      BY PostProperties DEF TypeOK, Post, Callbacks
    <3>2. \A i \in 1..Len(ready') :
              \/ i \in 1..Len(ready) /\ ready'[i] = ready[i]
              \/ ready'[i] = "frame"
      BY <3>1
    <3>3. TypeOK'
      BY <3>1 DEF TypeOK
    <3>4. ThreadOwned' /\ QuietOutside'
      BY <2>0, <2>1 DEF ThreadOwned, QuietOutside
    <3>5. DoneIsLast'
      BY <2>0, <3>2 DEF DoneIsLast
    <3>6. CancelFromStop' /\ ConnectedAfterSubscribe'
      BY <3>2 DEF CancelFromStop, ConnectedAfterSubscribe, Posted
    <3>7. AttemptHasTargets' /\ ActiveIsSubscribed'
      BY DEF AttemptHasTargets, ActiveIsSubscribed
    <3> QED BY <3>3, <3>4, <3>5, <3>6, <3>7
  <2> QED BY <1>7, <2>2, <2>3 DEF Network
<1>8. CASE Tick
  BY <1>8, HealthyAssumption, BackoffAssumption
  DEF Tick, Ageing, TypeOK, ThreadOwned, QuietOutside, DoneIsLast,
     CancelFromStop, ConnectedAfterSubscribe, AttemptHasTargets,
     ActiveIsSubscribed, Posted
<1>9. CASE UNCHANGED vars
  BY <1>9 DEF vars, TypeOK, ThreadOwned, QuietOutside, DoneIsLast,
     CancelFromStop, ConnectedAfterSubscribe, AttemptHasTargets,
     ActiveIsSubscribed, Posted
<1> QED BY <1>1, <1>2, <1>3, <1>4, <1>5, <1>6, <1>7, <1>8, <1>9 DEF Next

\* IInv holds in every reachable state.
THEOREM Inductive == Spec => []IInv
<1>1. Init => IInv
  BY IInvInit
<1>2. IInv /\ [Next]_vars => IInv'
  BY IInvStep
<1> QED BY <1>1, <1>2, PTL DEF Spec

-----------------------------------------------------------------------------
(***************************************************************************)
(* What follows from it.                                                   *)
(***************************************************************************)

\* Every variable keeps to its type, for any set of operators and any delays.
THEOREM TypeCorrect == Spec => []TypeOK
<1>1. IInv => TypeOK
  BY DEF IInv
<1> QED BY <1>1, Inductive, PTL

\* The coordinator never stands its polling down for a connection that is not
\* subscribed (live_listener.py, `active`), until the entry is unloaded.
THEOREM ActiveOnlyWhenSubscribed == Spec => []ActiveIsSubscribed
<1>1. IInv => ActiveIsSubscribed
  BY DEF IInv
<1> QED BY <1>1, Inductive, PTL

\* No thread, frame or completion of one attempt survives into the next.
THEOREM AttemptsDoNotOverlap == Spec => []NothingLeftBehind
<1>1. IInv => NothingLeftBehind
  BY DEF IInv, NothingLeftBehind, ThreadOwned, QuietOutside, Posted
<1> QED BY <1>1, Inductive, PTL

\* The reconnect delay shrinks only after an attempt that lasted _HEALTHY_UPTIME: every
\* other end of an attempt keeps it, and every retry doubles it up to the maximum.
THEOREM NeverAskedFaster == Spec => BackoffOnlyResetsWhenHealthy
<1>1. TypeOK /\ [Next]_vars => [backoff' < backoff => elapsed >= Healthy]_vars
  <2> SUFFICES ASSUME TypeOK, [Next]_vars, elapsed < Healthy PROVE ~(backoff' < backoff)
    BY HealthyAssumption DEF TypeOK
  <2>b. backoff \in BackoffMin..BackoffMax /\ BackoffMin \in Nat /\ BackoffMax \in Nat
    BY BackoffAssumption DEF TypeOK
  <2>1. CASE Retry
    BY <2>1, <2>b DEF Retry, Capped
  <2>2. CASE SessionFails \/ DeliverDone
    <3>1. backoff' = backoff
      BY <2>2, HealthyAssumption DEF SessionFails, DeliverDone, AttemptOver, TypeOK
    <3> QED
      BY <2>b, <3>1
  <2>3. CASE ~Retry /\ ~SessionFails /\ ~DeliverDone
    <3>1. backoff' = backoff
      BY <2>3 DEF Next, Relink, Start, Stop, Supervise, Begin, LookAgain, SessionReady, Deliver,
                  DeliverConnected, DeliverFrame, DeliverCancel, WorkerStep, WorkerStart,
                  WorkerConnect, WorkerConnectFails, WorkerAnnounce, WorkerNotSubscribed,
                  WorkerLeave, WorkerClose, Move, Network, Subscribed, Drop, Frame, Tick,
                  vars, loopVars
    <3> QED
      BY <2>b, <3>1
  <2> QED
    BY <2>1, <2>2, <2>3
<1> QED
  BY <1>1, TypeCorrect, PTL DEF Spec, BackoffOnlyResetsWhenHealthy

-----------------------------------------------------------------------------
(***************************************************************************)
(* The refinement of LiveChannel.                                          *)
(***************************************************************************)
LEMMA ChannelInitially == Init => Channel!ChannelInit
  BY DEF Init, Channel!ChannelInit

\* Every step of the listener is a step of the channel, or leaves it alone.
LEMMA ChannelStep ==
    ASSUME IInv, [Next]_vars
    PROVE  [Channel!ChannelNext]_(Channel!channelVars)
<1> USE DEF IInv, TypeOK, Channel!ChannelNext, Channel!channelVars
<1>1. CASE Start
  BY <1>1 DEF Start, CancelFromStop
<1>2. CASE Stop
  BY <1>2 DEF Stop, Channel!Shut
<1>3. CASE SessionReady
  BY <1>3 DEF SessionReady, Channel!Open
<1>4. CASE SessionFails
  BY <1>4 DEF SessionFails, AttemptOver, ActiveIsSubscribed
<1>5. CASE Begin \/ LookAgain \/ Retry
  BY <1>5 DEF Begin, LookAgain, Retry, TopOfLoop
<1>6. CASE DeliverConnected
  <2>1. Posted("connected")
    BY <1>6, TakeProperties DEF DeliverConnected, Oldest, Posted
  <2>2. sup \in {"thread", "ended"}
    BY <2>1 DEF QuietOutside, Posted
  <2> QED BY <1>6, <2>2 DEF DeliverConnected, CancelFromStop, Channel!Announce,
             Channel!Late
<1>7. CASE DeliverDone
  BY <1>7 DEF DeliverDone, AttemptOver, Channel!Close, Channel!Late
<1>8. CASE DeliverCancel
  <2>1. Posted("cancel")
    BY <1>8, TakeProperties DEF DeliverCancel, Oldest, Posted
  <2> QED BY <1>8, <2>1 DEF DeliverCancel, CancelFromStop, Channel!Late
<1>9. CASE \/ Relink \/ DeliverFrame \/ WorkerStep \/ Network \/ Tick
           \/ UNCHANGED vars
  <2>1. UNCHANGED <<stop, sup, connected>>
    BY <1>9 DEF Relink, DeliverFrame, WorkerStep, WorkerStart, WorkerConnect,
       WorkerConnectFails, WorkerAnnounce, WorkerNotSubscribed, WorkerLeave,
       WorkerClose, Move, Network, Subscribed, Drop, Frame, Tick, loopVars, vars
  <2> QED BY <2>1
<1> QED BY <1>1, <1>2, <1>3, <1>4, <1>5, <1>6, <1>7, <1>8, <1>9
        DEF Next, Supervise, Deliver

\* The listener keeps the promise of LiveChannel to the coordinator.
THEOREM ListenerImplementsChannel == Spec => ImplementsChannel
<1>1. Init => Channel!ChannelInit
  BY ChannelInitially
<1>2. IInv /\ [Next]_vars => [Channel!ChannelNext]_(Channel!channelVars)
  BY ChannelStep
<1> QED BY <1>1, <1>2, Inductive, PTL
        DEF Spec, ImplementsChannel, Channel!ChannelSpec

=============================================================================
