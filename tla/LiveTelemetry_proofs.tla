------------------------ MODULE LiveTelemetry_proofs ------------------------
(***************************************************************************)
(* Proofs about LiveTelemetry, for every set of operators and of           *)
(* overlapping update cycles, every cadence and every length of the event  *)
(* loop's queue.                                                           *)
(***************************************************************************)
EXTENDS LiveTelemetry, SequenceTheorems, TLAPS

-----------------------------------------------------------------------------
(***************************************************************************)
(* The event loop's queue and the numbers.                                 *)
(***************************************************************************)
\* A posted callback comes last and disturbs nothing before it.
LEMMA PostProperties ==
    ASSUME NEW q \in Seq(Callbacks), NEW c \in Callbacks
    PROVE  /\ Append(q, c) \in Seq(Callbacks)
           /\ Len(Append(q, c)) = Len(q) + 1
           /\ \A i \in 1..Len(q) : Append(q, c)[i] = q[i]
           /\ Append(q, c)[Len(q) + 1] = c
  OBVIOUS

\* Taking the oldest callback moves the others up by one.
LEMMA TakeProperties ==
    ASSUME NEW q \in Seq(Callbacks), q # <<>>
    PROVE  /\ Head(q) = q[1] /\ Head(q) \in Callbacks
           /\ 1 \in 1..Len(q)
           /\ Tail(q) \in Seq(Callbacks)
           /\ Len(Tail(q)) = Len(q) - 1
           /\ \A i \in 1..Len(Tail(q)) : Tail(q)[i] = q[i + 1] /\ i + 1 \in 1..Len(q)
  OBVIOUS

\* What the two kinds of callbacks hold.
LEMMA CallbackFields ==
    ASSUME NEW c \in Callbacks
    PROVE  /\ c.what \in {"frame", "done"} /\ c.serial \in Serials
           /\ c.what = "frame" => c.frame \in Frames /\ c.from \in Producers
  BY DEF Callbacks

\* A clock stays within its bound and advances by one at most.
LEMMA UpToProperties ==
    ASSUME NEW bound \in Nat, NEW n \in 0..bound
    PROVE  /\ UpTo(n, bound) \in 0..bound
           /\ UpTo(n, bound) = n + 1 \/ (n = bound /\ UpTo(n, bound) = n)
  BY DEF UpTo

\* The doubled interval stays between the first and the slow one.
LEMMA WidenedInRange ==
    ASSUME NEW n \in ScanInterval..SlowInterval
    PROVE  Widened(n) \in ScanInterval..SlowInterval
  BY CadenceAssumption DEF Widened

-----------------------------------------------------------------------------
(***************************************************************************)
(* Types.                                                                  *)
(***************************************************************************)
Stage == [at : {"idle", "cloud", "sweep", "rest"},
          devices : SUBSET Serials, todo : SUBSET Serials, gotAny : BOOLEAN]

\* Caching a frame keeps the types of what it writes.
LEMMA CacheTypes ==
    ASSUME TypeOK, NEW s \in Serials, NEW f \in Frames, Cache(s, f)
    PROVE  /\ DOMAIN data' \subseteq Serials
           /\ \A d \in DOMAIN data' : data'[d] \in Frames \cup {NoFrame}
           /\ overview' \in [Serials -> Frames \cup {NoFrame}]
           /\ since' \in 0..SlowInterval
  BY CadenceAssumption DEF Cache, TypeOK

LEMMA TypeOKInit == Init => TypeOK
<1> SUFFICES ASSUME Init PROVE TypeOK
  OBVIOUS
<1>1. None \in Positions
  BY TTLAssumption DEF None, Positions, Frames, Producers
<1>2. Idle \in Stage
  BY DEF Idle, Stage
<1>3. <<>> \in Seq(Callbacks)
  BY EmptySeq
<1>4. DOMAIN data \subseteq Serials /\ \A s \in DOMAIN data : data[s] \in Frames \cup {NoFrame}
  BY DEF Init
<1>5. overview \in [Serials -> Frames \cup {NoFrame}] /\ live \in [Serials -> Positions]
  BY <1>1 DEF Init
<1>6. cycle \in [Cycles -> Stage]
  BY <1>2 DEF Init
<1>7. since \in 0..SlowInterval /\ interval \in ScanInterval..SlowInterval
      /\ rest \in 0..ForceFloor
  BY CadenceAssumption DEF Init
<1>8. account \in SUBSET Serials /\ force \in BOOLEAN /\ following \in SUBSET Serials
      /\ follow \in [Serials -> {"none", "session", "streaming", "over"}]
      /\ ready \in Seq(Callbacks) /\ ChannelTypeOK
  BY <1>3 DEF Init, ChannelInit, ChannelTypeOK
<1> QED
  BY <1>4, <1>5, <1>6, <1>7, <1>8 DEF TypeOK, Stage

\* A step of an update cycle.
LEMMA TypeOKPoll ==
    ASSUME TypeOK, NEW c \in Cycles, CycleStart(c) \/ Poll(c)
    PROVE  TypeOK'
<1> USE DEF Stage
<1>c. cycle \in [Cycles -> Stage]
  BY DEF TypeOK
<1>i. Idle \in Stage
  BY DEF Idle
<1>1. CASE CycleStart(c)
  BY <1>1, <1>c DEF CycleStart, TypeOK, channelVars, paceVars, followVars, ChannelTypeOK
<1>2. CASE CycleFails(c)
  BY <1>2, <1>c, <1>i DEF CycleFails, TypeOK, channelVars, paceVars, followVars, ChannelTypeOK
<1>3. CASE CycleListed(c)
  <2>1. cycle' \in [Cycles -> Stage]
    BY <1>3, <1>c DEF CycleListed, TypeOK
  <2>2. since' \in 0..SlowInterval /\ rest' \in 0..ForceFloor
    BY <1>3, CadenceAssumption DEF CycleListed, TypeOK
  <2> QED
    BY <1>3, <2>1, <2>2 DEF CycleListed, TypeOK, channelVars, followVars, ChannelTypeOK
<1>4. CASE SweepEnds(c)
  <2>1. cycle' \in [Cycles -> Stage]
    BY <1>4, <1>c DEF SweepEnds
  <2>2. interval' \in ScanInterval..SlowInterval
    BY <1>4, WidenedInRange, CadenceAssumption DEF SweepEnds, TypeOK
  <2> QED
    BY <1>4, <2>1, <2>2 DEF SweepEnds, TypeOK, channelVars, followVars, ChannelTypeOK
<1>5. CASE CycleEnds(c)
  <2>1. cycle' \in [Cycles -> Stage]
    BY <1>5, <1>c, <1>i DEF CycleEnds
  <2>2. cycle[c].devices \subseteq Serials
    BY <1>c
  <2> QED
    BY <1>5, <2>1, <2>2
    DEF CycleEnds, TypeOK, channelVars, paceVars, followVars, ChannelTypeOK
<1>6. ASSUME NEW s \in Serials, SweepMissed(c, s)
      PROVE  TypeOK'
  BY <1>6, <1>c DEF SweepMissed, TypeOK, channelVars, paceVars, followVars, ChannelTypeOK
<1>7. ASSUME NEW s \in Serials, NEW f \in Frames, SweepAnswered(c, s, f)
      PROVE  TypeOK'
  <2>1. cycle' \in [Cycles -> Stage]
    BY <1>7, <1>c DEF SweepAnswered
  <2> QED
    BY <1>7, <2>1, CacheTypes
    DEF SweepAnswered, IngestRead, TypeOK, channelVars, followVars, ChannelTypeOK
<1> QED
  BY <1>1, <1>2, <1>3, <1>4, <1>5, <1>6, <1>7 DEF Poll

\* A step of a follow, of the queue's producers or of the loop.
LEMMA TypeOKQueue ==
    ASSUME TypeOK,
           \/ Deliver
           \/ \E s \in Serials : Press(s) \/ Follow(s)
           \/ \E s \in Serials, f \in Frames : FollowFrame(s, f) \/ ListenerFrame(s, f)
    PROVE  TypeOK'
<1>n. None \in Positions
  BY TTLAssumption DEF None, Positions, Frames, Producers
<1>p. \A s \in Serials, f \in Frames, p \in Producers : FrameFrom(s, f, p) \in Callbacks
  BY DEF FrameFrom, Callbacks
<1>1. ASSUME NEW s \in Serials, Press(s)
      PROVE  TypeOK'
  BY <1>1 DEF Press, TypeOK, channelVars, paceVars, ChannelTypeOK
<1>2. ASSUME NEW s \in Serials, FollowStreams(s)
      PROVE  TypeOK'
  BY <1>2 DEF FollowStreams, TypeOK, channelVars, paceVars, ChannelTypeOK
<1>3. ASSUME NEW s \in Serials, FollowFails(s)
      PROVE  TypeOK'
  BY <1>3, <1>n DEF FollowFails, FollowFinally, TypeOK, channelVars, paceVars, ChannelTypeOK
<1>4. ASSUME NEW s \in Serials, FollowOver(s)
      PROVE  TypeOK'
  <2>1. [what |-> "done", serial |-> s] \in Callbacks
    BY DEF Callbacks
  <2>2. ready' \in Seq(Callbacks)
    BY <1>4, <2>1, PostProperties DEF FollowOver, Post, TypeOK
  <2> QED
    BY <1>4, <2>2 DEF FollowOver, TypeOK, channelVars, paceVars, ChannelTypeOK
<1>5. ASSUME NEW s \in Serials, NEW f \in Frames, FollowFrame(s, f) \/ ListenerFrame(s, f)
      PROVE  TypeOK'
  <2>1. PICK p \in Producers : ready' = Append(ready, FrameFrom(s, f, p))
    BY <1>5 DEF FollowFrame, ListenerFrame, Post, Producers
  <2>2. ready' \in Seq(Callbacks)
    BY <2>1, <1>p, PostProperties DEF TypeOK
  <2> QED
    BY <1>5, <2>2
    DEF FollowFrame, ListenerFrame, TypeOK, channelVars, paceVars, followVars, ChannelTypeOK
<1>6. CASE DeliverFrame
  <2> DEFINE c == Head(ready)
  <2>1. ready' \in Seq(Callbacks) /\ c \in Callbacks
    BY <1>6, TakeProperties DEF DeliverFrame, TypeOK
  <2>2. c.serial \in Serials /\ c.frame \in Frames /\ c.from \in Producers
    BY <1>6, <2>1, CallbackFields DEF DeliverFrame
  <2>3. [left |-> TTL, label |-> c.frame, from |-> c.from] \in Positions
    BY <2>2, TTLAssumption DEF Positions
  <2>4. live' \in [Serials -> Positions]
    BY <1>6, <2>2, <2>3 DEF DeliverFrame, IngestMovement, TypeOK
  <2>5. Cache(c.serial, c.frame)
    BY <1>6 DEF DeliverFrame, IngestMovement
  <2> QED
    BY <1>6, <2>1, <2>2, <2>4, <2>5, CacheTypes
    DEF DeliverFrame, TypeOK, channelVars, followVars, ChannelTypeOK
<1>7. CASE DeliverDone
  <2>1. ready' \in Seq(Callbacks) /\ Head(ready).serial \in Serials
    BY <1>7, TakeProperties, CallbackFields DEF DeliverDone, TypeOK
  <2> QED
    BY <1>7, <1>n, <2>1
    DEF DeliverDone, FollowFinally, TypeOK, channelVars, paceVars, ChannelTypeOK
<1> QED
  BY <1>1, <1>2, <1>3, <1>4, <1>5, <1>6, <1>7 DEF Deliver, Follow

LEMMA TypeOKStep == TypeOK /\ [Next]_vars => TypeOK'
<1> SUFFICES ASSUME TypeOK, [Next]_vars PROVE TypeOK'
  OBVIOUS
<1>1. CASE Relink \/ ForceTelemetry
  BY <1>1 DEF Relink, ForceTelemetry, TypeOK, channelVars, paceVars, followVars, ChannelTypeOK
<1>2. CASE ListenerStep
  BY <1>2
  DEF ListenerStep, Open, Announce, Close, TypeOK, paceVars, followVars, ChannelTypeOK
<1>3. CASE Tick
  <2>1. since' \in 0..SlowInterval /\ rest' \in 0..ForceFloor
    BY <1>3, UpToProperties, CadenceAssumption DEF Tick, TypeOK
  <2>2. \A p \in Positions : Aged(p) \in Positions
    BY TTLAssumption DEF Aged, None, Positions, Frames, Producers
  <2>3. live' \in [Serials -> Positions]
    BY <1>3, <2>2 DEF Tick, TypeOK
  <2> QED
    BY <1>3, <2>1, <2>3 DEF Tick, TypeOK, channelVars, followVars, ChannelTypeOK
<1>4. ASSUME NEW s \in Serials, NEW f \in Frames, ReadOnDemand(s, f)
      PROVE  TypeOK'
  BY <1>4, CacheTypes
  DEF ReadOnDemand, IngestRead, TypeOK, channelVars, followVars, ChannelTypeOK
<1>5. CASE UNCHANGED vars
  BY <1>5 DEF vars, TypeOK, channelVars, paceVars, followVars, ChannelTypeOK
<1> QED
  BY <1>1, <1>2, <1>3, <1>4, <1>5, TypeOKPoll, TypeOKQueue DEF Next

\* The coordinator's telemetry state keeps its types; the interval between sweeps
\* stays between the first one and the slow one.
THEOREM TypeCorrect == Spec => []TypeOK
  BY TypeOKInit, TypeOKStep, PTL DEF Spec

-----------------------------------------------------------------------------
(***************************************************************************)
(* The cache and the data that entities read.                              *)
(***************************************************************************)
\* Caching a frame updates both.
LEMMA CacheAgrees ==
    ASSUME TypeOK, CacheAndDataAgree, NEW s \in Serials, NEW f \in Frames, Cache(s, f)
    PROVE  CacheAndDataAgree'
  BY DEF Cache, TypeOK, CacheAndDataAgree

LEMMA CacheAndDataAgreeStep ==
    TypeOK /\ CacheAndDataAgree /\ [Next]_vars => CacheAndDataAgree'
<1> SUFFICES ASSUME TypeOK, CacheAndDataAgree, [Next]_vars PROVE CacheAndDataAgree'
  OBVIOUS
<1>1. CASE UNCHANGED <<data, overview>>
  BY <1>1 DEF CacheAndDataAgree
<1>2. ASSUME NEW c \in Cycles, CycleEnds(c)
      PROVE  CacheAndDataAgree'
  BY <1>2 DEF CycleEnds, CacheAndDataAgree
<1>3. ASSUME NEW c \in Cycles, NEW s \in Serials, NEW f \in Frames, SweepAnswered(c, s, f)
      PROVE  CacheAndDataAgree'
  BY <1>3, CacheAgrees DEF SweepAnswered, IngestRead
<1>4. ASSUME NEW s \in Serials, NEW f \in Frames, ReadOnDemand(s, f)
      PROVE  CacheAndDataAgree'
  BY <1>4, CacheAgrees DEF ReadOnDemand, IngestRead
<1>5. CASE DeliverFrame
  <2>1. Head(ready).serial \in Serials /\ Head(ready).frame \in Frames
    BY <1>5, TakeProperties, CallbackFields DEF DeliverFrame, TypeOK
  <2> QED
    BY <1>5, <2>1, CacheAgrees DEF DeliverFrame, IngestMovement
<1> QED
  BY <1>1, <1>2, <1>3, <1>4, <1>5
  DEF Next, Deliver, Poll, Follow, Relink, ForceTelemetry, ListenerStep, DeliverDone,
      Tick, CycleStart, CycleFails, CycleListed, SweepEnds, SweepMissed, Press,
      FollowStreams, FollowFails, FollowOver, FollowFrame, ListenerFrame, vars

\* However many update cycles overlap with reads, follows and the listener, the data
\* that entities read hold the newest frame of every operator (ingest_overview and
\* the end of _async_update_data).
THEOREM DataIsNewest == Spec => []CacheAndDataAgree
<1>1. Init => CacheAndDataAgree
  BY DEF Init, CacheAndDataAgree
<1> QED
  BY <1>1, CacheAndDataAgreeStep, TypeCorrect, PTL DEF Spec

-----------------------------------------------------------------------------
(***************************************************************************)
(* The pause between sweeps.                                               *)
(***************************************************************************)
\* _last_telemetry is never older than the beginning of the last sweep, unless that
\* is long enough ago.
RestCounted == rest = ForceFloor \/ since <= rest

LEMMA RestCountedStep == TypeOK /\ RestCounted /\ [Next]_vars => RestCounted'
<1> SUFFICES ASSUME TypeOK, RestCounted, [Next]_vars PROVE RestCounted'
  OBVIOUS
<1>t. since \in Nat /\ rest \in Nat /\ since \in 0..SlowInterval /\ rest \in 0..ForceFloor
  BY CadenceAssumption DEF TypeOK
<1>1. CASE UNCHANGED <<since, rest>>
  BY <1>1 DEF RestCounted
<1>2. CASE since' = 0 /\ UNCHANGED rest
  BY <1>2, <1>t DEF RestCounted
<1>3. ASSUME NEW c \in Cycles, CycleListed(c)
      PROVE  RestCounted'
  BY <1>3, <1>t DEF CycleListed, RestCounted
<1>4. CASE Tick
  BY <1>4, <1>t, UpToProperties, CadenceAssumption DEF Tick, RestCounted
<1> QED
  BY <1>1, <1>2, <1>3, <1>4
  DEF Next, Deliver, Poll, Follow, Relink, ForceTelemetry, ListenerStep, DeliverDone,
      DeliverFrame, IngestMovement, IngestRead, Cache, SweepAnswered, ReadOnDemand,
      CycleStart, CycleFails, CycleEnds, SweepEnds, SweepMissed, Press,
      FollowStreams, FollowFails, FollowOver, FollowFrame, ListenerFrame,
      vars, paceVars

\* Only a cycle that passes the telemetry gate begins a sweep.
LEMMA OnlyListedSweeps ==
    ASSUME TypeOK, [Next]_vars, NEW c \in Cycles,
           cycle[c].at = "cloud", cycle'[c].at = "sweep"
    PROVE  CycleListed(c)
<1>c. cycle \in [Cycles -> Stage]
  BY DEF TypeOK, Stage
<1>1. CASE UNCHANGED cycle
  BY <1>1
<1>2. ASSUME NEW d \in Cycles, CycleStart(d) \/ Poll(d)
      PROVE  CycleListed(c)
  <2>1. CASE d # c
    BY <1>2, <1>c, <2>1
    DEF Poll, CycleStart, CycleFails, CycleListed, SweepEnds, CycleEnds, SweepMissed,
        SweepAnswered
  <2>2. CASE d = c
    <3>1. ~CycleStart(c)
      BY <1>c DEF CycleStart, Stage
    <3>2. ~CycleFails(c)
      BY <1>c DEF CycleFails, Idle
    <3>3. ~SweepEnds(c) /\ ~CycleEnds(c)
      BY DEF SweepEnds, CycleEnds
    <3>4. \A s \in Serials, f \in Frames : ~SweepMissed(c, s) /\ ~SweepAnswered(c, s, f)
      BY DEF SweepMissed, SweepAnswered
    <3>5. \A s \in Serials : ~SweepMissed(c, s)
      BY DEF SweepMissed
    <3> QED
      BY <1>2, <2>2, <3>1, <3>2, <3>3, <3>4, <3>5 DEF Poll
  <2> QED BY <2>1, <2>2
<1> QED
  BY <1>1, <1>2
  DEF Next, Deliver, Follow, Relink, ForceTelemetry, ListenerStep, DeliverDone,
      DeliverFrame, ReadOnDemand, Tick, Press, FollowStreams, FollowFails, FollowOver,
      FollowFrame, ListenerFrame, vars

\* Forced or not, two sweeps of the operators' radios never begin within
\* TELEMETRY_FORCE_MIN_INTERVAL, whatever cycles overlap (_maybe_refresh_telemetry).
THEOREM SweepsKeepTheirDistance == Spec => RadioRests
<1>1. Init => RestCounted
  BY DEF Init, RestCounted
<1>2. ASSUME TypeOK, RestCounted, [Next]_vars, NEW c \in Cycles,
             cycle[c].at = "cloud", cycle'[c].at = "sweep"
      PROVE  rest >= ForceFloor
  <2>1. since >= Wait
    <3>1. CycleListed(c)
      BY <1>2, OnlyListedSweeps
    <3>2. cycle' = [cycle EXCEPT ![c] = cycle'[c]] /\ cycle \in [Cycles -> Stage]
      BY <3>1, <1>2 DEF CycleListed, TypeOK, Stage
    <3> QED BY <3>1, <3>2, <1>2 DEF CycleListed
  <2>2. Wait >= ForceFloor /\ since \in Nat /\ rest \in Nat
    BY <1>2, CadenceAssumption DEF Wait, TypeOK
  <2>3. Wait \in Nat
    BY <1>2, CadenceAssumption DEF Wait, TypeOK
  <2> QED BY <1>2, <2>1, <2>2, <2>3, CadenceAssumption DEF RestCounted
<1>3. TypeOK /\ RestCounted /\ [Next]_vars =>
        [\A c \in Cycles :
            (cycle[c].at = "cloud" /\ cycle'[c].at = "sweep") => rest >= ForceFloor]_vars
  BY <1>2
<1> QED
  BY <1>1, <1>3, RestCountedStep, TypeCorrect, PTL DEF Spec, RadioRests

-----------------------------------------------------------------------------
(***************************************************************************)
(* The label of a follow.                                                  *)
(***************************************************************************)
DoneOf(i, s) == ready[i].what = "done" /\ ready[i].serial = s

FrameOf(i, s) ==
    ready[i].what = "frame" /\ ready[i].serial = s /\ ready[i].from = "follow"

\* A follow's job is in the set while it runs, and posts in order: its frames while
\* it streams, its completion once and last.
FollowOrder ==
    /\ \A s \in Serials : follow[s] # "none" <=> s \in following
    /\ \A s \in Serials : \A i \in 1..Len(ready) :
           /\ DoneOf(i, s) => follow[s] = "over"
           /\ FrameOf(i, s) => follow[s] \in {"streaming", "over"}
           /\ \A j \in 1..Len(ready) :
                  i < j /\ DoneOf(i, s) => ~DoneOf(j, s) /\ ~FrameOf(j, s)

FollowInv == FollowOrder /\ FollowLabelEndsWithFollow

\* A callback is posted by whom it is about, and nothing else changes.
LEMMA PostKeepsOrder ==
    ASSUME TypeOK, FollowOrder, NEW s \in Serials, NEW c \in Callbacks,
           ready' = Append(ready, c), c.serial = s, UNCHANGED following,
           follow' \in [Serials -> {"none", "session", "streaming", "over"}],
           \A t \in Serials \ {s} : follow'[t] = follow[t],
           c.what = "frame" /\ c.from = "listener" => follow'[s] = follow[s],
           c.what = "frame" /\ c.from = "follow" =>
               follow[s] = "streaming" /\ follow'[s] = "streaming",
           c.what = "done" => follow[s] = "streaming" /\ follow'[s] = "over"
    PROVE  FollowOrder'
<1>n. PICK n \in Nat : n = Len(ready)
  BY DEF TypeOK
<1>1. /\ Len(ready') = n + 1
      /\ \A i \in 1..n : ready'[i] = ready[i]
      /\ ready'[n + 1] = c
  BY <1>n, PostProperties DEF TypeOK
<1>2. c.what \in {"frame", "done"} /\ (c.what = "frame" => c.from \in {"follow", "listener"})
  BY CallbackFields DEF Producers
<1>3. \A t \in Serials : follow'[t] # "none" <=> t \in following'
  BY <1>2 DEF FollowOrder
<1>4. \A t \in Serials, i \in 1..n :
          (DoneOf(i, t)' <=> DoneOf(i, t)) /\ (FrameOf(i, t)' <=> FrameOf(i, t))
  BY <1>1 DEF DoneOf, FrameOf
<1>5. \A t \in Serials : (DoneOf(n + 1, t)' => t = s /\ c.what = "done")
                          /\ (FrameOf(n + 1, t)' => t = s /\ c.what = "frame" /\ c.from = "follow")
  BY <1>1 DEF DoneOf, FrameOf
<1>6. ASSUME NEW t \in Serials, NEW i \in 1..Len(ready')
      PROVE  /\ DoneOf(i, t)' => follow'[t] = "over"
             /\ FrameOf(i, t)' => follow'[t] \in {"streaming", "over"}
             /\ \A j \in 1..Len(ready') :
                    i < j /\ DoneOf(i, t)' => ~DoneOf(j, t)' /\ ~FrameOf(j, t)'
  <2>1. CASE i \in 1..n
    <3>1. DoneOf(i, t)' => follow[t] = "over" /\ follow'[t] = "over"
      BY <1>n, <1>2, <1>4, <2>1 DEF FollowOrder
    <3>2. FrameOf(i, t)' => follow'[t] \in {"streaming", "over"}
      BY <1>n, <1>2, <1>4, <2>1 DEF FollowOrder
    <3>3. ASSUME NEW j \in 1..Len(ready'), i < j, DoneOf(i, t)'
          PROVE  ~DoneOf(j, t)' /\ ~FrameOf(j, t)'
      <4>1. CASE j \in 1..n
        BY <1>n, <1>4, <2>1, <3>3, <4>1 DEF FollowOrder
      <4>2. CASE j = n + 1
        BY <1>5, <3>1, <3>3, <4>2
      <4> QED BY <1>n, <1>1, <4>1, <4>2
    <3> QED BY <3>1, <3>2, <3>3
  <2>2. CASE i = n + 1
    <3>1. \A j \in 1..Len(ready') : ~(i < j)
      BY <1>n, <1>1, <2>2
    <3> QED BY <1>5, <2>2, <3>1
  <2> QED BY <1>n, <1>1, <2>1, <2>2
<1> QED
  BY <1>3, <1>6 DEF FollowOrder

\* Taking the oldest callback leaves the others in order.
LEMMA TakeKeepsOrder ==
    ASSUME TypeOK, FollowOrder, ready # <<>>, ready' = Tail(ready)
    PROVE  \A s \in Serials : \A i \in 1..Len(ready') :
               /\ DoneOf(i, s)' => follow[s] = "over"
               /\ FrameOf(i, s)' => follow[s] \in {"streaming", "over"}
               /\ DoneOf(1, s) => ~DoneOf(i, s)' /\ ~FrameOf(i, s)'
               /\ \A j \in 1..Len(ready') :
                      i < j /\ DoneOf(i, s)' => ~DoneOf(j, s)' /\ ~FrameOf(j, s)'
<1>1. /\ Len(ready') = Len(ready) - 1 /\ Len(ready) \in Nat
      /\ \A i \in 1..Len(ready') : ready'[i] = ready[i + 1] /\ i + 1 \in 1..Len(ready)
      /\ 1 \in 1..Len(ready)
  BY TakeProperties DEF TypeOK
<1>2. \A s \in Serials, i \in 1..Len(ready') :
          (DoneOf(i, s)' <=> DoneOf(i + 1, s)) /\ (FrameOf(i, s)' <=> FrameOf(i + 1, s))
  BY <1>1 DEF DoneOf, FrameOf
<1>3. \A i, j \in 1..Len(ready') : i < j => i + 1 < j + 1
  BY <1>1
<1>4. \A i \in 1..Len(ready') : 1 < i + 1
  BY <1>1
<1> QED
  BY <1>1, <1>2, <1>3, <1>4 DEF FollowOrder

LEMMA FollowInvStep == TypeOK /\ FollowInv /\ [Next]_vars => FollowInv'
<1> SUFFICES ASSUME TypeOK, FollowInv, [Next]_vars PROVE FollowInv'
  OBVIOUS
<1> USE DEF FollowInv
<1>0. TypeOK'
  BY TypeOKStep
<1>1. CASE UNCHANGED <<live, following, follow, ready>>
  BY <1>1 DEF FollowOrder, FollowLabelEndsWithFollow, DoneOf, FrameOf
<1>2. CASE Tick
  <2>1. \A s \in Serials : live'[s].left > 0 => live[s].left > 0 /\ live'[s].from = live[s].from
    BY <1>2 DEF Tick, Aged, None, TypeOK, Positions
  <2> QED
    BY <1>2, <2>1 DEF Tick, followVars, FollowOrder, FollowLabelEndsWithFollow, DoneOf, FrameOf
<1>3. ASSUME NEW s \in Serials, Press(s)
      PROVE  FollowInv'
  <2>1. FollowOrder'
    <3>1. follow[s] = "none"
      BY <1>3 DEF Press, FollowOrder
    <3> QED BY <1>3, <3>1 DEF Press, FollowOrder, DoneOf, FrameOf, TypeOK
  <2> QED BY <1>3, <2>1 DEF Press, FollowLabelEndsWithFollow
<1>4. ASSUME NEW s \in Serials, FollowStreams(s)
      PROVE  FollowInv'
  BY <1>4 DEF FollowStreams, FollowOrder, FollowLabelEndsWithFollow, DoneOf, FrameOf, TypeOK
<1>5. ASSUME NEW s \in Serials, FollowFails(s)
      PROVE  FollowInv'
  <2>1. FollowOrder'
    BY <1>5 DEF FollowFails, FollowFinally, FollowOrder, DoneOf, FrameOf, TypeOK
  <2>2. FollowLabelEndsWithFollow'
    BY <1>5 DEF FollowFails, FollowFinally, FollowLabelEndsWithFollow, None, TypeOK
  <2> QED BY <2>1, <2>2
<1>6. ASSUME NEW s \in Serials, FollowOver(s)
      PROVE  FollowInv'
  <2> DEFINE c == [what |-> "done", serial |-> s]
  <2>1. c \in Callbacks /\ c.serial = s /\ c.what = "done"
    BY DEF Callbacks
  <2>2. FollowOrder'
    BY <1>0, <1>6, <2>1, PostKeepsOrder DEF FollowOver, Post, TypeOK
  <2> QED BY <1>6, <2>2 DEF FollowOver, FollowLabelEndsWithFollow
<1>7. ASSUME NEW s \in Serials, NEW f \in Frames, NEW p \in Producers,
             ready' = Append(ready, FrameFrom(s, f, p)),
             UNCHANGED <<live, following, follow>>,
             p = "follow" => follow[s] = "streaming"
      PROVE  FollowInv'
  <2> DEFINE c == FrameFrom(s, f, p)
  <2>1. c \in Callbacks /\ c.serial = s /\ c.what = "frame" /\ c.from = p
    BY DEF Callbacks, FrameFrom
  <2>2. FollowOrder'
    BY <1>0, <1>7, <2>1, PostKeepsOrder DEF TypeOK
  <2> QED BY <1>7, <2>2 DEF FollowLabelEndsWithFollow
<1>8. CASE DeliverFrame
  <2>1. FollowOrder'
    BY <1>8, TakeKeepsOrder DEF DeliverFrame, followVars, FollowOrder
  <2>2. Head(ready) = ready[1] /\ 1 \in 1..Len(ready) /\ Head(ready).serial \in Serials
    BY <1>8, TakeProperties, CallbackFields DEF DeliverFrame, TypeOK
  <2>3. Head(ready).from = "follow" => Head(ready).serial \in following
    BY <1>8, <2>2 DEF DeliverFrame, FollowOrder, FrameOf
  <2>4. FollowLabelEndsWithFollow'
    BY <1>8, <2>2, <2>3
    DEF DeliverFrame, IngestMovement, followVars, FollowLabelEndsWithFollow, TypeOK
  <2> QED BY <2>1, <2>4
<1>9. CASE DeliverDone
  <2>0. PICK s \in Serials : s = Head(ready).serial
    BY <1>9, TakeProperties, CallbackFields DEF DeliverDone, TypeOK
  <2>1. 1 \in 1..Len(ready) /\ DoneOf(1, s)
    BY <1>9, <2>0, TakeProperties DEF DeliverDone, TypeOK, DoneOf
  <2>2. FollowOrder'
    <3>1. \A i \in 1..Len(ready') : ~DoneOf(i, s)' /\ ~FrameOf(i, s)'
      BY <1>9, <2>1, TakeKeepsOrder DEF DeliverDone
    <3>2. \A t \in Serials \ {s} : follow'[t] = follow[t]
      BY <1>9, <2>0 DEF DeliverDone, TypeOK
    <3>3. \A t \in Serials : follow'[t] # "none" <=> t \in following'
      BY <1>9, <2>0, <2>1 DEF DeliverDone, FollowFinally, FollowOrder, TypeOK
    <3>4. \A t \in Serials : \A i \in 1..Len(ready') :
               /\ DoneOf(i, t)' => follow[t] = "over"
               /\ FrameOf(i, t)' => follow[t] \in {"streaming", "over"}
               /\ \A j \in 1..Len(ready') :
                      i < j /\ DoneOf(i, t)' => ~DoneOf(j, t)' /\ ~FrameOf(j, t)'
      BY <1>9, TakeKeepsOrder DEF DeliverDone
    <3> QED BY <3>1, <3>2, <3>3, <3>4 DEF FollowOrder
  <2>3. FollowLabelEndsWithFollow'
    BY <1>9 DEF DeliverDone, FollowFinally, FollowLabelEndsWithFollow, None, TypeOK
  <2> QED BY <2>2, <2>3
<1>10. ASSUME NEW s \in Serials, NEW f \in Frames, FollowFrame(s, f) \/ ListenerFrame(s, f)
       PROVE  FollowInv'
  BY <1>7, <1>10 DEF FollowFrame, ListenerFrame, Post, Producers, followVars
<1> QED
  BY <1>1, <1>2, <1>3, <1>4, <1>5, <1>6, <1>8, <1>9, <1>10
  DEF Next, Deliver, Poll, Follow, Relink, ForceTelemetry, ListenerStep,
      SweepAnswered, ReadOnDemand, IngestRead, CycleStart, CycleFails, CycleListed,
      CycleEnds, SweepEnds, SweepMissed, vars, followVars

\* A label that a follow has pushed is gone when the follow is, for any number of
\* follows: their completion is the last thing that they post (note_activation).
THEOREM FollowLeavesNoLabel == Spec => []FollowLabelEndsWithFollow
<1>1. Init => FollowInv
  <2>1. Init => Len(ready) = 0
    BY EmptySeq DEF Init
  <2>2. \A i \in 1..0 : FALSE
    OBVIOUS
  <2> QED
    BY <2>1, <2>2 DEF Init, FollowInv, FollowOrder, FollowLabelEndsWithFollow, None
<1> QED
  BY <1>1, FollowInvStep, TypeCorrect, PTL DEF Spec, FollowInv

=============================================================================
