------------------------ MODULE SharedTrigger_proofs ------------------------
(***************************************************************************)
(* The books of a shared gate, proved for any number of presses and cycles *)
(* that overlap, any actions and outputs, and any limit on the triggers.   *)
(***************************************************************************)
EXTENDS SharedTrigger, FiniteSetTheorems, TLAPS

Listings == Shares \cup {NotListed}

CallRecords == [at : {"idle", "asked", "granted", "queued", "recording"},
                access : Listings, barred : BOOLEAN]

\* Presses that have moved the gate and are not done, and those that still may.
Moving == {p \in Presses : call[p].at \in {"queued", "recording"}}
Asking == {p \in Presses : call[p].at \in {"asked", "granted"}}

\* Presses that have been authorised and are not done.
Authorising == {p \in Presses : call[p].at \in {"granted", "queued", "recording"}}

-----------------------------------------------------------------------------
(***************************************************************************)
(* Counting presses.                                                       *)
(***************************************************************************)
LEMMA Counted ==
    ASSUME NEW S \in SUBSET Presses
    PROVE  /\ IsFiniteSet(S) /\ Cardinality(S) \in Nat /\ Cardinality(S) <= Cardinality(Presses)
           /\ Cardinality(Presses) \in Nat
           /\ \A p \in Presses :
                  /\ Cardinality(S \cup {p}) =
                         IF p \in S THEN Cardinality(S) ELSE Cardinality(S) + 1
                  /\ Cardinality(S \ {p}) =
                         IF p \in S THEN Cardinality(S) - 1 ELSE Cardinality(S)
                  /\ p \in S => Cardinality(S) >= 1
<1>1. IsFiniteSet(Presses)
  BY SharedAssumption
<1>2. IsFiniteSet(S) /\ Cardinality(S) <= Cardinality(Presses)
  BY <1>1, FS_Subset
<1>3. Cardinality(S) \in Nat /\ Cardinality(Presses) \in Nat
  BY <1>1, <1>2, FS_CardinalityType
<1>4. ASSUME NEW p \in Presses
      PROVE  /\ Cardinality(S \cup {p}) =
                    IF p \in S THEN Cardinality(S) ELSE Cardinality(S) + 1
             /\ Cardinality(S \ {p}) =
                    IF p \in S THEN Cardinality(S) - 1 ELSE Cardinality(S)
             /\ p \in S => Cardinality(S) >= 1
  <2>1. Cardinality(S \cup {p}) = IF p \in S THEN Cardinality(S) ELSE Cardinality(S) + 1
    BY <1>2, FS_AddElement
  <2>2. Cardinality(S \ {p}) = IF p \in S THEN Cardinality(S) - 1 ELSE Cardinality(S)
    BY <1>2, FS_RemoveElement
  <2>3. S \ {p} \in SUBSET Presses
    OBVIOUS
  <2>4. Cardinality(S \ {p}) \in Nat
    BY <1>1, <2>3, FS_Subset, FS_CardinalityType
  <2> QED
    BY <1>3, <2>1, <2>2, <2>4
<1> QED
  BY <1>2, <1>3, <1>4

LEMMA Subsets == Moving \in SUBSET Presses /\ Asking \in SUBSET Presses
                     /\ Authorising \in SUBSET Presses
  BY DEF Moving, Asking, Authorising

\* A press goes on, and the others stay where they are.
LEMMA OneMoves ==
    ASSUME call \in [Presses -> CallRecords], NEW p \in Presses, NEW n \in CallRecords,
           call' = [call EXCEPT ![p] = n]
    PROVE  /\ Moving' = IF n.at \in {"queued", "recording"} THEN Moving \cup {p}
                                                           ELSE Moving \ {p}
           /\ Asking' = IF n.at \in {"asked", "granted"} THEN Asking \cup {p}
                                                        ELSE Asking \ {p}
           /\ Authorising' = IF n.at \in {"granted", "queued", "recording"}
                             THEN Authorising \cup {p} ELSE Authorising \ {p}
  BY DEF Moving, Asking, Authorising

-----------------------------------------------------------------------------
(***************************************************************************)
(* The invariant.                                                          *)
(***************************************************************************)
\* The presses in progress leave room for the triggers that they may cause.
Budget == triggered + Cardinality(Asking) <= MaxTriggers

\* What was given up or is not done yet was triggered, whatever became of the share.
Outstanding == unrecorded + Cardinality(Moving) <= triggered

Books == share # NotListed => triggered = share.used + unrecorded + Cardinality(Moving)

\* A press that began when the access had ended is refused: it stays ended.
StaysBarred ==
    \A p \in Presses :
        call[p].barred =>
            /\ call[p].at \notin {"granted", "queued", "recording"}
            /\ call[p].at = "asked" => ~is_available(share)

\* What is counted and what has been authorised together exceed the limit by the
\* presses that may run beside the one that was authorised last.
Overrun ==
    share # NotListed /\ MaximumTriggers > 0 =>
        share.used + Cardinality(Authorising) < MaximumTriggers + Cardinality(Presses)

BooksInv == TypeOK /\ Budget /\ Outstanding /\ Books /\ StaysBarred /\ Overrun

LEMMA IdleRecord ==
    /\ Idle \in CallRecords /\ Idle.at = "idle" /\ Idle.barred = FALSE
  BY DEF Idle, CallRecords, Listings

\* The list of shares, as the cycles see it, has no part in the books.
LEMMA PollStep ==
    ASSUME BooksInv, Tick \/ \E c \in Cycles : CycleStart(c) \/ Poll(c)
    PROVE  BooksInv'
<1>1. UNCHANGED <<share, call, triggered, unrecorded>>
  BY DEF Tick, CycleStart, Poll, CycleFails, ListReused, ListAsked, BackendLists, ListParsed,
         ListKept, pressVars
<1>2. TypeOK'
  <2>1. CASE Tick
    BY <2>1, SharedAssumption DEF Tick, BooksInv, TypeOK, pressVars
  <2>2. ASSUME NEW c \in Cycles, CycleStart(c) \/ Poll(c) PROVE TypeOK'
    <3>1. /\ shared \in Listings /\ data \in Listings /\ share \in Listings
          /\ cycle \in [Cycles -> [at : {"idle", "cloud", "asked", "answered"}, answer : Listings]]
          /\ cycle[c].answer \in Listings
          /\ 0 \in 0..SharedInterval
      BY SharedAssumption DEF BooksInv, TypeOK, Listings
    <3>2. cycle' \in [Cycles -> [at : {"idle", "cloud", "asked", "answered"}, answer : Listings]]
      <4>1. PICK r \in [at : {"idle", "cloud", "asked", "answered"}, answer : Listings] :
                cycle' = [cycle EXCEPT ![c] = r]
        <5>1. CASE CycleStart(c)
          <6>1. cycle' = [cycle EXCEPT ![c] = [cycle[c] EXCEPT !.at = "cloud"]]
            BY <3>1, <5>1 DEF CycleStart
          <6>2. cycle[c] \in [at : {"idle", "cloud", "asked", "answered"}, answer : Listings]
            BY <3>1
          <6>3. [cycle[c] EXCEPT !.at = "cloud"]
                    \in [at : {"idle", "cloud", "asked", "answered"}, answer : Listings]
            BY <6>2
          <6> QED
            BY <6>1, <6>3
        <5>2. CASE ListAsked(c)
          <6>1. cycle' = [cycle EXCEPT ![c] = [cycle[c] EXCEPT !.at = "asked"]]
            BY <3>1, <5>2 DEF ListAsked
          <6>2. cycle[c] \in [at : {"idle", "cloud", "asked", "answered"}, answer : Listings]
            BY <3>1
          <6>3. [cycle[c] EXCEPT !.at = "asked"]
                    \in [at : {"idle", "cloud", "asked", "answered"}, answer : Listings]
            BY <6>2
          <6> QED
            BY <6>1, <6>3
        <5>3. CASE BackendLists(c)
          BY <3>1, <5>3 DEF BackendLists
        <5>4. CASE CycleFails(c) \/ ListReused(c) \/ ListParsed(c) \/ ListKept(c)
          BY <5>4 DEF CycleFails, ListReused, ListParsed, ListKept, Publish, Quiet, Listings
        <5> QED
          BY <2>2, <5>1, <5>2, <5>3, <5>4 DEF Poll
      <4> QED
        BY <4>1 DEF BooksInv, TypeOK, Listings
    <3>3. /\ shared' \in Listings /\ data' \in Listings /\ share' \in Listings
          /\ since' \in 0..SharedInterval
          /\ loaded' \in BOOLEAN /\ succeeded' \in BOOLEAN
          /\ ~loaded' => shared' = NotListed
      BY <1>1, <2>2, <3>1
         DEF CycleStart, Poll, CycleFails, ListReused, ListAsked, BackendLists, ListParsed,
             ListKept, Publish, BooksInv, TypeOK
    <3>4. added' \in SUBSET Actions
      BY <2>2
         DEF CycleStart, Poll, CycleFails, ListReused, ListAsked, BackendLists, ListParsed,
             ListKept, Publish, Offered, BooksInv, TypeOK
    <3> QED
      BY <1>1, <3>2, <3>3, <3>4 DEF BooksInv, TypeOK, Listings
  <2> QED
    BY <2>1, <2>2
<1>3. Budget' /\ Outstanding' /\ Books' /\ StaysBarred' /\ Overrun'
  BY <1>1 DEF BooksInv, Budget, Outstanding, Books, StaysBarred, Overrun, Moving, Asking, Authorising,
              is_available, SomeRemain
<1> QED
  BY <1>2, <1>3 DEF BooksInv

\* The owner never makes an access that has ended available again.
LEMMA OwnerStep ==
    ASSUME BooksInv, Owner
    PROVE  BooksInv'
<1>1. UNCHANGED <<shared, loaded, since, data, succeeded, added, cycle, call, triggered,
                  unrecorded>>
  BY DEF Owner, OwnerEdits, OwnerRemoves, listVars, pressVars
<1>2. CASE OwnerRemoves
  BY <1>1, <1>2 DEF OwnerRemoves, BooksInv, TypeOK, Budget, Outstanding, Books, StaysBarred,
                    Overrun, Moving, Asking, Authorising, is_available
<1>3. CASE OwnerEdits
  <2>1. share \in Shares /\ share # NotListed
    BY <1>3 DEF OwnerEdits, BooksInv, TypeOK
  <2>2. PICK io \in [Actions -> Ios \cup {NoIo}], revoked \in BOOLEAN :
            /\ share.revoked => revoked
            /\ share' = [share EXCEPT !.io = io, !.revoked = revoked, !.modified = @ + 1]
    BY <1>3 DEF OwnerEdits
  <2>3. share' \in Shares /\ share'.used = share.used /\ share'.revoked = revoked
    <3>1. share.modified + 1 \in 0..MaxEdits
      BY <1>3, <2>1, SharedAssumption DEF OwnerEdits, Shares
    <3>2. share' = [io |-> io, revoked |-> revoked, modified |-> share.modified + 1,
                    used |-> share.used]
      BY <2>1, <2>2 DEF Shares
    <3> QED
      BY <2>1, <3>1, <3>2 DEF Shares
  <2>4. is_available(share)' => is_available(share)
    BY <2>1, <2>2, <2>3 DEF is_available, SomeRemain
  <2>5. TypeOK'
    BY <1>1, <2>3 DEF BooksInv, TypeOK
  <2>6. Budget' /\ Outstanding' /\ Books' /\ StaysBarred' /\ Overrun'
    BY <1>1, <2>1, <2>3, <2>4
       DEF BooksInv, Budget, Outstanding, Books, StaysBarred, Overrun, Moving, Asking, Authorising
  <2> QED
    BY <2>5, <2>6 DEF BooksInv
<1> QED
  BY <1>2, <1>3 DEF Owner

\* A press leaves the list alone.
LEMMA TypeOKPress ==
    ASSUME TypeOK, share' \in Listings, call' \in [Presses -> CallRecords],
           triggered' \in 0..MaxTriggers, unrecorded' \in 0..MaxTriggers, UNCHANGED listVars
    PROVE  TypeOK'
<1>1. UNCHANGED <<shared, loaded, since, data, succeeded, added, cycle>>
  BY DEF listVars
<1>2. /\ {shared', data'} \subseteq Listings
      /\ loaded' \in BOOLEAN /\ (~loaded' => shared' = NotListed)
      /\ since' \in 0..SharedInterval /\ succeeded' \in BOOLEAN /\ added' \in SUBSET Actions
      /\ cycle' \in [Cycles -> [at : {"idle", "cloud", "asked", "answered"}, answer : Listings]]
  BY <1>1 DEF TypeOK, Listings
<1> QED
  BY <1>2 DEF TypeOK, Listings, CallRecords

LEMMA PressStep ==
    ASSUME BooksInv, NEW p \in Presses, NEW a \in Actions, Press(p, a)
    PROVE  BooksInv'
<1> DEFINE n == [at |-> "asked", access |-> data, barred |-> ~is_available(share)]
<1>1. call' = [call EXCEPT ![p] = n] /\ UNCHANGED <<share, triggered, unrecorded, listVars>>
  BY DEF Press
<1>2. data \in Shares
  BY DEF Press, Offered, BooksInv, TypeOK
<1>3. n \in CallRecords
  <2> DEFINE ended == ~is_available(share)
  <2>2. ended \in BOOLEAN
    BY DEF is_available
  <2>3. n = [at |-> "asked", access |-> data, barred |-> ended]
    OBVIOUS
  <2> HIDE DEF n, ended
  <2> QED
    BY <1>2, <2>2, <2>3 DEF CallRecords, Listings
<1>4. n.at = "asked" /\ (n.barred <=> ~is_available(share))
  BY DEF is_available
<1> HIDE DEF n
<1>5. call \in [Presses -> CallRecords] /\ call[p].at = "idle"
  BY DEF BooksInv, TypeOK, CallRecords, Listings, Press
<1>6. p \notin Moving /\ p \notin Asking /\ p \notin Authorising
  BY <1>5 DEF Moving, Asking, Authorising
<1>7. /\ Cardinality(Moving') = Cardinality(Moving) /\ Cardinality(Asking') = Cardinality(Asking) + 1
      /\ Cardinality(Authorising') = Cardinality(Authorising)
  <2>1. /\ Moving' = Moving \ {p} /\ Asking' = Asking \cup {p}
        /\ Authorising' = Authorising \ {p}
    BY <1>1, <1>3, <1>4, <1>5, OneMoves
  <2> QED
    BY <1>6, <2>1, Subsets, Counted
<1>8. TypeOK'
  <2>1. call' \in [Presses -> CallRecords]
    BY <1>1, <1>3, <1>5
  <2>2. /\ share' \in Listings
        /\ triggered' \in 0..MaxTriggers /\ unrecorded' \in 0..MaxTriggers
    BY <1>1 DEF BooksInv, TypeOK, Listings
  <2> QED
    BY <1>1, <2>1, <2>2, TypeOKPress DEF BooksInv
<1>9. Budget'
  <2>1. triggered + Cardinality(Asking) < MaxTriggers
    BY DEF Press, InProgress, Asking
  <2> QED
    BY <1>1, <1>7, <2>1, Subsets, Counted, SharedAssumption DEF Budget, BooksInv, TypeOK
<1>10. Outstanding' /\ Books' /\ Overrun'
  BY <1>1, <1>7 DEF Outstanding, Books, Overrun, BooksInv
<1>11. \A q \in Presses : call'[q] = IF q = p THEN n ELSE call[q]
  BY <1>1, <1>5
<1>12. StaysBarred'
  BY <1>1, <1>4, <1>11 DEF BooksInv, StaysBarred, is_available, SomeRemain
<1> QED
  BY <1>8, <1>9, <1>10, <1>12 DEF BooksInv

\* A press goes on with the record n, or ends.
LEMMA PressGoes ==
    ASSUME BooksInv, NEW p \in Presses, NEW n \in CallRecords,
           call' = [call EXCEPT ![p] = n],
           n.at # "asked", ~n.barred,
           UNCHANGED listVars, share' \in Listings,
           is_available(share)' => is_available(share),
           triggered' \in 0..MaxTriggers, unrecorded' \in 0..MaxTriggers,
           Budget', Outstanding', Books', Overrun'
    PROVE  BooksInv'
<1>1. call \in [Presses -> CallRecords]
  BY DEF BooksInv, TypeOK, CallRecords, Listings
<1>2. call' \in [Presses -> CallRecords]
  BY <1>1
<1>3. TypeOK'
  BY <1>2, TypeOKPress DEF BooksInv
<1>4. \A q \in Presses : call'[q] = IF q = p THEN n ELSE call[q]
  BY <1>1
<1>5. StaysBarred'
  BY <1>4 DEF BooksInv, StaysBarred
<1> QED
  BY <1>3, <1>5 DEF BooksInv

\* How the two counts change with the stage of one press.
LEMMA StageCounts ==
    ASSUME BooksInv, NEW p \in Presses, NEW n \in CallRecords,
           call' = [call EXCEPT ![p] = n]
    PROVE  /\ Cardinality(Moving') =
                  IF n.at \in {"queued", "recording"}
                  THEN IF p \in Moving THEN Cardinality(Moving) ELSE Cardinality(Moving) + 1
                  ELSE IF p \in Moving THEN Cardinality(Moving) - 1 ELSE Cardinality(Moving)
           /\ Cardinality(Asking') =
                  IF n.at \in {"asked", "granted"}
                  THEN IF p \in Asking THEN Cardinality(Asking) ELSE Cardinality(Asking) + 1
                  ELSE IF p \in Asking THEN Cardinality(Asking) - 1 ELSE Cardinality(Asking)
           /\ Cardinality(Authorising') =
                  IF n.at \in {"granted", "queued", "recording"}
                  THEN IF p \in Authorising THEN Cardinality(Authorising)
                                            ELSE Cardinality(Authorising) + 1
                  ELSE IF p \in Authorising THEN Cardinality(Authorising) - 1
                                            ELSE Cardinality(Authorising)
           /\ Cardinality(Authorising') \in Nat
           /\ Cardinality(Authorising') <= Cardinality(Presses)
           /\ n.at = "idle" => Cardinality(Authorising') <= Cardinality(Authorising)
           /\ p \in Authorising <=> call[p].at \in {"granted", "queued", "recording"}
           /\ p \in Moving <=> call[p].at \in {"queued", "recording"}
           /\ p \in Asking <=> call[p].at \in {"asked", "granted"}
<1>1. call \in [Presses -> CallRecords]
  BY DEF BooksInv, TypeOK, CallRecords, Listings
<1>2. /\ Moving' = IF n.at \in {"queued", "recording"} THEN Moving \cup {p} ELSE Moving \ {p}
      /\ Asking' = IF n.at \in {"asked", "granted"} THEN Asking \cup {p} ELSE Asking \ {p}
      /\ Authorising' = IF n.at \in {"granted", "queued", "recording"}
                        THEN Authorising \cup {p} ELSE Authorising \ {p}
  BY <1>1, OneMoves
<1>3. /\ p \in Moving <=> call[p].at \in {"queued", "recording"}
      /\ p \in Asking <=> call[p].at \in {"asked", "granted"}
      /\ p \in Authorising <=> call[p].at \in {"granted", "queued", "recording"}
  BY DEF Moving, Asking, Authorising
<1>4. Cardinality(Authorising') <= Cardinality(Presses) /\ Cardinality(Authorising') \in Nat
  <2>1. Authorising' \in SUBSET Presses
    BY DEF Authorising
  <2> QED
    BY <2>1, Counted
<1>5. /\ Cardinality(Moving') =
             IF n.at \in {"queued", "recording"}
             THEN IF p \in Moving THEN Cardinality(Moving) ELSE Cardinality(Moving) + 1
             ELSE IF p \in Moving THEN Cardinality(Moving) - 1 ELSE Cardinality(Moving)
      /\ Cardinality(Asking') =
             IF n.at \in {"asked", "granted"}
             THEN IF p \in Asking THEN Cardinality(Asking) ELSE Cardinality(Asking) + 1
             ELSE IF p \in Asking THEN Cardinality(Asking) - 1 ELSE Cardinality(Asking)
  BY <1>2, Subsets, Counted
<1>6. Cardinality(Authorising') =
          IF n.at \in {"granted", "queued", "recording"}
          THEN IF p \in Authorising THEN Cardinality(Authorising)
                                    ELSE Cardinality(Authorising) + 1
          ELSE IF p \in Authorising THEN Cardinality(Authorising) - 1
                                    ELSE Cardinality(Authorising)
  BY <1>2, Subsets, Counted
<1>7. n.at = "idle" => Cardinality(Authorising') <= Cardinality(Authorising)
  BY <1>6, Subsets, Counted
<1> QED
  BY <1>3, <1>4, <1>5, <1>6, <1>7

LEMMA ProceedStep ==
    ASSUME BooksInv, NEW p \in Presses, Proceed(p)
    PROVE  BooksInv'
<1> DEFINE old == call[p]
<1>1. old \in CallRecords /\ call \in [Presses -> CallRecords]
  BY DEF BooksInv, TypeOK, CallRecords, Listings
<1>2. /\ triggered \in 0..MaxTriggers /\ unrecorded \in 0..MaxTriggers /\ share \in Listings
      /\ MaxTriggers \in Nat
  BY SharedAssumption DEF BooksInv, TypeOK, Listings
<1>3. /\ triggered + Cardinality(Asking) <= MaxTriggers
      /\ unrecorded + Cardinality(Moving) <= triggered
      /\ share # NotListed => triggered = share.used + unrecorded + Cardinality(Moving)
      /\ Overrun
  BY DEF BooksInv, Budget, Outstanding, Books
<1>4. /\ Cardinality(Moving) \in Nat /\ Cardinality(Asking) \in Nat
      /\ Cardinality(Authorising) \in Nat /\ Cardinality(Presses) \in Nat
      /\ old.at \in {"asked", "granted"} => Cardinality(Asking) >= 1
      /\ old.at \in {"queued", "recording"} => Cardinality(Moving) >= 1
  <2>1. /\ old.at \in {"asked", "granted"} => p \in Asking
        /\ old.at \in {"queued", "recording"} => p \in Moving
    BY DEF Moving, Asking
  <2> QED
    BY <2>1, Subsets, Counted
<1>5. /\ old.at \in {"granted", "queued", "recording"} => ~old.barred
      /\ old.at = "asked" /\ old.barred => ~is_available(share)
  BY DEF BooksInv, StaysBarred
<1> HIDE DEF old
<1>6. CASE Granted(p)
  <2> DEFINE n == [old EXCEPT !.at = "granted"]
  <2>1. call' = [call EXCEPT ![p] = n] /\ UNCHANGED <<share, listVars, triggered, unrecorded>>
    BY <1>1, <1>6 DEF Granted, old
  <2>2. n \in CallRecords /\ n.at = "granted" /\ n.barred = old.barred
    BY <1>1 DEF CallRecords
  <2>3. old.at = "asked" /\ ~old.barred
    BY <1>5, <1>6 DEF Granted, Authorised, old
  <2> HIDE DEF n
  <2>4. Cardinality(Moving') = Cardinality(Moving) /\ Cardinality(Asking') = Cardinality(Asking)
    BY <1>4, <2>1, <2>2, <2>3, StageCounts DEF old
  <2>5. Budget' /\ Outstanding' /\ Books'
    BY <1>3, <2>1, <2>4 DEF Budget, Outstanding, Books
  <2>6. is_available(share)' => is_available(share)
    BY <2>1 DEF is_available, SomeRemain
  <2>7. Overrun'
    <3>1. share # NotListed /\ (MaximumTriggers > 0 => share.used < MaximumTriggers)
      BY <1>6, SharedAssumption DEF Granted, Authorised, is_available, SomeRemain
    <3>2. share.used \in Nat
      BY <1>2, <3>1, SharedAssumption DEF Listings, Shares
    <3>3. Cardinality(Authorising)' <= Cardinality(Presses) /\ Cardinality(Authorising)' \in Nat
      BY <1>4, <2>1, <2>2, StageCounts
    <3> QED
      BY <1>4, <2>1, <3>1, <3>2, <3>3, SharedAssumption DEF Overrun
  <2> QED
    BY <1>2, <2>1, <2>2, <2>3, <2>5, <2>6, <2>7, PressGoes
<1>7. CASE Queued(p)
  <2> DEFINE n == [old EXCEPT !.at = "queued"]
  <2>1. call' = [call EXCEPT ![p] = n] /\ UNCHANGED <<share, listVars, unrecorded>>
        /\ triggered' = triggered + 1
    BY <1>1, <1>7 DEF Queued, old
  <2>2. n \in CallRecords /\ n.at = "queued" /\ n.barred = old.barred
    BY <1>1 DEF CallRecords
  <2>3. old.at = "granted" /\ ~old.barred
    BY <1>5, <1>7 DEF Queued, old
  <2> HIDE DEF n
  <2>4. /\ Cardinality(Moving') = Cardinality(Moving) + 1
        /\ Cardinality(Asking') = Cardinality(Asking) - 1
    BY <1>4, <2>1, <2>2, <2>3, StageCounts DEF old
  <2>5. Budget' /\ Outstanding' /\ triggered' \in 0..MaxTriggers
    BY <1>2, <1>3, <1>4, <2>1, <2>3, <2>4 DEF Budget, Outstanding
  <2>6. Books'
    <3>1. share # NotListed => share.used \in Nat
      BY <1>2, SharedAssumption DEF Listings, Shares
    <3> QED
      BY <1>2, <1>3, <1>4, <2>1, <2>4, <3>1 DEF Books
  <2>7. is_available(share)' => is_available(share)
    BY <2>1 DEF is_available, SomeRemain
  <2>8. Overrun'
    BY <1>1, <1>3, <2>1, <2>2, <2>3, StageCounts DEF Overrun, old
  <2> QED
    BY <1>2, <2>1, <2>2, <2>3, <2>5, <2>6, <2>7, <2>8, PressGoes
<1>8. CASE Triggered(p)
  <2> DEFINE n == [old EXCEPT !.at = "recording"]
  <2>1. call' = [call EXCEPT ![p] = n] /\ UNCHANGED <<share, listVars, triggered, unrecorded>>
    BY <1>1, <1>8 DEF Triggered, old
  <2>2. n \in CallRecords /\ n.at = "recording" /\ n.barred = old.barred
    BY <1>1 DEF CallRecords
  <2>3. old.at = "queued" /\ ~old.barred
    BY <1>5, <1>8 DEF Triggered, old
  <2> HIDE DEF n
  <2>4. Cardinality(Moving') = Cardinality(Moving) /\ Cardinality(Asking') = Cardinality(Asking)
    BY <1>4, <2>1, <2>2, <2>3, StageCounts DEF old
  <2>5. Budget' /\ Outstanding' /\ Books'
    BY <1>3, <2>1, <2>4 DEF Budget, Outstanding, Books
  <2>6. is_available(share)' => is_available(share)
    BY <2>1 DEF is_available, SomeRemain
  <2>7. Overrun'
    BY <1>1, <1>3, <2>1, <2>2, <2>3, StageCounts DEF Overrun, old
  <2> QED
    BY <1>2, <2>1, <2>2, <2>3, <2>5, <2>6, <2>7, PressGoes
<1>9. CASE Refused(p) \/ Fails(p)
  <2>1. call' = [call EXCEPT ![p] = Idle] /\ UNCHANGED <<share, listVars, triggered, unrecorded>>
        /\ old.at \in {"asked", "granted"}
    BY <1>9 DEF Refused, Fails, old
  <2>2. /\ Cardinality(Moving') = Cardinality(Moving)
        /\ Cardinality(Asking') = Cardinality(Asking) - 1
    BY <1>4, <2>1, IdleRecord, StageCounts DEF old
  <2>3. Budget' /\ Outstanding' /\ Books'
    BY <1>2, <1>3, <1>4, <2>1, <2>2 DEF Budget, Outstanding, Books
  <2>4. is_available(share)' => is_available(share)
    BY <2>1 DEF is_available, SomeRemain
  <2>5. Overrun'
    <3>1. Cardinality(Authorising') <= Cardinality(Authorising)
      BY <1>4, <2>1, IdleRecord, StageCounts
    <3>2. share # NotListed => share.used \in Nat
      BY <1>2, SharedAssumption DEF Listings, Shares
    <3>3. Cardinality(Authorising') \in Nat
      BY <1>4, <2>1, IdleRecord, StageCounts
    <3> QED
      BY <1>3, <1>4, <2>1, <3>1, <3>2, <3>3, SharedAssumption DEF Overrun
  <2> QED
    BY <1>2, <2>1, <2>3, <2>4, <2>5, IdleRecord, PressGoes
<1>10. CASE Recorded(p)
  <2>1. call' = [call EXCEPT ![p] = Idle] /\ UNCHANGED <<listVars, triggered, unrecorded>>
        /\ old.at = "recording" /\ share # NotListed
        /\ share' = [share EXCEPT !.used = @ + 1]
    BY <1>10 DEF Recorded, old
  <2>2. /\ Cardinality(Moving') = Cardinality(Moving) - 1
        /\ Cardinality(Asking') = Cardinality(Asking)
    BY <1>4, <2>1, IdleRecord, StageCounts DEF old
  <2>3. share \in Shares /\ share.used \in Nat /\ share.used + 1 \in 0..MaxTriggers
    BY <1>2, <1>3, <1>4, <2>1 DEF Listings, Shares
  <2>4. /\ share' \in Shares /\ share'.used = share.used + 1
        /\ share'.revoked = share.revoked
    BY <2>1, <2>3 DEF Shares
  <2>5. Budget' /\ Outstanding' /\ Books'
    BY <1>2, <1>3, <1>4, <2>1, <2>2, <2>3, <2>4 DEF Budget, Outstanding, Books
  <2>6. is_available(share)' => is_available(share)
    BY <2>1, <2>3, <2>4, SharedAssumption DEF is_available, SomeRemain
  <2>7. Overrun'
    <3>1. Cardinality(Authorising') = Cardinality(Authorising) - 1
      BY <2>1, IdleRecord, StageCounts DEF old
    <3> QED
      BY <1>3, <1>4, <2>1, <2>3, <2>4, <3>1, SharedAssumption DEF Overrun
  <2> QED
    BY <1>2, <2>1, <2>4, <2>5, <2>6, <2>7, IdleRecord, PressGoes DEF Listings
<1>11. CASE NotRecorded(p)
  <2>1. call' = [call EXCEPT ![p] = Idle] /\ UNCHANGED <<share, listVars, triggered>>
        /\ old.at \in {"queued", "recording"} /\ unrecorded' = unrecorded + 1
    BY <1>11 DEF NotRecorded, old
  <2>2. /\ Cardinality(Moving') = Cardinality(Moving) - 1
        /\ Cardinality(Asking') = Cardinality(Asking)
    BY <1>4, <2>1, IdleRecord, StageCounts DEF old
  <2>3. unrecorded' \in 0..MaxTriggers
    BY <1>2, <1>3, <1>4, <2>1
  <2>4. share # NotListed => share.used \in Nat
    BY <1>2, SharedAssumption DEF Listings, Shares
  <2>5. Budget' /\ Outstanding' /\ Books'
    BY <1>2, <1>3, <1>4, <2>1, <2>2, <2>4 DEF Budget, Outstanding, Books
  <2>6. is_available(share)' => is_available(share)
    BY <2>1 DEF is_available, SomeRemain
  <2>7. Overrun'
    <3>1. Cardinality(Authorising') <= Cardinality(Authorising)
      BY <1>4, <2>1, IdleRecord, StageCounts
    <3>2. share # NotListed => share.used \in Nat
      BY <1>2, SharedAssumption DEF Listings, Shares
    <3>3. Cardinality(Authorising') \in Nat
      BY <1>4, <2>1, IdleRecord, StageCounts
    <3> QED
      BY <1>3, <1>4, <2>1, <3>1, <3>2, <3>3, SharedAssumption DEF Overrun
  <2> QED
    BY <1>2, <2>1, <2>3, <2>5, <2>6, <2>7, IdleRecord, PressGoes
<1> QED
  BY <1>6, <1>7, <1>8, <1>9, <1>10, <1>11 DEF Proceed

LEMMA BooksInvStep == BooksInv /\ [Next]_vars => BooksInv'
<1> SUFFICES ASSUME BooksInv, [Next]_vars PROVE BooksInv'
  OBVIOUS
<1>1. CASE UNCHANGED vars
  <2>1. UNCHANGED <<share, listVars, call, triggered, unrecorded>>
    BY <1>1 DEF vars, pressVars
  <2>2. /\ share \in Listings /\ call \in [Presses -> CallRecords]
        /\ triggered \in 0..MaxTriggers /\ unrecorded \in 0..MaxTriggers
    BY DEF BooksInv, TypeOK, Listings, CallRecords
  <2>3. TypeOK'
    BY <2>1, <2>2, TypeOKPress DEF BooksInv
  <2>4. Budget' /\ Outstanding' /\ Books' /\ StaysBarred' /\ Overrun'
    BY <2>1 DEF BooksInv, Budget, Outstanding, Books, StaysBarred, Overrun, Moving, Asking, Authorising,
                is_available, SomeRemain
  <2> QED
    BY <2>3, <2>4 DEF BooksInv
<1> QED
  BY <1>1, PollStep, OwnerStep, PressStep, ProceedStep DEF Next

LEMMA BooksInvInit == Init => BooksInv
<1> SUFFICES ASSUME Init PROVE BooksInv
  OBVIOUS
<1>1. Moving = {} /\ Asking = {} /\ Authorising = {}
  BY DEF Init, Idle, Moving, Asking, Authorising
<1>2. Cardinality(Moving) = 0 /\ Cardinality(Asking) = 0 /\ Cardinality(Authorising) = 0
  BY <1>1, FS_EmptySet
<1>3. call \in [Presses -> CallRecords]
  BY IdleRecord DEF Init
<1>4. share \in Listings /\ (share # NotListed => share.used = 0)
  BY DEF Init, Listings
<1>5. TypeOK
  <2>1. cycle \in [Cycles -> [at : {"idle", "cloud", "asked", "answered"}, answer : Listings]]
    BY DEF Init, Quiet, Listings
  <2>2. {shared, data} \subseteq Listings /\ shared = NotListed
    BY DEF Init, Listings
  <2>3. loaded \in BOOLEAN /\ succeeded \in BOOLEAN /\ added \in SUBSET Actions
    BY DEF Init
  <2>4. since \in 0..SharedInterval /\ triggered \in 0..MaxTriggers /\ unrecorded \in 0..MaxTriggers
    BY SharedAssumption DEF Init
  <2> QED
    BY <1>3, <1>4, <2>1, <2>2, <2>3, <2>4 DEF TypeOK, Listings, CallRecords
<1>6. Budget /\ Outstanding /\ Books
  BY <1>2, <1>4, SharedAssumption DEF Init, Budget, Outstanding, Books
<1>7. StaysBarred /\ Overrun
  <2>1. Cardinality(Presses) \in Nat
    BY Subsets, Counted
  <2> QED
    BY <1>2, <1>4, <2>1, IdleRecord, SharedAssumption DEF Init, StaysBarred, Overrun
<1> QED
  BY <1>5, <1>6, <1>7 DEF BooksInv

\* Types, books and the limit are kept together by every step: lists, the backend's share
\* and presses keep their types, and a share never counts more than was triggered.
THEOREM Inductive == Spec => []BooksInv
  BY BooksInvInit, BooksInvStep, PTL DEF Spec

\* Each output triggered has been counted once (ActivationDeviceResult), is about to
\* be, or was given up, whatever answers are lost and however presses overlap.
THEOREM EveryOpenAccounted == Spec => []OpensAccounted
<1>1. BooksInv => OpensAccounted
  BY DEF BooksInv, Books, OpensAccounted, Moving
<1> QED
  BY <1>1, Inductive, PTL

\* A press that begins after the access has ended is refused by SendActivation,
\* however old the list is that made the entity look available.
THEOREM EndedAccessIsRefused == Spec => []EndedAccessMovesNothing
<1>1. BooksInv => EndedAccessMovesNothing
  BY DEF BooksInv, StaysBarred, EndedAccessMovesNothing
<1> QED
  BY <1>1, Inductive, PTL

\* A limited share moves the gate more often than its limit only by presses authorised
\* together and by uncounted ones: no request of trigger_shared_action repeats.
THEOREM LimitIsKept == Spec => []LimitOverrunBounded
<1>1. BooksInv => LimitOverrunBounded
  <2> SUFFICES ASSUME BooksInv, share # NotListed, MaximumTriggers > 0
               PROVE  triggered < MaximumTriggers + Cardinality(Presses) + unrecorded
    BY DEF LimitOverrunBounded
  <2>1. Moving \in SUBSET Authorising /\ IsFiniteSet(Authorising)
    BY Subsets, Counted DEF Moving, Authorising
  <2>2. Cardinality(Moving) <= Cardinality(Authorising)
    BY <2>1, FS_Subset
  <2>3. /\ Cardinality(Moving) \in Nat /\ Cardinality(Authorising) \in Nat
        /\ Cardinality(Presses) \in Nat
    BY Subsets, Counted
  <2>4. share.used \in Nat /\ unrecorded \in Nat
    BY SharedAssumption DEF BooksInv, TypeOK, Shares
  <2>5. /\ triggered = share.used + unrecorded + Cardinality(Moving)
        /\ share.used + Cardinality(Authorising) < MaximumTriggers + Cardinality(Presses)
    BY DEF BooksInv, Books, Overrun
  <2> QED
    BY <2>2, <2>3, <2>4, <2>5, SharedAssumption
<1> QED
  BY <1>1, Inductive, PTL
=============================================================================
