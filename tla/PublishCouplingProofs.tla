------------------------ MODULE PublishCouplingProofs -------------------------
(***************************************************************************)
(* Theorems about PublishCoupling, for any finite number of publish        *)
(* requests and any length of time.                                        *)
(***************************************************************************)
EXTENDS PublishCoupling, FiniteSetTheorems, TLAPS

-----------------------------------------------------------------------------
(* The inductive invariant *)

\* A transaction's now() is not ahead of the clock.
StartsPast == \A r \in Requests : start[r] <= clock

\* What the lock holder will write: never older than what is there, and
\* ahead of the clock only when it is the draft's own date, which it then is.
DraftKeepsDate ==
  draft # None =>
    /\ publishedDate # None => publishedDate <= draft
    /\ draft > clock => draft = preset
    /\ preset # None /\ preset > clock => draft = preset

\* Who has called the notifier, and who has committed.
CallsInOrder ==
  \A r \in Requests :
    /\ pc[r] \in {"idle", "begun", "flipped", "unchanged"} => r \notin told \cup refused \cup Flips
    /\ pc[r] = "notified" => r \in told \cup refused /\ r \notin Flips

\* The audit trail is finite, names a request once, and counts the flag.
TrailCounts ==
  /\ IsFiniteSet(audit)
  /\ Cardinality(audit) - withdrawn = (IF published THEN 1 ELSE 0)
  /\ Cardinality(Flips) = Cardinality(audit)

IInv ==
  /\ TypeOK
  /\ StartsPast
  /\ LockIsFlip
  /\ DraftKeepsDate
  /\ ScheduleSurvives
  /\ CallsInOrder
  /\ NotifierAccount
  /\ TrailCounts

-----------------------------------------------------------------------------
(* Steps *)

\* The initial state satisfies it.
LEMMA InitIInv == Init => IInv
<1> SUFFICES ASSUME Init PROVE IInv
  OBVIOUS
<1> USE NoneAssumption, MaxTimeAssumption DEF Init, Time, Dates
<1>1. /\ IsFiniteSet(audit) /\ Cardinality(audit) = 0
      /\ Flips = {} /\ Cardinality(Flips) = 0
  BY FS_EmptySet DEF Flips
<1>2. Cardinality(Requests) \in Nat
  BY RequestsAssumption, FS_CardinalityType
<1>3. TypeOK
  <2>1. 0 \in Time /\ 0 \in 0..Cardinality(Requests)
    BY <1>2
  <2> QED
    BY <2>1 DEF TypeOK
<1>4. StartsPast /\ LockIsFlip /\ DraftKeepsDate
  BY DEF StartsPast, LockIsFlip, DraftKeepsDate
<1>5. ScheduleSurvives
  BY DEF ScheduleSurvives
<1>6. CallsInOrder /\ NotifierAccount
  BY <1>1 DEF CallsInOrder, NotifierAccount
<1>7. TrailCounts
  BY <1>1 DEF TrailCounts
<1> QED
  BY <1>3, <1>4, <1>5, <1>6, <1>7 DEF IInv

\* The commit of a flip appends one fact, of a request that had none.
LEMMA CommitAppends ==
  ASSUME IInv, NEW r \in Requests, Commit(r)
  PROVE  /\ audit' \subseteq Facts
         /\ IsFiniteSet(audit')
         /\ Cardinality(audit') = Cardinality(audit) + 1
         /\ Flips' = Flips \cup {r}
         /\ r \notin Flips
         /\ Cardinality(Flips') = Cardinality(Flips) + 1
<1> DEFINE fact == [by |-> r, date |-> draft]
<1>1. r \notin Flips
  BY DEF IInv, CallsInOrder, Commit
<1>2. audit' = audit \cup {fact} /\ fact \notin audit
  BY <1>1 DEF Commit, Flips
<1>3. Flips' = Flips \cup {r}
  BY <1>2 DEF Flips
<1>4. fact \in Facts
  BY NoneAssumption DEF IInv, LockIsFlip, TypeOK, Commit, Dates, Facts
<1>5. IsFiniteSet(audit) /\ IsFiniteSet(Flips)
  <2>1. Flips \subseteq Requests
    BY DEF IInv, TypeOK, Flips, Facts
  <2> QED
    BY <2>1, RequestsAssumption, FS_Subset DEF IInv, TrailCounts
<1> QED
  BY <1>1, <1>2, <1>3, <1>4, <1>5, FS_AddElement DEF IInv, TypeOK

\* Every step keeps it.
LEMMA NextIInv == IInv /\ [Next]_vars => IInv'
<1> SUFFICES ASSUME IInv, [Next]_vars PROVE IInv'
  OBVIOUS
<1> USE NoneAssumption, MaxTimeAssumption
    DEF IInv, TypeOK, Time, Dates, calls, row, ledger, Goto,
        StartsPast, LockIsFlip, DraftKeepsDate, CallsInOrder
<1>a. UNCHANGED <<audit, withdrawn, published>> => TrailCounts' /\ Flips' = Flips
  BY DEF TrailCounts, Flips
<1>1. ASSUME NEW r \in Requests, Begin(r) PROVE IInv'
  BY <1>1, <1>a DEF Begin, ScheduleSurvives, NotifierAccount
<1>2. ASSUME NEW r \in Requests, AnswerUnchanged(r) PROVE IInv'
  BY <1>2, <1>a DEF AnswerUnchanged, ScheduleSurvives, NotifierAccount
<1>3. ASSUME NEW r \in Requests, Flip(r) PROVE IInv'
  <2> USE <1>3 DEF Flip, Already
  <2>1. Stamp(r) \in Time
    BY DEF Stamp
  <2>2. TypeOK'
    BY <2>1
  <2>3. StartsPast' /\ LockIsFlip'
    BY <2>1
  <2>4. DraftKeepsDate'
    BY DEF Stamp, ScheduleSurvives
  <2>5. ScheduleSurvives'
    BY DEF ScheduleSurvives
  <2>6. CallsInOrder' /\ NotifierAccount' /\ TrailCounts'
    BY <1>a DEF NotifierAccount
  <2> QED
    BY <2>2, <2>3, <2>4, <2>5, <2>6
<1>4. ASSUME NEW r \in Requests, Notify(r) PROVE IInv'
  <2> USE <1>4 DEF Notify
  <2>1. TypeOK' /\ StartsPast' /\ LockIsFlip' /\ DraftKeepsDate'
    OBVIOUS
  <2>2. ScheduleSurvives'
    BY DEF ScheduleSurvives
  <2>3. CallsInOrder' /\ NotifierAccount' /\ TrailCounts'
    BY <1>a DEF NotifierAccount
  <2> QED
    BY <2>1, <2>2, <2>3
<1>5. ASSUME NEW r \in Requests, Commit(r) PROVE IInv'
  <2> USE <1>5 DEF Commit, LockAfterCommit, Parked
  <2>1. /\ lock = r
        /\ draft \in Time
        /\ ~published
    OBVIOUS
  <2>2. TypeOK'
    BY <2>1, CommitAppends
  <2>3. StartsPast' /\ LockIsFlip' /\ DraftKeepsDate'
    BY <2>1
  <2>4. ScheduleSurvives'
    BY <2>1 DEF ScheduleSurvives
  <2>5. Flips' = Flips \cup {r} /\ r \notin Flips /\ r \in told \cup refused
    BY CommitAppends
  <2>6. CallsInOrder'
    BY <2>5
  <2>7. NotifierAccount'
    BY <2>5 DEF NotifierAccount
  <2>8. TrailCounts'
    <3>1. Cardinality(audit) \in Nat /\ withdrawn \in Int
      BY FS_CardinalityType, RequestsAssumption DEF TrailCounts
    <3>2. published' = TRUE /\ withdrawn' = withdrawn
      OBVIOUS
    <3>3. /\ Cardinality(audit) - withdrawn = 0
          /\ Cardinality(Flips) = Cardinality(audit)
      BY <2>1 DEF TrailCounts
    <3>4. /\ IsFiniteSet(audit')
          /\ Cardinality(audit') = Cardinality(audit) + 1
          /\ Cardinality(Flips') = Cardinality(Flips) + 1
      BY CommitAppends
    <3> QED
      BY ONLY <3>1, <3>2, <3>3, <3>4 DEF TrailCounts
  <2> QED
    BY <2>2, <2>3, <2>4, <2>6, <2>7, <2>8
<1>6. ASSUME NEW r \in Requests, Die(r) PROVE IInv'
  <2> USE <1>6 DEF Die
  <2>1. TypeOK' /\ StartsPast' /\ LockIsFlip' /\ DraftKeepsDate'
    OBVIOUS
  <2>2. ScheduleSurvives'
    BY DEF ScheduleSurvives
  <2>3. CallsInOrder' /\ NotifierAccount' /\ TrailCounts'
    BY <1>a DEF NotifierAccount
  <2> QED
    BY <2>1, <2>2, <2>3
<1>7. CASE Unpublish
  <2> USE <1>7 DEF Unpublish, Unpublishable, RetainedStamp
  <2>1. Flips' = Flips
    BY DEF Flips
  <2>2. Cardinality(Flips) <= Cardinality(Requests)
    <3>1. Flips \subseteq Requests
      BY DEF Flips, Facts
    <3> QED
      BY <3>1, RequestsAssumption, FS_Subset
  <2>3. Cardinality(Requests) \in Nat /\ Cardinality(audit) \in Nat
    BY RequestsAssumption, FS_CardinalityType DEF TrailCounts
  <2>4. withdrawn' \in 0..Cardinality(Requests)
    BY <2>2, <2>3 DEF TrailCounts
  <2>5. TypeOK' /\ StartsPast' /\ LockIsFlip' /\ DraftKeepsDate'
    BY <2>4
  <2>6. ScheduleSurvives'
    BY DEF ScheduleSurvives
  <2>7. CallsInOrder' /\ NotifierAccount'
    BY <2>1 DEF NotifierAccount
  <2>8. TrailCounts'
    BY <2>1, <2>3 DEF TrailCounts
  <2> QED
    BY <2>5, <2>6, <2>7, <2>8
<1>8. CASE Tick
  <2> USE <1>8 DEF Tick
  <2>1. TypeOK' /\ StartsPast' /\ LockIsFlip' /\ DraftKeepsDate'
    OBVIOUS
  <2>2. ScheduleSurvives'
    BY DEF ScheduleSurvives
  <2>3. CallsInOrder' /\ NotifierAccount' /\ TrailCounts'
    BY <1>a DEF NotifierAccount
  <2> QED
    BY <2>1, <2>2, <2>3
<1>9. CASE UNCHANGED vars
  BY <1>9, <1>a DEF vars, ScheduleSurvives, NotifierAccount
<1> QED
  BY <1>1, <1>2, <1>3, <1>4, <1>5, <1>6, <1>7, <1>8, <1>9 DEF Next, Serve

-----------------------------------------------------------------------------
(* The theorems *)

\* The invariant holds of every reachable state.
THEOREM CouplingInvariance == Spec => []IInv
  BY InitIInv, NextIInv, PTL DEF Spec

\* The post is published exactly when one more flip than unpublish has been
\* audited, and no request audits two flips, however many requests race.
THEOREM FlipsAlwaysAudited == Spec => []FlipsAudited
<1>1. IInv => FlipsAudited
  BY DEF IInv, TrailCounts, FlipsAudited
<1> QED
  BY CouplingInvariance, <1>1, PTL

\* Every audited flip was announced in its own transaction, accepted or
\* parked and never both.
THEOREM NotifierAccounted == Spec => []NotifierAccount
<1>1. IInv => NotifierAccount
  BY DEF IInv
<1> QED
  BY CouplingInvariance, <1>1, PTL

\* A date ahead of the clock is the draft's own, and outlives every publish,
\* unpublish and crash.
THEOREM SchedulesSurvive == Spec => []ScheduleSurvives
<1>1. IInv => ScheduleSurvives
  BY DEF IInv
<1> QED
  BY CouplingInvariance, <1>1, PTL

\* published_date never goes back or empties, whatever the order in which
\* requests begin and get the row.
THEOREM StampsNeverGoBack == Spec => StampsMonotone
<1> DEFINE Kept == publishedDate # None
                     => publishedDate' # None /\ publishedDate' >= publishedDate
<1>1. IInv /\ [Next]_vars => [Kept]_vars
  <2> SUFFICES ASSUME IInv, [Next]_vars, publishedDate # None
               PROVE  publishedDate' # None /\ publishedDate' >= publishedDate
    OBVIOUS
  <2> USE NoneAssumption, MaxTimeAssumption DEF IInv, TypeOK, Time, Dates
  <2>1. UNCHANGED publishedDate => publishedDate' # None /\ publishedDate' >= publishedDate
    OBVIOUS
  <2>2. ASSUME NEW r \in Requests, Commit(r)
        PROVE  publishedDate' # None /\ publishedDate' >= publishedDate
    BY <2>2 DEF Commit, LockIsFlip, DraftKeepsDate
  <2>3. CASE Unpublish
    BY <2>1, <2>3 DEF Unpublish, RetainedStamp
  <2>4. ASSUME NEW r \in Requests,
               Begin(r) \/ AnswerUnchanged(r) \/ Flip(r) \/ Notify(r) \/ Die(r)
        PROVE  UNCHANGED publishedDate
    BY <2>4 DEF Begin, AnswerUnchanged, Flip, Notify, Die, row
  <2>5. CASE Tick \/ UNCHANGED vars
    BY <2>1, <2>5 DEF Tick, row, vars
  <2> QED
    BY ONLY <2>1, <2>2, <2>3, <2>4, <2>5, [Next]_vars DEF Next, Serve
<1> QED
  BY CouplingInvariance, <1>1, PTL DEF Spec, StampsMonotone

=============================================================================
