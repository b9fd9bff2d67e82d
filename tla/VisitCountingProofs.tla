------------------------- MODULE VisitCountingProofs --------------------------
(***************************************************************************)
(* Theorems about VisitCounting, for any finite number of visits, any      *)
(* tokens, any retention of two days and more, and any length of calendar. *)
(***************************************************************************)
EXTENDS VisitCounting, FiniteSetTheorems, TLAPS

-----------------------------------------------------------------------------
(* The inductive invariant *)

Inside == {"inserted", "incremented"}
Counters == {c.by : c \in counted}

\* An open transaction began today or yesterday.
StartsNear ==
  \A v \in Visits : start[v] <= day /\ (pc[v] \in Open => day <= start[v] + 1)

\* The row lock is an increment's, and the increment stands on a visible post
\* and on the counter as it is.
LockIsIncrement ==
  \A v \in Visits :
    /\ pc[v] = "incremented" <=> rowLock = v
    /\ pc[v] = "incremented" => number[v] = count + 1 /\ visible

\* A transaction past the wall holds a key that nobody has counted and nobody
\* else holds.
KeysFresh ==
  \A v \in Visits : pc[v] \in Inside =>
    /\ Key(v) \notin CountedKeys
    /\ \A w \in Visits : pc[w] \in Inside /\ Key(w) = Key(v) => w = v

\* The wall: its receipts are of counted visits, and nothing recent is missing.
WallRemembers ==
  /\ receipts \subseteq CountedKeys
  /\ \A k \in CountedKeys : k[2] > day - Retention => k \in receipts

\* Each request is counted once, under the next number.
TallyKept ==
  /\ \A v \in Visits : pc[v] \in {"idle"} \cup Open => v \notin Counters
  /\ IsFiniteSet(counted)
  /\ Cardinality(counted) = count
  /\ Cardinality(Counters) = count
  /\ {c.number : c \in counted} = 1..count

IInv ==
  /\ TypeOK
  /\ StartsNear
  /\ LockIsIncrement
  /\ KeysFresh
  /\ WallRemembers
  /\ TallyKept

-----------------------------------------------------------------------------
(* Steps *)

\* The initial state satisfies it.
LEMMA InitIInv == Init => IInv
<1> SUFFICES ASSUME Init PROVE IInv
  OBVIOUS
<1> USE NoneAssumption, MaxDayAssumption DEF Init, Days
<1>1. /\ IsFiniteSet(counted) /\ Cardinality(counted) = 0
      /\ Counters = {} /\ Cardinality(Counters) = 0
      /\ CountedKeys = {}
  BY FS_EmptySet DEF Counters, CountedKeys
<1>2. TypeOK
  <2>1. 0 \in Days /\ 0 \in 0..Cardinality(Visits)
    BY VisitsAssumption, FS_CardinalityType
  <2> QED
    BY <2>1 DEF TypeOK
<1>3. StartsNear /\ LockIsIncrement
  BY DEF StartsNear, LockIsIncrement, Open
<1>4. KeysFresh /\ WallRemembers
  BY <1>1 DEF KeysFresh, WallRemembers, Inside
<1>5. {c.number : c \in counted} = 1..count
  BY DEF TypeOK
<1> QED
  BY <1>1, <1>2, <1>3, <1>4, <1>5 DEF IInv, TallyKept

\* A step that counts nobody keeps the tally.
LEMMA TallyUntouched ==
  ASSUME TallyKept, UNCHANGED <<count, counted>>,
         \A v \in Visits : pc'[v] \in {"idle"} \cup Open => pc[v] \in {"idle"} \cup Open
  PROVE  TallyKept' /\ CountedKeys' = CountedKeys
  BY DEF TallyKept, Counters, CountedKeys

\* The wall lets a transaction through on a fresh key only.
LEMMA WallFresh ==
  ASSUME IInv, NEW v \in Visits, pc[v] = "resolved", Wall(v) = "inserted"
  PROVE  Key(v) \notin CountedKeys /\ Key(v) \notin Pending
<1>1. Key(v) \notin receipts /\ Key(v) \notin Pending
  BY DEF Wall
<1>2. Key(v)[2] > day - Retention
  BY RetentionAssumption, MaxDayAssumption DEF IInv, TypeOK, StartsNear, Open, Days, Key
<1> QED
  BY <1>1, <1>2 DEF IInv, WallRemembers

\* A commit counts one visit: a new fact, a new key, a new request, the next number.
LEMMA CommitCounts ==
  ASSUME IInv, NEW v \in Visits, Commit(v)
  PROVE  /\ count \in Nat /\ count' = count + 1
         /\ CountedKeys' = CountedKeys \cup {Key(v)}
         /\ Key(v) \notin CountedKeys
         /\ Counters' = Counters \cup {v}
         /\ v \notin Counters
         /\ {c.number : c \in counted'} = 1..count'
         /\ IsFiniteSet(counted')
         /\ Cardinality(counted') = count'
         /\ Cardinality(Counters') = count'
         /\ count' \in 0..Cardinality(Visits)
         /\ counted' \subseteq [by : Visits, key : Keys, number : Nat]
<1> DEFINE fact == [by |-> v, key |-> Key(v), number |-> number[v]]
<1> USE DEF IInv
<1>1. pc[v] = "incremented" /\ counted' = counted \cup {fact}
  BY DEF Commit
<1>2. fact.by = v /\ fact.key = Key(v) /\ fact.number = number[v]
  OBVIOUS
<1>3. fact \in [by : Visits, key : Keys, number : Nat]
  BY DEF TypeOK, Key, Keys
<1> HIDE DEF fact
<1>4. count \in Nat /\ count' = count + 1 /\ number[v] = count + 1
  BY <1>1, VisitsAssumption, FS_CardinalityType DEF TypeOK, LockIsIncrement, Commit
<1>5. Key(v) \notin CountedKeys /\ CountedKeys' = CountedKeys \cup {Key(v)}
  BY <1>1, <1>2 DEF KeysFresh, Inside, CountedKeys
<1>6. v \notin Counters /\ Counters' = Counters \cup {v}
  BY <1>1, <1>2 DEF TallyKept, Open, Counters
<1>7. fact \notin counted
  BY <1>6, <1>2 DEF Counters
<1>8. {c.number : c \in counted'} = 1..count'
  <2>1. {c.number : c \in counted'} = {c.number : c \in counted} \cup {number[v]}
    BY <1>1, <1>2
  <2>2. 1..count' = 1..count \cup {count + 1}
    BY <1>4
  <2> QED
    BY <2>1, <2>2, <1>4 DEF TallyKept
<1>9. IsFiniteSet(counted') /\ Cardinality(counted') = count'
  BY <1>1, <1>4, <1>7, FS_AddElement DEF TallyKept
<1>10. counted' \subseteq [by : Visits, key : Keys, number : Nat]
  BY <1>1, <1>3 DEF TypeOK
<1>11. /\ IsFiniteSet(Counters)
       /\ Counters' \subseteq Visits
  <2>1. Counters \subseteq Visits
    BY DEF TypeOK, Counters
  <2> QED
    BY <2>1, <1>6, VisitsAssumption, FS_Subset
<1>12. Cardinality(Counters') = count'
  BY <1>4, <1>6, <1>11, FS_AddElement DEF TallyKept
<1>13. count' \in 0..Cardinality(Visits)
  <2>1. Cardinality(Counters') <= Cardinality(Visits) /\ Cardinality(Visits) \in Nat
    BY <1>11, VisitsAssumption, FS_Subset, FS_CardinalityType
  <2> QED
    BY <2>1, <1>4, <1>12
<1> QED
  BY <1>4, <1>5, <1>6, <1>8, <1>9, <1>10, <1>12, <1>13

\* Every step keeps it.
LEMMA NextIInv == IInv /\ [Next]_vars => IInv'
<1> SUFFICES ASSUME IInv, [Next]_vars PROVE IInv'
  OBVIOUS
<1> USE NoneAssumption, MaxDayAssumption, RetentionAssumption
    DEF IInv, TypeOK, Days, Open, Ended, Inside, Goto, StartsNear, LockIsIncrement
<1>1. ASSUME NEW v \in Visits, Resolve(v) PROVE IInv'
  <2> USE <1>1 DEF Resolve
  <2>1. TypeOK' /\ StartsNear' /\ LockIsIncrement'
    BY VisitsAssumption, FS_CardinalityType
  <2>2. TallyKept' /\ CountedKeys' = CountedKeys
    BY TallyUntouched
  <2>3. KeysFresh'
    BY <2>2 DEF KeysFresh, Key
  <2>4. WallRemembers'
    BY <2>2 DEF WallRemembers
  <2> QED
    BY <2>1, <2>2, <2>3, <2>4
<1>2. ASSUME NEW v \in Visits, Insert(v) PROVE IInv'
  <2> USE <1>2 DEF Insert
  <2>1. Wall(v) \in {"duplicate", "inserted"}
    BY DEF Wall
  <2>2. TypeOK' /\ StartsNear' /\ LockIsIncrement'
    BY <2>1
  <2>3. TallyKept' /\ CountedKeys' = CountedKeys
    BY <2>1, TallyUntouched
  <2>4. KeysFresh'
    <3>1. CASE Wall(v) = "inserted"
      BY <3>1, <2>3, WallFresh DEF KeysFresh, Key, Pending
    <3>2. CASE Wall(v) = "duplicate"
      BY <3>2, <2>3 DEF KeysFresh, Key
    <3> QED
      BY <2>1, <3>1, <3>2
  <2>5. WallRemembers'
    BY <2>3 DEF WallRemembers
  <2> QED
    BY <2>2, <2>3, <2>4, <2>5
<1>3. ASSUME NEW v \in Visits, AnswerRepeated(v) PROVE IInv'
  <2> USE <1>3 DEF AnswerRepeated
  <2>1. /\ pc[v] = "duplicate"
        /\ \E place \in {"failed", "repeated"} : pc' = [pc EXCEPT ![v] = place]
        /\ number' \in {number, [number EXCEPT ![v] = count]}
        /\ UNCHANGED <<day, visible, count, receipts, token, start, rowLock, counted>>
    OBVIOUS
  <2>2. TypeOK' /\ StartsNear' /\ LockIsIncrement'
    BY ONLY <2>1, IInv, VisitsAssumption, FS_CardinalityType, NoneAssumption
  <2>3. TallyKept' /\ CountedKeys' = CountedKeys
    BY TallyUntouched
  <2>4. KeysFresh'
    BY <2>3 DEF KeysFresh, Key
  <2>5. WallRemembers'
    BY <2>3 DEF WallRemembers
  <2> QED
    BY <2>2, <2>3, <2>4, <2>5
<1>4. ASSUME NEW v \in Visits, Increment(v) PROVE IInv'
  <2> USE <1>4 DEF Increment, StillVisible, Incremented
  <2>1. TypeOK' /\ StartsNear' /\ LockIsIncrement'
    BY VisitsAssumption, FS_CardinalityType
  <2>2. TallyKept' /\ CountedKeys' = CountedKeys
    BY TallyUntouched
  <2>3. KeysFresh'
    BY <2>2 DEF KeysFresh, Key
  <2>4. WallRemembers'
    BY <2>2 DEF WallRemembers
  <2> QED
    BY <2>1, <2>2, <2>3, <2>4
<1>5. ASSUME NEW v \in Visits, MissAtIncrement(v) PROVE IInv'
  <2> USE <1>5 DEF MissAtIncrement, ReceiptsRolledBack
  <2>1. TypeOK' /\ StartsNear' /\ LockIsIncrement'
    OBVIOUS
  <2>2. TallyKept' /\ CountedKeys' = CountedKeys
    BY TallyUntouched
  <2>3. KeysFresh'
    BY <2>2 DEF KeysFresh, Key
  <2>4. WallRemembers'
    BY <2>2 DEF WallRemembers
  <2> QED
    BY <2>1, <2>2, <2>3, <2>4
<1>6. ASSUME NEW v \in Visits, Commit(v) PROVE IInv'
  <2> USE <1>6 DEF Commit, LockAfterCommit
  <2>1. /\ count' \in 0..Cardinality(Visits)
        /\ counted' \subseteq [by : Visits, key : Keys, number : Nat]
        /\ CountedKeys' = CountedKeys \cup {Key(v)}
        /\ Key(v) \notin CountedKeys
        /\ Counters' = Counters \cup {v}
    BY CommitCounts
  <2>2. Key(v) \in Keys /\ receipts' \subseteq receipts \cup {Key(v)}
    BY DEF Key, Keys
  <2>3. TypeOK'
    BY <2>1, <2>2
  <2>4. StartsNear' /\ LockIsIncrement'
    OBVIOUS
  <2>5. KeysFresh'
    BY <2>1 DEF KeysFresh, Key
  <2>6. WallRemembers'
    <3>1. \A k \in Expired(v) : ~(k[2] > day - Retention)
      BY DEF Expired, Keys
    <3> QED
      BY <2>1, <2>2, <3>1 DEF WallRemembers
  <2>7. TallyKept'
    <3>1. \A w \in Visits : pc'[w] \in {"idle"} \cup Open => w \notin Counters'
      BY <2>1 DEF TallyKept
    <3> QED
      BY <3>1, CommitCounts DEF TallyKept
  <2> QED
    BY <2>3, <2>4, <2>5, <2>6, <2>7
<1>7. ASSUME NEW v \in Visits, Die(v) PROVE IInv'
  <2> USE <1>7 DEF Die
  <2>1. TypeOK' /\ StartsNear' /\ LockIsIncrement'
    OBVIOUS
  <2>2. TallyKept' /\ CountedKeys' = CountedKeys
    BY TallyUntouched
  <2>3. KeysFresh'
    BY <2>2 DEF KeysFresh, Key
  <2>4. WallRemembers'
    BY <2>2 DEF WallRemembers
  <2> QED
    BY <2>1, <2>2, <2>3, <2>4
<1>8. CASE Hide \/ Show \/ UNCHANGED vars
  <2>1. TypeOK' /\ StartsNear' /\ LockIsIncrement'
    <3>1. CASE Hide
      BY <3>1 DEF Hide
    <3>2. CASE Show
      BY <3>2 DEF Show
    <3>3. CASE UNCHANGED vars
      BY <3>3 DEF vars
    <3> QED
      BY <1>8, <3>1, <3>2, <3>3
  <2>2. UNCHANGED <<day, count, receipts, pc, token, start, counted>>
    BY <1>8 DEF Hide, Show, vars
  <2>3. TallyKept' /\ CountedKeys' = CountedKeys
    BY <2>2, TallyUntouched
  <2>4. KeysFresh' /\ WallRemembers'
    BY <2>2, <2>3 DEF KeysFresh, Key, WallRemembers
  <2> QED
    BY <2>1, <2>3, <2>4
<1>9. CASE Midnight
  <2> USE <1>9 DEF Midnight
  <2>1. TypeOK' /\ StartsNear' /\ LockIsIncrement'
    OBVIOUS
  <2>2. TallyKept' /\ CountedKeys' = CountedKeys
    BY TallyUntouched
  <2>3. KeysFresh'
    BY <2>2 DEF KeysFresh, Key
  <2>4. WallRemembers'
    <3>1. \A k \in CountedKeys : k[2] \in Nat
      BY DEF CountedKeys, Keys
    <3> QED
      BY <2>2, <3>1 DEF WallRemembers
  <2> QED
    BY <2>1, <2>2, <2>3, <2>4
<1> QED
  BY <1>1, <1>2, <1>3, <1>4, <1>5, <1>6, <1>7, <1>8, <1>9 DEF Next, Serve

-----------------------------------------------------------------------------
(* The theorems *)

\* The invariant holds of every reachable state.
THEOREM CountingInvariance == Spec => []IInv
  BY InitIInv, NextIInv, PTL DEF Spec

\* The visitors were told the numbers 1 to visits, each once.
THEOREM NumbersAlwaysTally == Spec => []NumbersAreTally
<1>1. IInv => NumbersAreTally
  BY DEF IInv, TallyKept, NumbersAreTally
<1> QED
  BY CountingInvariance, <1>1, PTL

\* Every receipt stands for a counted visit, and a counted visit keeps its
\* receipt as long as a request of its day can still run, prunes included.
THEOREM ReceiptsAlwaysStand == Spec => []ReceiptsStandForCounts
<1>1. IInv => ReceiptsStandForCounts
  BY DEF IInv, WallRemembers, ReceiptsStandForCounts
<1> QED
  BY CountingInvariance, <1>1, PTL

\* The counter moves at a commit only.
LEMMA OnlyCommitCounts ==
  ASSUME [Next]_vars
  PROVE  (\E v \in Visits : Commit(v)) \/ UNCHANGED <<count, counted>>
<1>1. ASSUME NEW v \in Visits, Resolve(v) \/ Serve(v) \/ Die(v)
      PROVE  Commit(v) \/ UNCHANGED <<count, counted>>
  BY <1>1 DEF Resolve, Serve, Insert, AnswerRepeated, Increment, MissAtIncrement, Die
<1>2. CASE Hide \/ Show \/ Midnight \/ UNCHANGED vars
  BY <1>2 DEF Hide, Show, Midnight, vars
<1> QED
  BY <1>1, <1>2 DEF Next

\* No visit is counted on a hidden post.
THEOREM HiddenNeverCounted == Spec => CountsOnlyVisible
<1>1. IInv /\ [Next]_vars => [count' # count => visible]_vars
  BY OnlyCommitCounts DEF IInv, LockIsIncrement, Commit
<1> QED
  BY CountingInvariance, <1>1, PTL DEF Spec, CountsOnlyVisible

\* The verb implements the ledger: a commit counts its pair, which was not
\* counted before, and no other step touches ledger or tally.
THEOREM LedgerImplemented == Spec => CountsEachPairOnce
<1>1. Init => Ledger!Init
  BY DEF Init, Ledger!Init, CountedKeys
<1>2. IInv /\ [Next]_vars => [Ledger!Next]_(Ledger!vars)
  <2> SUFFICES ASSUME IInv, [Next]_vars PROVE Ledger!Next \/ UNCHANGED Ledger!vars
    OBVIOUS
  <2>1. ASSUME NEW v \in Visits, Commit(v) PROVE Ledger!Next
    <3>1. Ledger!Count(token[v], start[v])
      BY <2>1, CommitCounts DEF Ledger!Count, Key
    <3>2. token[v] \in Tokens /\ start[v] \in Days
      BY DEF IInv, TypeOK
    <3> QED
      BY <3>1, <3>2 DEF Ledger!Next
  <2>2. CASE UNCHANGED <<count, counted>>
    BY <2>2 DEF Ledger!vars, CountedKeys
  <2> QED
    BY <2>1, <2>2, OnlyCommitCounts
<1> QED
  BY <1>1, <1>2, CountingInvariance, PTL DEF Spec, CountsEachPairOnce, Ledger!Spec

=============================================================================
