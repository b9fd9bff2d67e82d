-------------------------- MODULE TagLinksProofs ------------------------------
(***************************************************************************)
(* Theorems about TagLinks, for any number of connections, posts, tags,    *)
(* categories and links, and lists of any length.                          *)
(***************************************************************************)
EXTENDS TagLinks, SequenceTheorems, TLAPS

-----------------------------------------------------------------------------
(* The inductive invariant: transactions and rows *)

\* What a transaction is about.
Subjects ==
  \A t \in Txs :
    /\ pc[t] \in Setting \cup {"loading", "touching"} => subject[t] \in Posts
    /\ pc[t] \in Untagging => subject[t] \in Tags
    /\ pc[t] \in {"counting", "counted"} => subject[t] \in Categories
    /\ pc[t] = "touching" => holds[t] \in Links /\ asked[t][1] \in Tags
    /\ pc[t] \notin Inserting => upto[t] = 0

\* A row names a tag, and a tag that is not there has no category.
RowsWhole ==
  /\ \A l \in Rows : linkTag[l] \in Tags
  /\ \A k \in Tags : tagRow[k] = "absent" => category[k] = None

\* Who has inserted or deleted a link is in the middle of it; a DELETE looks at committed
\* links only.
Owners ==
  /\ \A l \in Links : inserter[l] # None =>
       pc[inserter[l]] \in Inserting /\ linkPost[l] = subject[inserter[l]]
  /\ \A l \in Links : deleter[l] # None =>
       pc[deleter[l]] \in Deleting \cup {"inserting", "removed"} /\ inserter[l] = None
  /\ \A t \in Txs : \A l \in todo[t] : inserter[l] = None
  /\ \A t \in Txs : todo[t] # {} => pc[t] \in Deleting

\* A row that is being updated is committed, and nobody has deleted it.
Held ==
  \A t \in Txs : holds[t] # None =>
    holds[t] \in Rows /\ inserter[holds[t]] = None /\ deleter[holds[t]] = None

\* A tag row goes with every link that names it.
RemovalTotal ==
  \A t \in Txs : pc[t] = "removed" =>
    \A l \in Rows : linkTag[l] = subject[t] => deleter[l] = t

\* The foreign keys.
KeysHold ==
  /\ \A l \in Rows : tagRow[linkTag[l]] # "absent"
  /\ \A k \in Tags : category[k] # None => categoryRow[category[k]] # "absent"

Tables == Subjects /\ RowsWhole /\ Owners /\ Held /\ RemovalTotal /\ KeysHold

-----------------------------------------------------------------------------
(* The inductive invariant: a set that nobody crosses *)

\* While it clears, every link of the post is one of the snapshot.
Clears ==
  \A t \in Txs \ crossed : pc[t] = "clearing" =>
    \A l \in Rows : linkPost[l] = subject[t] =>
      inserter[l] = None /\ (l \in todo[t] \/ deleter[l] = t)

\* While it inserts, every link of the post is one it deleted or one it inserted, and those
\* are of the tags it has come through.
HalfSet(t) ==
  /\ upto[t] \in 0..Len(asked[t])
  /\ \A l \in Rows : linkPost[l] = subject[t] => inserter[l] = t \/ deleter[l] = t
  /\ \A i \in 1..upto[t] : \E l \in Inserted(t) : linkTag[l] = asked[t][i]
  /\ \A l \in Inserted(t) : \E i \in 1..upto[t] : linkTag[l] = asked[t][i]

Inserts == \A t \in Txs \ crossed : pc[t] = "inserting" => HalfSet(t)

Sets == Clears /\ Inserts

-----------------------------------------------------------------------------
(* Requests and types *)

\* A request is a sequence of tags that is not too long.
LEMMA RequestShape ==
  /\ <<>> \in Requests
  /\ \A k \in Tags : <<k>> \in Requests
  /\ \A q \in Requests : /\ q \in Seq(Tags)
                         /\ Len(q) \in 0..MaxAsked
                         /\ \A i \in 1..Len(q) : q[i] \in Tags
<1>1. <<>> \in [1..0 -> Tags]
  OBVIOUS
<1>2. ASSUME NEW n \in 0..MaxAsked, NEW q \in [1..n -> Tags]
      PROVE  q \in Seq(Tags) /\ Len(q) = n
  <2>1. n \in Nat
    BY MaxAskedAssumption
  <2>2. q \in Seq(Tags)
    BY <2>1, SeqDef
  <2> QED
    BY <2>1, <2>2, LenProperties
<1>3. ASSUME NEW k \in Tags PROVE <<k>> \in [1..1 -> Tags]
  OBVIOUS
<1> QED
  BY <1>1, <1>2, <1>3, MaxAskedAssumption DEF Requests

\* Every step keeps the types.
LEMMA NextTypeOK == TypeOK /\ Tables /\ [Next]_vars => TypeOK'
<1> SUFFICES ASSUME TypeOK, Tables, [Next]_vars PROVE TypeOK'
  OBVIOUS
<1> USE NoneAssumption
    DEF TypeOK, Rows, RowStates, Ended, Setting, Inserting, Untagging, Others, Deleting, tables, links, scratch
<1>0. <<>> \in Requests /\ 0 \in 0..MaxAsked
  BY RequestShape, MaxAskedAssumption
<1> DEFINE
  TableTypes == /\ tagRow \in [Tags -> RowStates]
                /\ category \in [Tags -> Categories \cup {None}]
                /\ categoryRow \in [Categories -> RowStates]
  LinkTypes == /\ linkPost \in [Links -> Posts \cup {None}]
               /\ linkTag \in [Links -> Tags \cup {None}]
               /\ trashed \subseteq Rows
               /\ inserter \in [Links -> Txs \cup {None}]
               /\ deleter \in [Links -> Txs \cup {None}]
               /\ \A l \in Links \ Rows : inserter[l] = None /\ deleter[l] = None
  TxTypes == /\ pc \in [Txs -> Ended \cup Setting \cup Untagging \cup Others]
             /\ holds \in [Txs -> Links \cup {None}]
             /\ subject \in [Txs -> Posts \cup Tags \cup Categories \cup {None}]
             /\ asked \in [Txs -> Requests]
             /\ upto \in [Txs -> 0..MaxAsked]
             /\ todo \in [Txs -> SUBSET Links]
             /\ crossed \subseteq Txs
<1>a. ASSUME NEW t \in Txs, NEW gone, gone = Deleted(t) \/ gone = Inserted(t), Settle(t, gone)
      PROVE  LinkTypes'
  <2>1. /\ linkPost' \in [Links -> Posts \cup {None}]
        /\ linkTag' \in [Links -> Tags \cup {None}]
        /\ inserter' \in [Links -> Txs \cup {None}]
        /\ deleter' \in [Links -> Txs \cup {None}]
    BY <1>a DEF Settle
  <2>2. trashed' \subseteq Rows'
    BY <1>a DEF Settle
  <2>3. ASSUME NEW l \in Links \ Rows' PROVE inserter'[l] = None /\ deleter'[l] = None
    <3>1. CASE l \in gone
      BY <1>a, <2>3, <3>1 DEF Settle, Deleted, Inserted, Tables, Owners
    <3>2. CASE l \notin gone
      BY <1>a, <2>3, <3>2 DEF Settle
    <3> QED
      BY <3>1, <3>2
  <2> QED
    BY <2>1, <2>2, <2>3
<1>b. ASSUME NEW t \in Txs, NEW outcome \in Ended, Forget(t, outcome) PROVE TxTypes'
  BY <1>b, <1>0 DEF Forget, Leave
<1>c. TableTypes' /\ LinkTypes' /\ TxTypes' => TypeOK'
  OBVIOUS
<1>d. UNCHANGED tables => TableTypes'
  OBVIOUS
<1>e. UNCHANGED links => LinkTypes'
  OBVIOUS
<1> HIDE DEF TableTypes, LinkTypes, TxTypes
<1>1. ASSUME NEW t \in Txs, SetStep(t) PROVE TypeOK'
  <2>1. ASSUME NEW p \in Posts, NEW ks \in Requests, StartSet(t, p, ks) PROVE TypeOK'
    BY <2>1 DEF StartSet, LinksOf, Committed
  <2>2. CASE Cleared(t)
    BY <2>2 DEF Cleared
  <2>3. CASE InsertLink(t)
    <3>1. CASE Rollback(t, "failed") /\ UNCHANGED tables
      BY ONLY <3>1, <1>a, <1>b, <1>c, <1>d DEF Rollback, Ended
    <3>2. CASE ~Rollback(t, "failed")
      <4>1. /\ upto[t] < Len(asked[t])
            /\ subject[t] \in Posts
            /\ asked[t][upto[t] + 1] \in Tags
            /\ upto'[t] \in 0..MaxAsked
        BY <2>3, <3>2, RequestShape, MaxAskedAssumption DEF InsertLink, Tables, Subjects
      <4>2. TableTypes'
        BY <2>3, <1>d DEF InsertLink
      <4>3. PICK l \in Links :
              /\ linkPost' = [linkPost EXCEPT ![l] = subject[t]]
              /\ linkTag' = [linkTag EXCEPT ![l] = asked[t][upto[t] + 1]]
              /\ inserter' = [inserter EXCEPT ![l] = t]
              /\ UNCHANGED <<trashed, deleter>>
        BY <2>3, <3>2 DEF InsertLink
      <4>4. LinkTypes'
        BY <4>1, <4>3 DEF LinkTypes
      <4>5. TxTypes'
        <5>1. /\ upto' = [upto EXCEPT ![t] = @ + 1]
              /\ crossed' = crossed \cup (Setters(subject[t]) \ {t})
              /\ UNCHANGED <<pc, holds, subject, asked, todo>>
          BY <2>3, <3>2 DEF InsertLink
        <5>2. crossed' \subseteq Txs
          BY <5>1 DEF Setters
        <5>3. upto' \in [Txs -> 0..MaxAsked]
          BY <5>1, <4>1
        <5> QED
          BY <5>1, <5>2, <5>3 DEF TxTypes
      <4> QED
        BY <4>2, <4>4, <4>5, <1>c
    <3> QED
      BY <2>3, <3>1, <3>2 DEF InsertLink
  <2>4. CASE CommitSet(t)
    BY <2>4, <1>a, <1>b, <1>c, <1>d DEF CommitSet, Commit
  <2> QED
    BY <1>1, <2>1, <2>2, <2>3, <2>4 DEF SetStep
<1>2. ASSUME NEW t \in Txs, DeleteStep(t) PROVE TypeOK'
  <2>1. ASSUME NEW k \in Tags, LookTag(t, k) PROVE TypeOK'
    BY <2>1 DEF LookTag
  <2>2. CASE StartUntag(t)
    BY <2>2 DEF StartUntag, Committed
  <2>3. CASE RemoveTag(t)
    <3>1. CASE Rollback(t, "failed") /\ UNCHANGED tables
      BY ONLY <3>1, <1>a, <1>b, <1>c, <1>d DEF Rollback, Ended
    <3>2. CASE ~Rollback(t, "failed")
      BY <2>3, <3>2 DEF RemoveTag
    <3> QED
      BY <2>3, <3>1, <3>2 DEF RemoveTag
  <2>4. CASE CommitRemoval(t)
    <3>1. TableTypes'
      BY <2>4 DEF CommitRemoval, TableTypes
    <3> QED
      BY <2>4, <3>1, <1>a, <1>b, <1>c DEF CommitRemoval, Commit
  <2>5. ASSUME NEW c \in Categories, LookCategory(t, c) PROVE TypeOK'
    BY <2>5 DEF LookCategory
  <2>6. CASE CountTags(t)
    <3>1. TxTypes'
      <4>1. CASE Forget(t, "idle")
        BY <4>1, <1>b
      <4>2. CASE ~Forget(t, "idle")
        BY <2>6, <4>2 DEF CountTags, TxTypes
      <4> QED
        BY <4>1, <4>2
    <3> QED
      BY <2>6, <3>1, <1>c, <1>d, <1>e DEF CountTags
  <2>7. CASE RemoveCategory(t)
    <3>1. TableTypes'
      BY <2>7 DEF RemoveCategory, TableTypes
    <3>2. TxTypes'
      BY <2>7, <1>b DEF RemoveCategory
    <3> QED
      BY <2>7, <3>1, <3>2, <1>c, <1>e DEF RemoveCategory
  <2> QED
    BY <1>2, <2>1, <2>2, <2>3, <2>4, <2>5, <2>6, <2>7 DEF DeleteStep
<1>3. ASSUME NEW t \in Txs, Die(t) PROVE TypeOK'
  BY <1>3, <1>a, <1>b, <1>c, <1>d DEF Die, Rollback
<1>4. ASSUME NEW t \in Txs, NEW l \in Links, DeleteLink(t, l) PROVE TypeOK'
  BY <1>4 DEF DeleteLink
<1>5. CASE SingleVerb
  <2>1. ASSUME NEW k \in Tags, NEW c \in Categories \cup {None},
               CreateTag(k, c) \/ RecategorizeTag(k, c)
        PROVE  TypeOK'
    <3>1. TableTypes'
      <4>1. CASE CreateTag(k, c)
        BY <4>1 DEF CreateTag, TableTypes
      <4>2. CASE RecategorizeTag(k, c)
        BY <4>2 DEF RecategorizeTag, TableTypes
      <4> QED
        BY <2>1, <4>1, <4>2
    <3>2. TxTypes'
      BY <2>1 DEF CreateTag, RecategorizeTag, TxTypes
    <3> QED
      BY <2>1, <3>1, <3>2, <1>c, <1>e DEF CreateTag, RecategorizeTag
  <2>2. ASSUME NEW c \in Categories, CreateCategory(c) PROVE TypeOK'
    BY <2>2 DEF CreateCategory
  <2> QED
    BY <1>5, <2>1, <2>2 DEF SingleVerb
<1>6. CASE GenericWrite
  <2>1. ASSUME NEW k \in Tags, TurnTag(k) \/ PurgeTag(k) PROVE TypeOK'
    BY <2>1 DEF TurnTag, PurgeTag
  <2>2. ASSUME NEW c \in Categories, TurnCategory(c) \/ PurgeCategory(c) PROVE TypeOK'
    BY <2>2 DEF TurnCategory, PurgeCategory
  <2>3. ASSUME NEW p \in Posts, NEW k \in Tags, CreateLink(p, k) PROVE TypeOK'
    BY <2>3 DEF CreateLink, Setters, Unused
  <2>4. ASSUME NEW l \in Links, TrashLink(l) \/ PurgeLink(l) PROVE TypeOK'
    BY <2>4 DEF TrashLink, PurgeLink, Free
  <2> QED
    BY <1>6, <2>1, <2>2, <2>3, <2>4 DEF GenericWrite
<1>7. ASSUME NEW t \in Txs, GenericStep(t) PROVE TypeOK'
  <2>1. CASE StartEmpty(t)
    BY <2>1 DEF StartEmpty, Committed
  <2>2. CASE Emptied(t)
    BY <2>2, <1>a, <1>b, <1>c, <1>d DEF Emptied, Commit
  <2>3. ASSUME NEW p \in Posts, NEW ks \in Requests, StartLoad(t, p, ks) PROVE TypeOK'
    BY <2>3 DEF StartLoad
  <2>4. ASSUME NEW l \in Links, NEW p \in Posts, NEW k \in Tags, TouchLink(t, l, p, k)
        PROVE  TypeOK'
    BY <2>4, RequestShape DEF TouchLink
  <2>5. ASSUME NEW live \in BOOLEAN, WriteLink(t, live) PROVE TypeOK'
    <3>1. CASE Rollback(t, "failed") /\ UNCHANGED tables
      BY ONLY <3>1, <1>a, <1>b, <1>c, <1>d DEF Rollback, Ended
    <3>2. CASE ~Rollback(t, "failed")
      <4>1. /\ pc[t] = "touching"
            /\ linkPost' = [linkPost EXCEPT ![holds[t]] = subject[t]]
            /\ linkTag' = [linkTag EXCEPT ![holds[t]] = asked[t][1]]
            /\ trashed' \subseteq trashed
            /\ Leave(t, "done")
            /\ crossed' \subseteq crossed \cup Setters(subject[t])
            /\ UNCHANGED <<tables, inserter, deleter>>
        BY <2>5, <3>2 DEF WriteLink
      <4>2. holds[t] \in Links /\ subject[t] \in Posts /\ asked[t][1] \in Tags
        BY <4>1 DEF Tables, Subjects
      <4>3. LinkTypes'
        BY <4>1, <4>2 DEF LinkTypes
      <4>4. TxTypes'
        BY <4>1, <1>0 DEF Leave, Setters, TxTypes
      <4> QED
        BY <4>1, <4>3, <4>4, <1>c, <1>d
    <3> QED
      BY <2>5, <3>1, <3>2 DEF WriteLink
  <2> QED
    BY <1>7, <2>1, <2>2, <2>3, <2>4, <2>5 DEF GenericStep
<1>8. CASE UNCHANGED vars
  BY <1>8 DEF vars
<1> QED
  BY <1>1, <1>2, <1>3, <1>4, <1>5, <1>6, <1>7, <1>8 DEF Next

-----------------------------------------------------------------------------
(* Transactions, rows and foreign keys *)

\* Every step keeps them.
LEMMA NextTables == TypeOK /\ Tables /\ [Next]_vars => Tables'
<1> SUFFICES ASSUME TypeOK, Tables, [Next]_vars PROVE Tables'
  OBVIOUS
<1> USE NoneAssumption
    DEF TypeOK, Rows, RowStates, Ended, Setting, Inserting, Untagging, Others, Deleting, tables, links, scratch,
        Subjects, RowsWhole, Owners, Held, RemovalTotal, KeysHold, Tables
<1>1. ASSUME NEW t \in Txs, NEW outcome \in Ended, Rollback(t, outcome), UNCHANGED tables
      PROVE  Tables'
  <2> USE <1>1 DEF Rollback, Settle, Inserted, Forget, Leave
  <2>1. Subjects'
    OBVIOUS
  <2>2. RowsWhole'
    OBVIOUS
  <2>3. Owners'
    OBVIOUS
  <2>4. RemovalTotal'
    OBVIOUS
  <2>5. KeysHold'
    OBVIOUS
  <2>6. Held'
    OBVIOUS
  <2> QED
    BY ONLY <2>1, <2>2, <2>3, <2>4, <2>5, <2>6 DEF Tables
<1>2. ASSUME NEW t \in Txs, SetStep(t) PROVE Tables'
  <2>1. ASSUME NEW p \in Posts, NEW ks \in Requests, StartSet(t, p, ks) PROVE Tables'
    BY <2>1 DEF StartSet, LinksOf, Committed
  <2>2. CASE Cleared(t)
    BY <2>2 DEF Cleared
  <2>3. CASE InsertLink(t)
    <3>1. CASE Rollback(t, "failed") /\ UNCHANGED tables
      BY <3>1, <1>1
    <3>2. CASE ~Rollback(t, "failed")
      <4> DEFINE p == subject[t]
                 k == asked[t][upto[t] + 1]
      <4>1. /\ pc[t] \in Inserting
            /\ upto[t] < Len(asked[t])
            /\ k \in Tags
        BY <2>3, RequestShape, MaxAskedAssumption DEF InsertLink
      <4>2. TagLocks(k) = {} /\ TagThere(k) /\ UNCHANGED tables
        BY <2>3, <3>2 DEF InsertLink
      <4>3. PICK l \in Links :
              /\ Unused(l)
              /\ linkPost' = [linkPost EXCEPT ![l] = p]
              /\ linkTag' = [linkTag EXCEPT ![l] = k]
              /\ inserter' = [inserter EXCEPT ![l] = t]
              /\ UNCHANGED <<trashed, deleter, pc, holds, subject, asked, todo>>
              /\ upto' = [upto EXCEPT ![t] = @ + 1]
        BY <2>3, <3>2 DEF InsertLink
      <4> HIDE DEF k
      <4> QED
        BY <4>1, <4>2, <4>3 DEF Unused, TagLocks, TagThere
    <3> QED
      BY <2>3, <3>1, <3>2 DEF InsertLink
  <2>4. CASE CommitSet(t)
    BY <2>4 DEF CommitSet, Commit, Settle, Deleted, Forget, Leave
  <2> QED
    BY <1>2, <2>1, <2>2, <2>3, <2>4 DEF SetStep
<1>3. ASSUME NEW t \in Txs, DeleteStep(t) PROVE Tables'
  <2>1. ASSUME NEW k \in Tags, LookTag(t, k) PROVE Tables'
    BY <2>1 DEF LookTag
  <2>2. CASE StartUntag(t)
    BY <2>2 DEF StartUntag, Committed
  <2>3. CASE RemoveTag(t)
    <3>1. CASE Rollback(t, "failed") /\ UNCHANGED tables
      BY <3>1, <1>1
    <3>2. CASE ~Rollback(t, "failed")
      <4> DEFINE k == subject[t]
      <4>1. /\ pc[t] = "untagging"
            /\ todo[t] = {}
            /\ KeyShares(k) \subseteq {None, t}
            /\ tagRow[k] = "absent" \/ LeftBehind(t, k) = {}
            /\ pc' = [pc EXCEPT ![t] = "removed"]
            /\ UNCHANGED <<tables, links, scratch>>
        BY <2>3, <3>2 DEF RemoveTag, RemovalBlockers
      <4>2. ASSUME NEW l \in Rows, linkTag[l] = k PROVE deleter[l] = t
        <5>1. LeftBehind(t, k) = {}
          BY <4>1, <4>2
        <5>2. inserter[l] # None => inserter[l] \in KeyShares(k)
          BY ONLY <4>2 DEF KeyShares, Rows
        <5>3. inserter[l] = None
          BY <4>1, <5>2
        <5> QED
          BY <4>2, <5>1, <5>3 DEF LeftBehind, Committed
      <4>3. Subjects'
        BY <4>1
      <4>4. RowsWhole' /\ KeysHold'
        BY <4>1
      <4>5. Owners'
        BY <4>1
      <4>6. RemovalTotal'
        BY <4>1, <4>2
      <4>7. Held'
        BY <4>1
      <4> QED
        BY ONLY <4>3, <4>4, <4>5, <4>6, <4>7 DEF Tables
    <3> QED
      BY <2>3, <3>1, <3>2 DEF RemoveTag
  <2>4. CASE CommitRemoval(t)
    BY <2>4 DEF CommitRemoval, Commit, Settle, Deleted, Forget, Leave
  <2>5. ASSUME NEW c \in Categories, LookCategory(t, c) PROVE Tables'
    BY <2>5 DEF LookCategory
  <2>6. CASE CountTags(t)
    <3>1. CASE Forget(t, "idle")
      BY <2>6, <3>1 DEF CountTags, Forget, Leave
    <3>2. CASE ~Forget(t, "idle")
      BY <2>6, <3>2 DEF CountTags
    <3> QED
      BY <3>1, <3>2
  <2>7. CASE RemoveCategory(t)
    <3>1. /\ pc[t] = "counted"
          /\ \E outcome \in Ended : Forget(t, outcome)
          /\ UNCHANGED <<tagRow, category, links>>
      BY <2>7 DEF RemoveCategory
    <3>2. Subjects'
      BY <3>1 DEF Forget, Leave
    <3>3. RowsWhole'
      BY <3>1
    <3>4. Owners'
      BY <3>1 DEF Forget, Leave
    <3>5. RemovalTotal'
      BY <3>1 DEF Forget, Leave
    <3>6. KeysHold'
      <4>1. \A k \in Tags : category[k] # None => categoryRow'[category[k]] # "absent"
        BY <2>7 DEF RemoveCategory, Ungrouped, Grouped
      <4> QED
        BY <3>1, <4>1
    <3>7. Held'
      BY <3>1 DEF Forget, Leave
    <3> QED
      BY ONLY <3>2, <3>3, <3>4, <3>5, <3>6, <3>7 DEF Tables
  <2> QED
    BY <1>3, <2>1, <2>2, <2>3, <2>4, <2>5, <2>6, <2>7 DEF DeleteStep
<1>4. ASSUME NEW t \in Txs, Die(t) PROVE Tables'
  BY <1>4, <1>1 DEF Die
<1>5. ASSUME NEW t \in Txs, NEW l \in Links, DeleteLink(t, l) PROVE Tables'
  BY <1>5 DEF DeleteLink, Holders
<1>6. CASE SingleVerb
  <2>1. ASSUME NEW k \in Tags, NEW c \in Categories \cup {None}, CreateTag(k, c) PROVE Tables'
    BY <2>1 DEF CreateTag, Known
  <2>2. ASSUME NEW k \in Tags, NEW c \in Categories \cup {None}, RecategorizeTag(k, c)
        PROVE  Tables'
    BY <2>2 DEF RecategorizeTag, Known
  <2>3. ASSUME NEW c \in Categories, CreateCategory(c) PROVE Tables'
    BY <2>3 DEF CreateCategory
  <2> QED
    BY <1>6, <2>1, <2>2, <2>3 DEF SingleVerb
<1>7. CASE GenericWrite
  <2>1. ASSUME NEW k \in Tags, TurnTag(k) PROVE Tables'
    BY <2>1 DEF TurnTag
  <2>2. ASSUME NEW k \in Tags, PurgeTag(k) PROVE Tables'
    BY <2>2 DEF PurgeTag
  <2>3. ASSUME NEW c \in Categories, TurnCategory(c) PROVE Tables'
    BY <2>3 DEF TurnCategory
  <2>4. ASSUME NEW c \in Categories, PurgeCategory(c) PROVE Tables'
    BY <2>4 DEF PurgeCategory, Ungrouped, Grouped
  <2>5. ASSUME NEW p \in Posts, NEW k \in Tags, CreateLink(p, k) PROVE Tables'
    BY <2>5 DEF CreateLink, TagThere, TagLocks, Unused
  <2>6. ASSUME NEW l \in Links, TrashLink(l) \/ PurgeLink(l) PROVE Tables'
    <3>1. CASE TrashLink(l)
      BY <3>1 DEF TrashLink, Free
    <3>2. CASE PurgeLink(l)
      BY <3>2 DEF PurgeLink, Free, Holders
    <3> QED
      BY <2>6, <3>1, <3>2
  <2> QED
    BY <1>7, <2>1, <2>2, <2>3, <2>4, <2>5, <2>6 DEF GenericWrite
<1>8. ASSUME NEW t \in Txs, GenericStep(t) PROVE Tables'
  <2>1. CASE StartEmpty(t)
    BY <2>1 DEF StartEmpty, Committed
  <2>2. CASE Emptied(t)
    BY <2>2 DEF Emptied, Commit, Settle, Deleted, Forget, Leave
  <2>3. ASSUME NEW p \in Posts, NEW ks \in Requests, StartLoad(t, p, ks) PROVE Tables'
    BY <2>3 DEF StartLoad
  <2>4. ASSUME NEW l \in Links, NEW p \in Posts, NEW k \in Tags, TouchLink(t, l, p, k)
        PROVE  Tables'
    BY <2>4 DEF TouchLink, Free
  <2>5. ASSUME NEW live \in BOOLEAN, WriteLink(t, live) PROVE Tables'
    <3>1. CASE Rollback(t, "failed") /\ UNCHANGED tables
      BY <3>1, <1>1
    <3>2. CASE ~Rollback(t, "failed")
      <4> DEFINE l == holds[t]
                 k == asked[t][1]
      <4>1. /\ pc[t] = "touching"
            /\ k # linkTag[l] => TagLocks(k) = {} /\ TagThere(k)
            /\ linkPost' = [linkPost EXCEPT ![l] = subject[t]]
            /\ linkTag' = [linkTag EXCEPT ![l] = k]
            /\ Leave(t, "done")
            /\ UNCHANGED <<tables, inserter, deleter>>
        BY <2>5, <3>2 DEF WriteLink
      <4>2. /\ l \in Links /\ k \in Tags /\ subject[t] \in Posts
            /\ l \in Rows /\ inserter[l] = None /\ deleter[l] = None
        BY <4>1
      <4> HIDE DEF l, k
      <4> USE <4>1, <4>2 DEF Leave
      <4>3. Subjects'
        OBVIOUS
      <4>4. RowsWhole'
        OBVIOUS
      <4>5. Owners'
        OBVIOUS
      <4>6. Held'
        OBVIOUS
      <4>7. RemovalTotal'
        BY DEF TagLocks
      <4>8. KeysHold'
        BY DEF TagThere
      <4> QED
        BY ONLY <4>3, <4>4, <4>5, <4>6, <4>7, <4>8 DEF Tables
    <3> QED
      BY <2>5, <3>1, <3>2 DEF WriteLink
  <2> QED
    BY <1>8, <2>1, <2>2, <2>3, <2>4, <2>5 DEF GenericStep
<1>9. CASE UNCHANGED vars
  BY <1>9 DEF vars
<1> QED
  BY <1>2, <1>3, <1>4, <1>5, <1>6, <1>7, <1>8, <1>9 DEF Next

-----------------------------------------------------------------------------
(* A set that nobody crosses *)

\* Every step keeps it.
LEMMA NextSets == TypeOK /\ Tables /\ Sets /\ [Next]_vars => Sets'
<1> SUFFICES ASSUME TypeOK, Tables, Sets, [Next]_vars PROVE Sets'
  OBVIOUS
<1> USE NoneAssumption
    DEF TypeOK, Rows, RowStates, Ended, Setting, Inserting, Untagging, Others, Deleting, tables, links, scratch,
        Subjects, Owners, Held, Tables, Clears, Inserts, Sets, Inserted
<1> DEFINE Spared(u) ==
      /\ u \notin crossed
      /\ pc[u] = "inserting"
      /\ upto'[u] = upto[u] /\ asked'[u] = asked[u] /\ subject'[u] = subject[u]
      /\ \A l \in Links : inserter'[l] = u <=> inserter[l] = u
      /\ \A l \in Links : inserter[l] = u => linkTag'[l] = linkTag[l]
      /\ \A l \in Rows' : linkPost'[l] = subject[u] =>
            linkPost[l] = subject[u] /\ (deleter[l] = u => deleter'[l] = u)
<1>f. ASSUME NEW u \in Txs, Spared(u) PROVE HalfSet(u)'
  <2>1. HalfSet(u)
    BY <1>f
  <2>2. Inserted(u)' = Inserted(u)
    BY <1>f
  <2>3. \A l \in Rows' : linkPost'[l] = subject'[u] => inserter'[l] = u \/ deleter'[l] = u
    BY <1>f, <2>1 DEF HalfSet
  <2>4. \A l \in Inserted(u) : linkTag'[l] = linkTag[l]
    BY <1>f
  <2>5. upto'[u] = upto[u] /\ asked'[u] = asked[u]
    BY <1>f
  <2>6. upto'[u] \in 0..Len(asked'[u])
    BY ONLY <2>1, <2>5 DEF HalfSet
  <2>7. ASSUME NEW i \in 1..upto'[u]
        PROVE  \E l \in Inserted(u)' : linkTag'[l] = asked'[u][i]
    <3>1. i \in 1..upto[u]
      BY ONLY <2>5
    <3>2. PICK l \in Inserted(u) : linkTag[l] = asked[u][i]
      BY ONLY <2>1, <3>1 DEF HalfSet
    <3>3. l \in Inserted(u)' /\ linkTag'[l] = linkTag[l]
      BY ONLY <2>2, <2>4, <3>2
    <3> QED
      BY ONLY <2>5, <3>2, <3>3
  <2>8. \A l \in Inserted(u)' : \E i \in 1..upto'[u] : linkTag'[l] = asked'[u][i]
    BY ONLY <2>1, <2>2, <2>4, <2>5 DEF HalfSet
  <2> QED
    BY ONLY <2>3, <2>6, <2>7, <2>8 DEF HalfSet
<1>g. ASSUME UNCHANGED <<links, pc, scratch, crossed>> PROVE Sets'
  <2>1. Clears'
    BY <1>g
  <2>2. \A u \in Txs \ crossed' : pc'[u] = "inserting" => Spared(u)
    BY <1>g
  <2> QED
    BY <2>1, <2>2, <1>f
<1>1. ASSUME NEW t \in Txs, NEW outcome \in Ended, Rollback(t, outcome) PROVE Sets'
  <2> USE <1>1 DEF Rollback, Settle, Forget, Leave
  <2>1. Clears'
    OBVIOUS
  <2>2. \A u \in Txs \ crossed' : pc'[u] = "inserting" => Spared(u)
    OBVIOUS
  <2> QED
    BY ONLY <2>1, <2>2, <1>f DEF Sets, Inserts
<1>2. ASSUME NEW t \in Txs, SetStep(t) PROVE Sets'
  <2>1. ASSUME NEW p \in Posts, NEW ks \in Requests, StartSet(t, p, ks) PROVE Sets'
    <3>1. Clears'
      BY <2>1 DEF StartSet, LinksOf, Committed
    <3>2. \A u \in Txs \ crossed' : pc'[u] = "inserting" => Spared(u)
      BY <2>1 DEF StartSet
    <3> QED
      BY ONLY <3>1, <3>2, <1>f DEF Sets, Inserts
  <2>2. CASE Cleared(t)
    <3> USE <2>2 DEF Cleared
    <3>1. Clears'
      OBVIOUS
    <3>2. \A u \in Txs \ crossed' : u # t /\ pc'[u] = "inserting" => Spared(u)
      OBVIOUS
    <3>3. t \notin crossed => HalfSet(t)'
      <4> SUFFICES ASSUME t \notin crossed PROVE HalfSet(t)'
        OBVIOUS
      <4>0. asked[t] \in Requests /\ pc[t] \notin Inserting
        BY DEF Inserting
      <4>1. upto'[t] = 0 /\ Len(asked'[t]) \in Nat
        BY <4>0, RequestShape, MaxAskedAssumption
      <4>2. \A l \in Rows : linkPost[l] = subject[t] => deleter[l] = t
        OBVIOUS
      <4>3. Inserted(t)' = {}
        OBVIOUS
      <4> QED
        BY <4>1, <4>2, <4>3 DEF HalfSet
    <3> QED
      BY ONLY <3>1, <3>2, <3>3, <1>f, UNCHANGED crossed DEF Sets, Inserts
  <2>3. CASE InsertLink(t)
    <3>1. CASE Rollback(t, "failed")
      BY <3>1, <1>1
    <3>2. CASE ~Rollback(t, "failed")
      <4> DEFINE p == subject[t]
                 k == asked[t][upto[t] + 1]
      <4>1. /\ pc[t] \in Inserting
            /\ upto[t] < Len(asked[t])
            /\ upto' = [upto EXCEPT ![t] = @ + 1]
            /\ crossed' = crossed \cup (Setters(p) \ {t})
        BY <2>3, <3>2 DEF InsertLink
      <4>2. PICK l \in Links :
              /\ Unused(l)
              /\ linkPost' = [linkPost EXCEPT ![l] = p]
              /\ linkTag' = [linkTag EXCEPT ![l] = k]
              /\ inserter' = [inserter EXCEPT ![l] = t]
              /\ UNCHANGED <<trashed, deleter, pc, holds, subject, asked, todo>>
        BY <2>3, <3>2 DEF InsertLink
      <4>3. /\ linkPost[l] = None
            /\ inserter[l] = None
            /\ p \in Posts
            /\ Len(asked[t]) \in Nat
            /\ upto[t] \in Nat
            /\ k \in Tags
        BY <4>1, <4>2, RequestShape, MaxAskedAssumption DEF Unused
      <4>4. Clears'
        BY <4>1, <4>2, <4>3 DEF Setters
      <4>5. \A u \in Txs \ crossed' : u # t /\ pc'[u] = "inserting" => Spared(u)
        BY <4>1, <4>2, <4>3 DEF Setters
      <4>6. t \notin crossed /\ pc[t] = "inserting" => HalfSet(t)'
        <5> SUFFICES ASSUME t \notin crossed, pc[t] = "inserting" PROVE HalfSet(t)'
          OBVIOUS
        <5>1. HalfSet(t)
          BY <4>1
        <5>2. Inserted(t)' = Inserted(t) \cup {l} /\ l \notin Inserted(t)
          BY <4>2, <4>3
        <5>3. upto'[t] = upto[t] + 1 /\ asked'[t] = asked[t] /\ subject'[t] = subject[t]
          BY <4>1, <4>2
        <5>4. linkTag'[l] = k /\ \A m \in Inserted(t) : linkTag'[m] = linkTag[m]
          BY <4>2, <5>2
        <5>5. 1..upto'[t] = 1..upto[t] \cup {upto[t] + 1}
          BY <4>3, <5>3
        <5>6. upto'[t] \in 0..Len(asked'[t])
          BY <4>1, <4>3, <5>3
        <5>7. ASSUME NEW m \in Rows', linkPost'[m] = p PROVE inserter'[m] = t \/ deleter'[m] = t
          BY <4>2, <5>1, <5>7 DEF HalfSet
        <5>8. ASSUME NEW i \in 1..upto'[t]
              PROVE  \E m \in Inserted(t)' : linkTag'[m] = asked'[t][i]
          <6>1. CASE i = upto[t] + 1
            BY ONLY <6>1, <5>2, <5>3, <5>4
          <6>2. CASE i \in 1..upto[t]
            <7>1. PICK m \in Inserted(t) : linkTag[m] = asked[t][i]
              BY ONLY <6>2, <5>1 DEF HalfSet
            <7> QED
              BY ONLY <7>1, <5>2, <5>3, <5>4
          <6> QED
            BY ONLY <5>5, <6>1, <6>2
        <5>9. ASSUME NEW m \in Inserted(t)'
              PROVE  \E i \in 1..upto'[t] : linkTag'[m] = asked'[t][i]
          <6>1. CASE m = l
            <7>1. upto[t] + 1 \in 1..upto'[t]
              BY ONLY <5>5
            <7> QED
              BY ONLY <6>1, <7>1, <5>3, <5>4
          <6>2. CASE m \in Inserted(t)
            <7>1. PICK i \in 1..upto[t] : linkTag[m] = asked[t][i]
              BY ONLY <6>2, <5>1 DEF HalfSet
            <7>2. i \in 1..upto'[t]
              BY ONLY <7>1, <5>5
            <7> QED
              BY ONLY <6>2, <7>1, <7>2, <5>3, <5>4
          <6> QED
            BY ONLY <5>2, <6>1, <6>2
        <5> QED
          BY ONLY <5>3, <5>6, <5>7, <5>8, <5>9 DEF HalfSet
      <4> QED
        BY ONLY <4>1, <4>2, <4>4, <4>5, <4>6, <1>f DEF Sets, Inserts
    <3> QED
      BY <3>1, <3>2
  <2>4. CASE CommitSet(t)
    <3> USE <2>4 DEF CommitSet, Commit, Settle, Deleted, Forget, Leave
    <3>1. Clears'
      OBVIOUS
    <3>2. \A u \in Txs \ crossed' : pc'[u] = "inserting" => Spared(u)
      OBVIOUS
    <3> QED
      BY ONLY <3>1, <3>2, <1>f DEF Sets, Inserts
  <2> QED
    BY <1>2, <2>1, <2>2, <2>3, <2>4 DEF SetStep
<1>3. ASSUME NEW t \in Txs, DeleteStep(t) PROVE Sets'
  <2>1. ASSUME NEW k \in Tags, LookTag(t, k) PROVE Sets'
    <3> USE <2>1 DEF LookTag
    <3>1. Clears'
      OBVIOUS
    <3>2. \A u \in Txs \ crossed' : pc'[u] = "inserting" => Spared(u)
      OBVIOUS
    <3> QED
      BY ONLY <3>1, <3>2, <1>f DEF Sets, Inserts
  <2>2. CASE StartUntag(t)
    <3> USE <2>2 DEF StartUntag, Committed
    <3>1. Clears'
      OBVIOUS
    <3>2. \A u \in Txs \ crossed' : pc'[u] = "inserting" => Spared(u)
      OBVIOUS
    <3> QED
      BY ONLY <3>1, <3>2, <1>f DEF Sets, Inserts
  <2>3. CASE RemoveTag(t)
    <3>1. CASE Rollback(t, "failed")
      BY <3>1, <1>1
    <3>2. CASE ~Rollback(t, "failed")
      <4>1. /\ pc[t] = "untagging"
            /\ pc' = [pc EXCEPT ![t] = "removed"]
            /\ UNCHANGED <<links, scratch, crossed>>
        BY <2>3, <3>2 DEF RemoveTag
      <4>2. Clears'
        BY <4>1
      <4>3. \A u \in Txs \ crossed' : pc'[u] = "inserting" => Spared(u)
        BY <4>1
      <4> QED
        BY ONLY <4>2, <4>3, <1>f DEF Sets, Inserts
    <3> QED
      BY <3>1, <3>2
  <2>4. CASE CommitRemoval(t)
    <3> USE <2>4 DEF CommitRemoval, Commit, Settle, Deleted, Forget, Leave
    <3>1. Clears'
      OBVIOUS
    <3>2. \A u \in Txs \ crossed' : pc'[u] = "inserting" => Spared(u)
      OBVIOUS
    <3> QED
      BY ONLY <3>1, <3>2, <1>f DEF Sets, Inserts
  <2>5. ASSUME NEW c \in Categories, LookCategory(t, c) PROVE Sets'
    <3> USE <2>5 DEF LookCategory
    <3>1. Clears'
      OBVIOUS
    <3>2. \A u \in Txs \ crossed' : pc'[u] = "inserting" => Spared(u)
      OBVIOUS
    <3> QED
      BY ONLY <3>1, <3>2, <1>f DEF Sets, Inserts
  <2>6. CASE CountTags(t)
    <3>1. /\ pc[t] = "counting"
          /\ \/ pc' = [pc EXCEPT ![t] = "counted"] /\ UNCHANGED <<scratch, crossed>>
             \/ Forget(t, "idle")
          /\ UNCHANGED links
      BY <2>6 DEF CountTags
    <3>2. /\ pc'[t] \notin Setting
          /\ \A u \in Txs \ {t} :
               /\ pc'[u] = pc[u] /\ subject'[u] = subject[u] /\ asked'[u] = asked[u]
               /\ upto'[u] = upto[u] /\ todo'[u] = todo[u]
               /\ u \in crossed' <=> u \in crossed
      BY <3>1 DEF Forget, Leave
    <3>3. Clears'
      BY <3>1, <3>2
    <3>4. \A u \in Txs \ crossed' : pc'[u] = "inserting" => Spared(u)
      BY <3>1, <3>2
    <3> QED
      BY ONLY <3>3, <3>4, <1>f DEF Sets, Inserts
  <2>7. CASE RemoveCategory(t)
    <3>1. /\ pc[t] = "counted"
          /\ \E outcome \in Ended : Forget(t, outcome)
          /\ UNCHANGED <<tagRow, category, links>>
      BY <2>7 DEF RemoveCategory
    <3>2. Clears'
      BY <3>1 DEF Forget, Leave
    <3>3. \A u \in Txs \ crossed' : pc'[u] = "inserting" => Spared(u)
      BY <3>1 DEF Forget, Leave
    <3> QED
      BY ONLY <3>2, <3>3, <1>f DEF Sets, Inserts
  <2> QED
    BY <1>3, <2>1, <2>2, <2>3, <2>4, <2>5, <2>6, <2>7 DEF DeleteStep
<1>4. ASSUME NEW t \in Txs, Die(t) PROVE Sets'
  BY <1>4, <1>1 DEF Die
<1>5. ASSUME NEW t \in Txs, NEW l \in Links, DeleteLink(t, l) PROVE Sets'
  <2> USE <1>5 DEF DeleteLink
  <2>1. Clears'
    BY DEF Meant
  <2>2. \A u \in Txs \ crossed' : pc'[u] = "inserting" => Spared(u)
    OBVIOUS
  <2> QED
    BY ONLY <2>1, <2>2, <1>f DEF Sets, Inserts
<1>6. CASE SingleVerb
  BY <1>6, <1>g DEF SingleVerb, CreateTag, RecategorizeTag, CreateCategory
<1>7. CASE GenericWrite
  <2>1. ASSUME NEW k \in Tags, TurnTag(k) \/ PurgeTag(k) PROVE Sets'
    BY <2>1, <1>g DEF TurnTag, PurgeTag
  <2>2. ASSUME NEW c \in Categories, TurnCategory(c) \/ PurgeCategory(c) PROVE Sets'
    BY <2>2, <1>g DEF TurnCategory, PurgeCategory
  <2>3. ASSUME NEW p \in Posts, NEW k \in Tags, CreateLink(p, k) PROVE Sets'
    <3> USE <2>3 DEF CreateLink, Setters, Unused
    <3>1. Clears'
      OBVIOUS
    <3>2. \A u \in Txs \ crossed' : pc'[u] = "inserting" => Spared(u)
      OBVIOUS
    <3> QED
      BY ONLY <3>1, <3>2, <1>f DEF Sets, Inserts
  <2>4. ASSUME NEW l \in Links, TrashLink(l) \/ PurgeLink(l) PROVE Sets'
    <3> USE <2>4 DEF TrashLink, PurgeLink, Free
    <3>1. Clears'
      OBVIOUS
    <3>2. \A u \in Txs \ crossed' : pc'[u] = "inserting" => Spared(u)
      OBVIOUS
    <3> QED
      BY ONLY <3>1, <3>2, <1>f DEF Sets, Inserts
  <2> QED
    BY <1>7, <2>1, <2>2, <2>3, <2>4 DEF GenericWrite
<1>8. ASSUME NEW t \in Txs, GenericStep(t) PROVE Sets'
  <2>1. CASE StartEmpty(t)
    <3> USE <2>1 DEF StartEmpty, Committed
    <3>1. Clears'
      OBVIOUS
    <3>2. \A u \in Txs \ crossed' : pc'[u] = "inserting" => Spared(u)
      OBVIOUS
    <3> QED
      BY ONLY <3>1, <3>2, <1>f DEF Sets, Inserts
  <2>2. CASE Emptied(t)
    <3> USE <2>2 DEF Emptied, Commit, Settle, Deleted, Forget, Leave
    <3>1. Clears'
      OBVIOUS
    <3>2. \A u \in Txs \ crossed' : pc'[u] = "inserting" => Spared(u)
      OBVIOUS
    <3> QED
      BY ONLY <3>1, <3>2, <1>f DEF Sets, Inserts
  <2>3. ASSUME NEW p \in Posts, NEW ks \in Requests, StartLoad(t, p, ks) PROVE Sets'
    <3> USE <2>3 DEF StartLoad
    <3>1. Clears'
      OBVIOUS
    <3>2. \A u \in Txs \ crossed' : pc'[u] = "inserting" => Spared(u)
      OBVIOUS
    <3> QED
      BY ONLY <3>1, <3>2, <1>f DEF Sets, Inserts
  <2>4. ASSUME NEW l \in Links, NEW p \in Posts, NEW k \in Tags, TouchLink(t, l, p, k)
        PROVE  Sets'
    <3> USE <2>4 DEF TouchLink
    <3>1. Clears'
      OBVIOUS
    <3>2. \A u \in Txs \ crossed' : pc'[u] = "inserting" => Spared(u)
      OBVIOUS
    <3> QED
      BY ONLY <3>1, <3>2, <1>f DEF Sets, Inserts
  <2>5. ASSUME NEW live \in BOOLEAN, WriteLink(t, live) PROVE Sets'
    <3>1. CASE Rollback(t, "failed")
      BY <3>1, <1>1
    <3>2. CASE ~Rollback(t, "failed")
      <4> DEFINE l == holds[t]
                 p == subject[t]
      <4>1. /\ pc[t] = "touching"
            /\ linkPost' = [linkPost EXCEPT ![l] = p]
            /\ linkTag' = [linkTag EXCEPT ![l] = asked[t][1]]
            /\ Leave(t, "done")
            /\ crossed' = IF linkPost[l] = p THEN crossed ELSE crossed \cup Setters(p)
            /\ UNCHANGED <<inserter, deleter>>
        BY <2>5, <3>2 DEF WriteLink
      <4>2. l \in Rows /\ inserter[l] = None /\ deleter[l] = None
        BY <4>1
      <4> HIDE DEF l
      <4>3. Clears'
        BY <4>1, <4>2 DEF Leave, Setters
      <4>4. \A u \in Txs \ crossed' : pc'[u] = "inserting" => Spared(u)
        BY <4>1, <4>2 DEF Leave, Setters
      <4> QED
        BY ONLY <4>3, <4>4, <1>f DEF Sets, Inserts
    <3> QED
      BY <3>1, <3>2
  <2> QED
    BY <1>8, <2>1, <2>2, <2>3, <2>4, <2>5 DEF GenericStep
<1>9. CASE UNCHANGED vars
  BY <1>9, <1>g DEF vars
<1> QED
  BY <1>2, <1>3, <1>4, <1>5, <1>6, <1>7, <1>8, <1>9 DEF Next

-----------------------------------------------------------------------------
(* The theorems *)

IInv == TypeOK /\ Tables /\ Sets

\* The initial state satisfies it.
LEMMA InitIInv == Init => IInv
<1> SUFFICES ASSUME Init PROVE IInv
  OBVIOUS
<1>1. TypeOK
  BY RequestShape, MaxAskedAssumption
  DEF Init, TypeOK, Rows, RowStates, Ended, Setting, Untagging, Others
<1>2. Tables /\ Sets
  BY NoneAssumption
  DEF Init, Tables, Subjects, RowsWhole, Owners, Held, RemovalTotal, KeysHold, Sets, Clears,
      Inserts, Rows, Setting, Inserting, Untagging, Deleting
<1> QED
  BY <1>1, <1>2 DEF IInv

\* The invariant holds of every reachable state.
THEOREM LinksInvariance == Spec => []IInv
<1>1. IInv /\ [Next]_vars => IInv'
  BY NextTypeOK, NextTables, NextSets DEF IInv
<1> QED
  BY InitIInv, <1>1, PTL DEF Spec

\* In whatever order retags, deletes of tags and categories, generic writes and dying
\* connections run, every link has its tag and every tag its category.
THEOREM KeysAlwaysHold == Spec => []ReferencesResolve
<1>1. IInv => ReferencesResolve
  BY DEF IInv, Tables, KeysHold, ReferencesResolve
<1> QED
  BY LinksInvariance, <1>1, PTL

\* A tag delete that has its row lock waits for nobody any more.
LEMMA RemovedWaitForNobody ==
  ASSUME NEW k, NEW w \in TagLocks(k)
  PROVE  Waits(w) = {}
BY DEF TagLocks, Waits, Deleting, Inserting

\* A set_tags that nobody crossed waits, once it inserts, for such deletes at most.
LEMMA InsertersWaitForRemoved ==
  ASSUME IInv, NEW v \in Txs \ crossed, pc[v] = "inserting", NEW w \in Waits(v)
  PROVE  Waits(w) = {}
<1> DEFINE k == asked[v][upto[v] + 1]
<1>1. Waits(v) \subseteq PairBlockers(v, subject[v], k) \cup TagLocks(k)
  BY DEF Waits, Deleting, Inserting
<1>2. HalfSet(v)
  BY DEF IInv, Sets, Inserts
<1>3. ASSUME NEW l \in Standing(v, subject[v], k)
      PROVE  inserter[l] = v /\ deleter[l] = None /\ Holders(l) = {}
  <2>1. l \in Links /\ l \in Rows /\ linkPost[l] = subject[v] /\ deleter[l] # v
    BY DEF Standing, Pair, Rows
  <2>2. inserter[l] = v
    BY <1>2, <2>1 DEF HalfSet
  <2> QED
    BY <2>1, <2>2, NoneAssumption DEF IInv, Tables, Owners, Held, Holders
<1>4. PairBlockers(v, subject[v], k) = {}
  BY <1>3 DEF PairBlockers
<1> HIDE DEF k
<1>5. w \in TagLocks(k)
  BY <1>1, <1>4
<1> QED
  BY <1>5, RemovedWaitForNobody

\* Requests that wait for each other in a circle are all at their DELETE of links, or one of
\* them is a set_tags that was crossed, a bulk create, a tag delete that finds links left, or an
\* update of a link that waits in the pair's index.
THEOREM CirclesExplained == Spec => []CyclesExplained
<1>1. ASSUME IInv, NEW S \in SUBSET Txs,
             \A t \in S : Waits(t) \cap S # {},
             \A t \in S : t \notin crossed /\ pc[t] # "loading",
             \A t \in S : ~(pc[t] = "untagging" /\ todo[t] = {} /\ LeftBehind(t, subject[t]) # {}),
             \A t \in S :
               ~(pc[t] = "touching" /\ PairBlockers(t, subject[t], asked[t][1]) \cap S # {})
      PROVE  \A t \in S : todo[t] # {}
  <2>0. ASSUME NEW t \in S, pc[t] = "touching" PROVE FALSE
    <3>1. upto[t] = 0
      BY <1>1, <2>0 DEF IInv, Tables, Subjects, Inserting
    <3>2. Waits(t) \subseteq PairBlockers(t, subject[t], asked[t][1]) \cup TagLocks(asked[t][1])
      BY <2>0, <3>1 DEF Waits, Deleting, Inserting
    <3>3. PICK u \in S : u \in TagLocks(asked[t][1])
      BY <1>1, <2>0, <3>2
    <3> QED
      BY <1>1, <3>3, RemovedWaitForNobody
  <2>1. ASSUME NEW t \in S PROVE pc[t] # "inserting"
    BY <1>1, <2>1, InsertersWaitForRemoved
  <2>2. SUFFICES ASSUME NEW t \in S, todo[t] = {} PROVE FALSE
    OBVIOUS
  <2>3. PICK u \in S : u \in Waits(t)
    BY <1>1
  <2>4. pc[t] = "untagging"
    BY <1>1, <2>0, <2>1, <2>2, <2>3 DEF Waits, Inserting
  <2>5. Waits(t) = RemovalBlockers(t, subject[t]) /\ LeftBehind(t, subject[t]) = {}
    BY <1>1, <2>2, <2>4 DEF Waits, Inserting
  <2>6. u \in KeyShares(subject[t]) \cup TagLocks(subject[t])
    BY <2>3, <2>5 DEF RemovalBlockers
  <2>7. u \notin TagLocks(subject[t])
    BY <1>1, RemovedWaitForNobody
  <2>8. PICK l \in Links : inserter[l] = u /\ u # None
    BY <2>6, <2>7 DEF KeyShares, Rows
  <2>9. pc[u] \in Inserting
    BY <1>1, <2>8 DEF IInv, Tables, Owners
  <2> QED
    BY <1>1, <2>1, <2>9 DEF Inserting
<1>2. IInv => CyclesExplained
  BY <1>1 DEF CyclesExplained
<1> QED
  BY LinksInvariance, <1>2, PTL

\* The commit of a set_tags that nobody crossed, seen from its last state: only inserted
\* links are left to the post, and they are of the tags asked for.
LEMMA CommitStands ==
  ASSUME IInv, NEW t \in Txs \ crossed, pc[t] = "inserting", CommitSet(t)
  PROVE  {linkTag'[l] : l \in {m \in Links : linkPost'[m] = subject[t]}}
           = {asked[t][i] : i \in DOMAIN asked[t]}
<1> USE NoneAssumption DEF TypeOK, Rows, IInv, Tables
<1>1. /\ pc[t] = "inserting"
      /\ upto[t] = Len(asked[t])
      /\ Settle(t, Deleted(t))
      /\ subject[t] \in Posts
  BY DEF CommitSet, Commit, Subjects, Setting
<1>2. HalfSet(t)
  BY <1>1 DEF Sets, Inserts
<1>3. DOMAIN asked[t] = 1..upto[t]
  BY <1>1, RequestShape, LenProperties
<1>4. {m \in Links : linkPost'[m] = subject[t]} = Inserted(t)
  <2>1. ASSUME NEW m \in Links, linkPost'[m] = subject[t] PROVE inserter[m] = t
    BY <1>1, <1>2, <2>1 DEF HalfSet, Settle, Deleted
  <2>2. ASSUME NEW m \in Links, inserter[m] = t PROVE linkPost'[m] = subject[t]
    BY <1>1, <2>2 DEF Settle, Deleted, Owners
  <2> QED
    BY <2>1, <2>2 DEF Inserted
<1>5. \A l \in Inserted(t) : linkTag'[l] = linkTag[l]
  BY <1>1 DEF Settle, Deleted, Inserted, Owners
<1>6. {linkTag'[l] : l \in {m \in Links : linkPost'[m] = subject[t]}}
        = {linkTag[l] : l \in Inserted(t)}
  BY ONLY <1>4, <1>5
<1>7. \A l \in Inserted(t) : \E i \in DOMAIN asked[t] : linkTag[l] = asked[t][i]
  BY ONLY <1>2, <1>3 DEF HalfSet
<1>8. \A i \in DOMAIN asked[t] : \E l \in Inserted(t) : linkTag[l] = asked[t][i]
  BY ONLY <1>2, <1>3 DEF HalfSet
<1>9. {linkTag[l] : l \in Inserted(t)} = {asked[t][i] : i \in DOMAIN asked[t]}
  BY ONLY <1>7, <1>8
<1> QED
  BY ONLY <1>6, <1>9

\* A set_tags that commits without another insert for its post, or a link moved to it, in
\* between leaves the post exactly the tags it was asked for.
THEOREM UncrossedSetStands == Spec => SetStands
<1>1. ASSUME IInv, [Next]_vars, NEW t \in Txs,
             pc[t] = "inserting", pc'[t] = "done", t \notin crossed
      PROVE  CommitSet(t)
  <2> USE <1>1 DEF IInv, TypeOK, links, scratch, Forget, Leave
  <2>1. ASSUME NEW u \in Txs, SetStep(u) PROVE CommitSet(t)
    <3>1. ASSUME NEW p \in Posts, NEW ks \in Requests, StartSet(u, p, ks) PROVE FALSE
      BY <3>1 DEF StartSet
    <3>2. ~Cleared(u)
      BY DEF Cleared
    <3>3. ~InsertLink(u)
      BY DEF InsertLink, Rollback
    <3>4. CASE CommitSet(u)
      BY <3>4 DEF CommitSet, Commit
    <3> QED
      BY ONLY <2>1, <3>1, <3>2, <3>3, <3>4 DEF SetStep
  <2>2. ASSUME NEW u \in Txs PROVE ~DeleteStep(u)
    <3>1. ASSUME NEW k \in Tags, LookTag(u, k) PROVE FALSE
      BY <3>1 DEF LookTag, Ended
    <3>2. ~StartUntag(u) /\ ~RemoveTag(u)
      BY DEF StartUntag, RemoveTag, Rollback
    <3>3. ~CommitRemoval(u)
      BY DEF CommitRemoval, Commit
    <3>4. ASSUME NEW c \in Categories, LookCategory(u, c) PROVE FALSE
      BY <3>4 DEF LookCategory, Ended
    <3>5. ~CountTags(u) /\ ~RemoveCategory(u)
      BY DEF CountTags, RemoveCategory
    <3> QED
      BY ONLY <3>1, <3>2, <3>3, <3>4, <3>5 DEF DeleteStep
  <2>3. ASSUME NEW u \in Txs PROVE ~Die(u) /\ \A l \in Links : ~DeleteLink(u, l)
    BY DEF Die, Rollback, DeleteLink
  <2>4. ~SingleVerb
    BY DEF SingleVerb, CreateTag, RecategorizeTag, CreateCategory
  <2>5. ~GenericWrite
    BY DEF GenericWrite, TurnTag, PurgeTag, TurnCategory, PurgeCategory, CreateLink, TrashLink,
           PurgeLink
  <2>6. ASSUME NEW u \in Txs PROVE ~GenericStep(u)
    <3>1. ~StartEmpty(u) /\ ~Emptied(u)
      BY DEF StartEmpty, Emptied, Commit
    <3>2. ASSUME NEW p \in Posts, NEW ks \in Requests, StartLoad(u, p, ks) PROVE FALSE
      BY <3>2 DEF StartLoad
    <3>3. ASSUME NEW l \in Links, NEW p \in Posts, NEW k \in Tags, TouchLink(u, l, p, k)
          PROVE  FALSE
      BY <3>3 DEF TouchLink
    <3>4. ASSUME NEW live \in BOOLEAN, WriteLink(u, live) PROVE FALSE
      <4>1. pc[u] = "touching" /\ \E outcome \in Ended : Leave(u, outcome)
        BY <3>4 DEF WriteLink, Rollback, Ended
      <4> QED
        BY <4>1
    <3> QED
      BY ONLY <3>1, <3>2, <3>3, <3>4 DEF GenericStep
  <2>7. ~UNCHANGED vars
    BY DEF vars
  <2> QED
    BY ONLY <1>1, <2>1, <2>2, <2>3, <2>4, <2>5, <2>6, <2>7 DEF Next
<1>2. ASSUME IInv, [Next]_vars
      PROVE  [\A t \in Txs : pc[t] = "inserting" /\ pc'[t] = "done" /\ t \notin crossed =>
                {linkTag'[l] : l \in {m \in Links : linkPost'[m] = subject[t]}}
                  = {asked[t][i] : i \in DOMAIN asked[t]}]_vars
  BY <1>1, <1>2, CommitStands
<1> QED
  BY LinksInvariance, <1>2, PTL DEF Spec, SetStands

=============================================================================
