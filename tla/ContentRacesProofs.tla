-------------------------- MODULE ContentRacesProofs --------------------------
(***************************************************************************)
(* Theorems about ContentRaces, for any number of connections, posts and   *)
(* websites.                                                               *)
(***************************************************************************)
EXTENDS ContentRaces, TLAPS

-----------------------------------------------------------------------------
(* The inductive invariant: locks and what they exclude *)

\* The blog row's lock is held by whoever has written the row.
LockHeld ==
  \A t \in Txs : pc[t] \in {"moved", "archived", "unarchived", "deleted"} <=> blogLock = t

\* A create has a post row of its own in mind, and a website.
Creating == {"creating", "inserted"}
SlotsTaken ==
  /\ \A t \in Txs : pc[t] \in Creating => seen[t] \in Sites /\ slot[t] \in Posts \ Rows
  /\ \A t \in Txs : slot[t] # None => pc[t] \in Creating
  /\ \A t, u \in Txs : t # u /\ slot[t] # None => slot[t] # slot[u]

\* A move writes a website.
MovesKnowTarget == \A t \in Txs : pc[t] \in {"moving", "moved"} => seen[t] \in Sites

\* The foreign key: rows, committed or not, have their blog, and an open delete has none of
\* either.
KeysHold ==
  /\ Rows # {} \/ At("inserted") # {} => BlogExists
  /\ At("deleted") # {} => Rows = {} /\ At("inserted") = {}

Locks == LockHeld /\ SlotsTaken /\ MovesKnowTarget /\ KeysHold

-----------------------------------------------------------------------------
(* Types *)

\* Every step keeps the types.
LEMMA NextTypeOK == TypeOK /\ Locks /\ [Next]_vars => TypeOK'
<1> SUFFICES ASSUME TypeOK, Locks, [Next]_vars PROVE TypeOK'
  OBVIOUS
<1> USE NoneAssumption DEF TypeOK, rows, scratch, history, Ended, Archiving, Unarchiving
<1>1. ASSUME NEW t \in Txs, CreateStep(t) PROVE TypeOK'
  <2>1. ASSUME NEW p \in Posts, ReadWebsite(t, p) PROVE TypeOK'
    BY <2>1 DEF ReadWebsite, Goto, BlogExists
  <2>2. CASE InsertPost(t)
    <3>1. pc[t] = "creating" => slot[t] \in Posts
      BY DEF Locks, SlotsTaken, Creating
    <3> QED
      BY <2>2, <3>1 DEF InsertPost, Goto, End
  <2>3. CASE CommitPost(t)
    BY <2>3 DEF CommitPost, InsertedSite, Goto, End
  <2> QED
    BY <1>1, <2>1, <2>2, <2>3 DEF CreateStep
<1>2. ASSUME NEW t \in Txs, MoveStep(t) PROVE TypeOK'
  <2>1. ASSUME NEW s \in Sites, AskHasPosts(t, s) PROVE TypeOK'
    BY <2>1 DEF AskHasPosts, Goto
  <2>2. CASE UpdateWebsite(t)
    BY <2>2 DEF UpdateWebsite, Goto, End, At, Locks, SlotsTaken, Creating
  <2>3. CASE CommitMove(t)
    BY <2>3 DEF CommitMove, Goto, End
  <2> QED
    BY <1>2, <2>1, <2>2, <2>3 DEF MoveStep
<1>3. ASSUME NEW t \in Txs, CascadeStep(t) PROVE TypeOK'
  <2>1. CASE StartArchive(t)
    BY <2>1 DEF StartArchive, Goto, Rows
  <2>2. CASE StartUnarchive(t)
    BY <2>2 DEF StartUnarchive, Goto, Restorable, Rows
  <2>3. ASSUME NEW p \in Posts, VisitRow(t, p) PROVE TypeOK'
    BY <2>3 DEF VisitRow
  <2>4. CASE UpdateBlogRow(t)
    BY <2>4 DEF UpdateBlogRow, Goto, End
  <2>5. CASE CommitArchive(t)
    BY <2>5 DEF CommitArchive, Goto, End
  <2>6. CASE CommitUnarchive(t)
    BY <2>6 DEF CommitUnarchive, MarkersCleared, Goto, End
  <2> QED
    BY <1>3, <2>1, <2>2, <2>3, <2>4, <2>5, <2>6 DEF CascadeStep
<1>4. ASSUME NEW t \in Txs, DeleteStep(t) PROVE TypeOK'
  <2>1. CASE LookForDelete(t)
    BY <2>1 DEF LookForDelete, Goto
  <2>2. CASE DeleteRow(t)
    BY <2>2 DEF DeleteRow, Goto, End
  <2>3. CASE CommitDelete(t)
    BY <2>3 DEF CommitDelete, Goto, End
  <2> QED
    BY <1>4, <2>1, <2>2, <2>3 DEF DeleteStep
<1>5. ASSUME NEW t \in Txs, Die(t) PROVE TypeOK'
  BY <1>5 DEF Die, Goto, End
<1>6. ASSUME NEW p \in Posts, ArchivePost(p) \/ UnarchivePost(p) PROVE TypeOK'
  BY <1>6 DEF ArchivePost, UnarchivePost
<1>7. CASE UNCHANGED vars
  BY <1>7 DEF vars
<1> QED
  BY <1>1, <1>2, <1>3, <1>4, <1>5, <1>6, <1>7 DEF Next
-----------------------------------------------------------------------------
(* Locks *)

\* Every step keeps locks and keys.
LEMMA NextLocks == TypeOK /\ Locks /\ [Next]_vars => Locks'
<1> SUFFICES ASSUME TypeOK, Locks, [Next]_vars PROVE Locks'
  OBVIOUS
<1> USE NoneAssumption DEF rows, scratch, history, Ended, Archiving, Unarchiving, Creating,
        Locks, LockHeld, SlotsTaken, MovesKnowTarget, KeysHold, At, BlogExists, Rows
<1>1. ASSUME NEW t \in Txs, CreateStep(t) PROVE Locks'
  <2>1. ASSUME NEW p \in Posts, ReadWebsite(t, p) PROVE Locks'
    BY <2>1 DEF ReadWebsite, Goto, TypeOK
  <2>2. CASE InsertPost(t)
    BY <2>2 DEF InsertPost, Goto, End, TypeOK
  <2>3. CASE CommitPost(t)
    BY <2>3 DEF CommitPost, InsertedSite, Goto, End, TypeOK
  <2> QED
    BY <1>1, <2>1, <2>2, <2>3 DEF CreateStep
<1>2. ASSUME NEW t \in Txs, MoveStep(t) PROVE Locks'
  <2>1. ASSUME NEW s \in Sites, AskHasPosts(t, s) PROVE Locks'
    BY <2>1 DEF AskHasPosts, Goto, TypeOK
  <2>2. CASE UpdateWebsite(t)
    BY <2>2 DEF UpdateWebsite, MoveGuard, Goto, End, TypeOK
  <2>3. CASE CommitMove(t)
    BY <2>3 DEF CommitMove, Goto, End, TypeOK
  <2> QED
    BY <1>2, <2>1, <2>2, <2>3 DEF MoveStep
<1>3. ASSUME NEW t \in Txs, CascadeStep(t) PROVE Locks'
  <2>1. CASE StartArchive(t)
    BY <2>1 DEF StartArchive, Goto, TypeOK
  <2>2. CASE StartUnarchive(t)
    BY <2>2 DEF StartUnarchive, Goto, TypeOK
  <2>3. ASSUME NEW p \in Posts, VisitRow(t, p) PROVE Locks'
    BY <2>3 DEF VisitRow, TypeOK
  <2>4. CASE UpdateBlogRow(t)
    BY <2>4 DEF UpdateBlogRow, Goto, End, TypeOK
  <2>5. CASE CommitArchive(t)
    BY <2>5 DEF CommitArchive, Goto, End, TypeOK
  <2>6. CASE CommitUnarchive(t)
    BY <2>6 DEF CommitUnarchive, Goto, End, TypeOK
  <2> QED
    BY <1>3, <2>1, <2>2, <2>3, <2>4, <2>5, <2>6 DEF CascadeStep
<1>4. ASSUME NEW t \in Txs, DeleteStep(t) PROVE Locks'
  <2>1. CASE LookForDelete(t)
    BY <2>1 DEF LookForDelete, Goto, TypeOK
  <2>2. CASE DeleteRow(t)
    BY <2>2 DEF DeleteRow, RowUnlocked, NoReferences, Goto, End, TypeOK
  <2>3. CASE CommitDelete(t)
    BY <2>3 DEF CommitDelete, Goto, End, TypeOK
  <2> QED
    BY <1>4, <2>1, <2>2, <2>3 DEF DeleteStep
<1>5. ASSUME NEW t \in Txs, Die(t) PROVE Locks'
  BY <1>5 DEF Die, Goto, End, TypeOK
<1>6. ASSUME NEW p \in Posts, ArchivePost(p) \/ UnarchivePost(p) PROVE Locks'
  BY <1>6 DEF ArchivePost, UnarchivePost, TypeOK
<1>7. CASE UNCHANGED vars
  BY <1>7 DEF vars
<1> QED
  BY <1>1, <1>2, <1>3, <1>4, <1>5, <1>6, <1>7 DEF Next

-----------------------------------------------------------------------------
(* Drift across a move *)

\* An insert disagrees with the blog only across a move, and an open move has every row, and
\* every insert that is open beside it, on record.
InsertCrosses ==
  \A t \in At("inserted") : seen[t] # blogSite => slot[t] \in crossed
MoveCrosses ==
  At("moved") # {} => Rows \cup {slot[t] : t \in At("inserted")} \subseteq crossed

Drift == InsertCrosses /\ MoveCrosses /\ DriftOnlyAcrossMove

\* Every step keeps moves and inserts on record.
LEMMA NextDrift == TypeOK /\ Locks /\ Drift /\ [Next]_vars => Drift'
<1> SUFFICES ASSUME TypeOK, Locks, Drift, [Next]_vars PROVE Drift'
  OBVIOUS
<1> USE NoneAssumption DEF rows, scratch, history, TypeOK, Ended, Archiving, Unarchiving, Creating,
        Locks, LockHeld, SlotsTaken, MovesKnowTarget, KeysHold, At, BlogExists, Rows,
        Drift, InsertCrosses, MoveCrosses, DriftOnlyAcrossMove
<1>1. ASSUME NEW t \in Txs, CreateStep(t) PROVE Drift'
  <2>1. ASSUME NEW p \in Posts, ReadWebsite(t, p) PROVE Drift'
    BY <2>1 DEF ReadWebsite, Goto
  <2>2. CASE InsertPost(t)
    BY <2>2 DEF InsertPost, SiteWall, Goto, End
  <2>3. CASE CommitPost(t)
    BY <2>3 DEF CommitPost, InsertedSite, Goto, End
  <2> QED
    BY <1>1, <2>1, <2>2, <2>3 DEF CreateStep
<1>2. ASSUME NEW t \in Txs, MoveStep(t) PROVE Drift'
  <2>1. ASSUME NEW s \in Sites, AskHasPosts(t, s) PROVE Drift'
    BY <2>1 DEF AskHasPosts, Goto
  <2>2. CASE UpdateWebsite(t)
    BY <2>2 DEF UpdateWebsite, MoveGuard, Goto, End
  <2>3. CASE CommitMove(t)
    BY <2>3 DEF CommitMove, Goto, End
  <2> QED
    BY <1>2, <2>1, <2>2, <2>3 DEF MoveStep
<1>3. ASSUME NEW t \in Txs, CascadeStep(t) PROVE Drift'
  <2>1. CASE StartArchive(t) \/ StartUnarchive(t)
    BY <2>1 DEF StartArchive, StartUnarchive, Goto
  <2>2. ASSUME NEW p \in Posts, VisitRow(t, p) PROVE Drift'
    BY <2>2 DEF VisitRow
  <2>3. CASE UpdateBlogRow(t)
    BY <2>3 DEF UpdateBlogRow, Goto, End
  <2>4. CASE CommitArchive(t) \/ CommitUnarchive(t)
    BY <2>4 DEF CommitArchive, CommitUnarchive, Goto, End
  <2> QED
    BY <1>3, <2>1, <2>2, <2>3, <2>4 DEF CascadeStep
<1>4. ASSUME NEW t \in Txs, DeleteStep(t) PROVE Drift'
  <2>1. CASE LookForDelete(t)
    BY <2>1 DEF LookForDelete, Goto
  <2>2. CASE DeleteRow(t)
    BY <2>2 DEF DeleteRow, Goto, End
  <2>3. CASE CommitDelete(t)
    BY <2>3 DEF CommitDelete, Goto, End
  <2> QED
    BY <1>4, <2>1, <2>2, <2>3 DEF DeleteStep
<1>5. ASSUME NEW t \in Txs, Die(t) PROVE Drift'
  BY <1>5 DEF Die, Goto, End
<1>6. ASSUME NEW p \in Posts, ArchivePost(p) \/ UnarchivePost(p) PROVE Drift'
  BY <1>6 DEF ArchivePost, UnarchivePost
<1>7. CASE UNCHANGED vars
  BY <1>7 DEF vars
<1> QED
  BY <1>1, <1>2, <1>3, <1>4, <1>5, <1>6, <1>7 DEF Next

-----------------------------------------------------------------------------
(* Cascades *)

Archivers == {t \in Txs : pc[t] \in Archiving}
Unarchivers == {t \in Txs : pc[t] \in Unarchiving}

\* An archive and an unarchive that are open together are on record.
Apart == overlapped \/ Archivers = {} \/ Unarchivers = {}

\* A cascade that has written the blog row has no row of its snapshot left to visit.
CascadesSwept == \A t \in Txs : pc[t] \in {"archived", "unarchived"} => todo[t] = {}

\* A row that a cascade neither has nor is still to visit needs nothing of it.
Reaches(t, p) == p \in todo[t] \cup held[t]
ArchiveCovers ==
  \A t \in Archivers : \A p \in Rows : archived[p] \/ touched[p] \/ Reaches(t, p)
UnarchiveCovers ==
  \A t \in Unarchivers : \A p \in Rows : ~marked[p] \/ touched[p] \/ Reaches(t, p)

Cascades ==
  /\ Apart /\ CascadesSwept
  /\ ~overlapped => ArchiveCovers /\ UnarchiveCovers
  /\ PostsFollowBlog

\* Every step keeps what a cascade covers.
LEMMA NextCascades == TypeOK /\ Locks /\ Cascades /\ [Next]_vars => Cascades'
<1> SUFFICES ASSUME TypeOK, Locks, Cascades, [Next]_vars PROVE Cascades'
  OBVIOUS
<1> USE NoneAssumption DEF rows, scratch, history, TypeOK, Ended, Archiving, Unarchiving, Creating,
        Locks, LockHeld, SlotsTaken, KeysHold, At, BlogExists, Rows,
        Cascades, Apart, Archivers, Unarchivers, CascadesSwept, Reaches, ArchiveCovers,
        UnarchiveCovers, PostsFollowBlog
<1>1. ASSUME NEW t \in Txs, CreateStep(t) PROVE Cascades'
  <2>1. ASSUME NEW p \in Posts, ReadWebsite(t, p) PROVE Cascades'
    BY <2>1 DEF ReadWebsite, Goto
  <2>2. CASE InsertPost(t)
    BY <2>2 DEF InsertPost, SiteWall, Goto, End
  <2>3. CASE CommitPost(t)
    BY <2>3 DEF CommitPost, InsertedSite, Goto, End
  <2> QED
    BY <1>1, <2>1, <2>2, <2>3 DEF CreateStep
<1>2. ASSUME NEW t \in Txs, MoveStep(t) PROVE Cascades'
  <2>1. ASSUME NEW s \in Sites, AskHasPosts(t, s) PROVE Cascades'
    BY <2>1 DEF AskHasPosts, Goto
  <2>2. CASE UpdateWebsite(t)
    BY <2>2 DEF UpdateWebsite, MoveGuard, Goto, End
  <2>3. CASE CommitMove(t)
    BY <2>3 DEF CommitMove, Goto, End
  <2> QED
    BY <1>2, <2>1, <2>2, <2>3 DEF MoveStep
<1>3. ASSUME NEW t \in Txs, CascadeStep(t) PROVE Cascades'
  <2>1. CASE StartArchive(t)
    <3> USE <2>1 DEF StartArchive, Goto
    <3>1. Apart'
      <4>1. Unarchivers' = Unarchivers
        OBVIOUS
      <4>2. overlapped' <=> overlapped \/ Unarchivers # {}
        OBVIOUS
      <4> QED
        BY ONLY <4>1, <4>2 DEF Apart
    <3>2. CascadesSwept'
      OBVIOUS
    <3>3. ~overlapped' => ArchiveCovers'
      OBVIOUS
    <3>4. ~overlapped' => UnarchiveCovers'
      OBVIOUS
    <3>5. PostsFollowBlog'
      OBVIOUS
    <3> QED
      BY ONLY <3>1, <3>2, <3>3, <3>4, <3>5 DEF Cascades
  <2>2. CASE StartUnarchive(t)
    <3> USE <2>2 DEF StartUnarchive, Restorable, Goto
    <3>1. Apart'
      <4>1. Archivers' = Archivers
        OBVIOUS
      <4>2. overlapped' <=> overlapped \/ Archivers # {}
        OBVIOUS
      <4> QED
        BY ONLY <4>1, <4>2 DEF Apart
    <3>2. CascadesSwept'
      OBVIOUS
    <3>3. ~overlapped' => ArchiveCovers'
      OBVIOUS
    <3>4. ~overlapped' => UnarchiveCovers'
      OBVIOUS
    <3>5. PostsFollowBlog'
      OBVIOUS
    <3> QED
      BY ONLY <3>1, <3>2, <3>3, <3>4, <3>5 DEF Cascades
  <2>3. ASSUME NEW p \in Posts, VisitRow(t, p) PROVE Cascades'
    BY <2>3 DEF VisitRow, Selects
  <2>4. CASE UpdateBlogRow(t)
    BY <2>4 DEF UpdateBlogRow, Goto, End
  <2>5. CASE CommitArchive(t)
    <3> USE <2>5 DEF CommitArchive, Goto, End
    <3>1. Apart'
      OBVIOUS
    <3>2. CascadesSwept'
      OBVIOUS
    <3>3. ~overlapped' => ArchiveCovers'
      OBVIOUS
    <3>4. ~overlapped' => UnarchiveCovers'
      OBVIOUS
    <3>5. PostsFollowBlog'
      OBVIOUS
    <3> QED
      BY ONLY <3>1, <3>2, <3>3, <3>4, <3>5 DEF Cascades
  <2>6. CASE CommitUnarchive(t)
    <3> USE <2>6 DEF CommitUnarchive, MarkersCleared, Goto, End
    <3>1. Apart'
      OBVIOUS
    <3>2. CascadesSwept'
      OBVIOUS
    <3>3. ~overlapped' => ArchiveCovers'
      OBVIOUS
    <3>4. ~overlapped' => UnarchiveCovers'
      OBVIOUS
    <3>5. PostsFollowBlog'
      OBVIOUS
    <3> QED
      BY ONLY <3>1, <3>2, <3>3, <3>4, <3>5 DEF Cascades
  <2> QED
    BY <1>3, <2>1, <2>2, <2>3, <2>4, <2>5, <2>6 DEF CascadeStep
<1>4. ASSUME NEW t \in Txs, DeleteStep(t) PROVE Cascades'
  <2>1. CASE LookForDelete(t)
    BY <2>1 DEF LookForDelete, Goto
  <2>2. CASE DeleteRow(t)
    BY <2>2 DEF DeleteRow, Goto, End
  <2>3. CASE CommitDelete(t)
    BY <2>3 DEF CommitDelete, Goto, End
  <2> QED
    BY <1>4, <2>1, <2>2, <2>3 DEF DeleteStep
<1>5. ASSUME NEW t \in Txs, Die(t) PROVE Cascades'
  BY <1>5 DEF Die, Goto, End
<1>6. ASSUME NEW p \in Posts, ArchivePost(p) \/ UnarchivePost(p) PROVE Cascades'
  BY <1>6 DEF ArchivePost, UnarchivePost
<1>7. CASE UNCHANGED vars
  BY <1>7 DEF vars
<1> QED
  BY <1>1, <1>2, <1>3, <1>4, <1>5, <1>6, <1>7 DEF Next

-----------------------------------------------------------------------------
(* Theorems *)

\* Types, locks and keys, what a move leaves on record, what a cascade covers.
IInv == TypeOK /\ Locks /\ Drift /\ Cascades

\* It holds at first: there are no posts, and nobody runs.
LEMMA InitIInv == Init => IInv
<1> SUFFICES ASSUME Init PROVE IInv
  OBVIOUS
<1> USE NoneAssumption DEF Init, At, BlogExists, Rows, Ended, Archiving, Unarchiving
<1>1. TypeOK
  BY DEF TypeOK
<1>2. Locks
  BY DEF Locks, LockHeld, SlotsTaken, Creating, MovesKnowTarget, KeysHold
<1>3. Drift
  BY DEF Drift, InsertCrosses, MoveCrosses, DriftOnlyAcrossMove
<1>4. Cascades
  BY DEF Cascades, Apart, Archivers, Unarchivers, CascadesSwept, ArchiveCovers,
     UnarchiveCovers, PostsFollowBlog
<1> QED
  BY <1>1, <1>2, <1>3, <1>4 DEF IInv

\* Every reachable state satisfies the inductive invariant.
THEOREM RacesInvariance == Spec => []IInv
<1>1. IInv /\ [Next]_vars => IInv'
  BY NextTypeOK, NextLocks, NextDrift, NextCascades DEF IInv
<1> QED
  BY InitIInv, <1>1, PTL DEF Spec

\* A post row has its blog, however creates and deletes overlap.
THEOREM PostsKeepTheirBlog == Spec => []NoOrphans
<1>1. IInv => NoOrphans
  BY DEF IInv, Locks, KeysHold, NoOrphans
<1> QED
  BY RacesInvariance, <1>1, PTL

\* A post disagrees with its blog's website only across an overlapping move.
THEOREM NoOtherDrift == Spec => []DriftOnlyAcrossMove
<1>1. IInv => DriftOnlyAcrossMove
  BY DEF IInv, Drift
<1> QED
  BY RacesInvariance, <1>1, PTL

\* Posts follow their blog's archive as long as no archive overlaps an unarchive.
THEOREM CascadesFollowed == Spec => []PostsFollowBlog
<1>1. IInv => PostsFollowBlog
  BY DEF IInv, Cascades
<1> QED
  BY RacesInvariance, <1>1, PTL

=============================================================================
