----------------------------- MODULE ContentRaces -----------------------------
(***************************************************************************)
(* The blog and post verbs cut into SQL statements, on one blog.  Any      *)
(* number of transactions runs through a few connections; each statement   *)
(* sees the rows committed before it (READ COMMITTED), a row that is       *)
(* written stays locked until its transaction ends, and a statement that   *)
(* waited for a row looks at the row's new version again.                  *)
(*                                                                         *)
(* The row variables hold the committed values.  A verb that writes one    *)
(* post row is one step, taken while nobody holds the row.  Publication    *)
(* does not steer any of these verbs and is left to BlogContent.           *)
(***************************************************************************)
EXTENDS Naturals, FiniteSets

CONSTANTS
  Txs,    \* connections, each running one transaction at a time
  Posts,  \* identifiers of posts
  Sites,  \* websites
  None    \* no row, no transaction

ASSUME NoneAssumption == None \notin Sites \cup Txs \cup Posts

VARIABLES
  blogSite,      \* blogs.website_id, None when the row is gone
  blogArchived,  \* blogs.archived_at IS NOT NULL
  postSite,      \* posts.website_id, None when there is no row
  archived,      \* posts.archived_at IS NOT NULL
  marked,        \* posts.archived_by_blog_id names the blog
  pc,            \* where each transaction is, or how the last one ended
  seen,          \* the website a transaction read (create) or writes (move)
  slot,          \* the post a create inserts
  todo,          \* rows a cascade's statement has still to visit
  held,          \* post rows a cascade has written and not committed
  blogLock,      \* the transaction that has written the blog row
  crossed,       \* history: posts inserted across an uncommitted move
  overlapped,    \* history: an archive and an unarchive were open together
  touched        \* history: created or unarchived singly since a cascade
                 \*          last archived the post

rows == <<blogSite, blogArchived, postSite, archived, marked>>
scratch == <<seen, slot, todo, held>>
history == <<crossed, overlapped, touched>>
vars == <<rows, pc, scratch, blogLock, history>>

Ended == {"idle", "done", "missed", "refused", "failed", "conflict", "lost"}
Archiving == {"archiving", "archived"}
Unarchiving == {"unarchiving", "unarchived"}

TypeOK ==
  /\ blogSite \in Sites \cup {None}
  /\ blogArchived \in BOOLEAN
  /\ postSite \in [Posts -> Sites \cup {None}]
  /\ archived \in [Posts -> BOOLEAN]
  /\ marked \in [Posts -> BOOLEAN]
  /\ pc \in [Txs -> Ended \cup Archiving \cup Unarchiving
                      \cup {"creating", "inserted", "moving", "moved",
                            "deleting", "deleted"}]
  /\ seen \in [Txs -> Sites \cup {None}]
  /\ slot \in [Txs -> Posts \cup {None}]
  /\ todo \in [Txs -> SUBSET Posts]
  /\ held \in [Txs -> SUBSET Posts]
  /\ blogLock \in Txs \cup {None}
  /\ crossed \subseteq Posts
  /\ overlapped \in BOOLEAN
  /\ touched \in [Posts -> BOOLEAN]

Init ==
  /\ blogSite \in Sites
  /\ blogArchived = FALSE
  /\ postSite = [p \in Posts |-> None]
  /\ archived = [p \in Posts |-> FALSE]
  /\ marked = [p \in Posts |-> FALSE]
  /\ pc = [t \in Txs |-> "idle"]
  /\ seen = [t \in Txs |-> None]
  /\ slot = [t \in Txs |-> None]
  /\ todo = [t \in Txs |-> {}]
  /\ held = [t \in Txs |-> {}]
  /\ blogLock = None
  /\ crossed = {}
  /\ overlapped = FALSE
  /\ touched = [p \in Posts |-> FALSE]

-----------------------------------------------------------------------------
(* Transactions and locks *)

BlogExists == blogSite # None
Rows == {p \in Posts : postSite[p] # None}

\* Transactions at a place; the inserted ones hold a key share of the blog.
At(place) == {t \in Txs : pc[t] = place}

\* A post row nobody has written in an open transaction.
Free(p) == \A t \in Txs : p \notin held[t]

Goto(t, place) == pc' = [pc EXCEPT ![t] = place]

\* The transaction is over, with or without its writes: the locks go and
\* the connection forgets what it read.
End(t, outcome) ==
  /\ Goto(t, outcome)
  /\ seen' = [seen EXCEPT ![t] = None]
  /\ slot' = [slot EXCEPT ![t] = None]
  /\ todo' = [todo EXCEPT ![t] = {}]
  /\ held' = [held EXCEPT ![t] = {}]
  /\ blogLock' = IF blogLock = t THEN None ELSE blogLock

Die(t) ==
  /\ pc[t] \notin Ended
  /\ End(t, "lost")
  /\ UNCHANGED <<rows, history>>

-----------------------------------------------------------------------------
(* Create a post: read the blog's website, insert, commit *)

\* The post's identifier is fresh.
ReadWebsite(t, p) ==
  /\ pc[t] \in Ended
  /\ p \notin Rows
  /\ \A u \in Txs : slot[u] # p
  /\ IF BlogExists
       THEN /\ seen' = [seen EXCEPT ![t] = blogSite]
            /\ slot' = [slot EXCEPT ![t] = p]
            /\ Goto(t, "creating")
       ELSE Goto(t, "missed") /\ UNCHANGED <<seen, slot>>
  /\ crossed' = crossed \ {p}
  /\ UNCHANGED <<rows, todo, held, blogLock, overlapped, touched>>

\* Fault: no constraint trigger on posts.
NoSiteWall(t) == TRUE

\* The trigger's query sees the blog row as committed by now.
SiteWall(t) == seen[t] = blogSite

\* The foreign key shares the blog row's key, which an UPDATE of other
\* columns allows and a DELETE does not: it waits for an open delete, then
\* finds the row gone.
InsertPost(t) ==
  /\ pc[t] = "creating"
  /\ At("deleted") = {}
  /\ IF BlogExists /\ SiteWall(t)
       THEN /\ Goto(t, "inserted")
            /\ crossed' = IF At("moved") # {} THEN crossed \cup {slot[t]}
                                              ELSE crossed
            /\ UNCHANGED <<scratch, blogLock>>
       ELSE /\ End(t, IF BlogExists THEN "failed" ELSE "conflict")
            /\ UNCHANGED crossed
  /\ UNCHANGED <<rows, overlapped, touched>>

\* Fault: the INSERT binds another value to the website column.
MixedBinds(t) == slot[t]

\* The website the first statement read.
InsertedSite(t) == seen[t]

CommitPost(t) ==
  /\ pc[t] = "inserted"
  /\ postSite' = [postSite EXCEPT ![slot[t]] = InsertedSite(t)]
  /\ archived' = [archived EXCEPT ![slot[t]] = FALSE]
  /\ marked' = [marked EXCEPT ![slot[t]] = FALSE]
  /\ touched' = [touched EXCEPT ![slot[t]] = TRUE]
  /\ End(t, "done")
  /\ UNCHANGED <<blogSite, blogArchived, crossed, overlapped>>

-----------------------------------------------------------------------------
(* Move the blog: has_posts, guarded UPDATE, commit *)

\* has_posts on a connection of its own.
AskHasPosts(t, s) ==
  /\ pc[t] \in Ended
  /\ IF Rows = {}
       THEN Goto(t, "moving") /\ seen' = [seen EXCEPT ![t] = s]
       ELSE Goto(t, "refused") /\ UNCHANGED seen
  /\ UNCHANGED <<rows, slot, todo, held, blogLock, history>>

\* Fault: the UPDATE relies on has_posts.
MoveUnguarded == BlogExists

\* NOT EXISTS over the committed posts, and the H1b trigger behind it.
MoveGuard == BlogExists /\ Rows = {}

UpdateWebsite(t) ==
  /\ pc[t] = "moving"
  /\ blogLock = None
  /\ IF MoveGuard
       THEN /\ blogLock' = t
            /\ Goto(t, "moved")
            /\ crossed' = crossed \cup {slot[u] : u \in At("inserted")}
            /\ UNCHANGED scratch
       ELSE End(t, "refused") /\ UNCHANGED crossed
  /\ UNCHANGED <<rows, overlapped, touched>>

CommitMove(t) ==
  /\ pc[t] = "moved"
  /\ blogSite' = seen[t]
  /\ End(t, "done")
  /\ UNCHANGED <<blogArchived, postSite, archived, marked, history>>

-----------------------------------------------------------------------------
(* Archive and unarchive the blog: the posts, then the blog row, commit *)

\* What the statement that transaction t runs selects on.
Selects(t, p) ==
  p \in Rows /\ IF pc[t] \in Archiving THEN ~archived[p] ELSE marked[p]

\* The statement's snapshot.
StartArchive(t) ==
  /\ pc[t] \in Ended
  /\ Goto(t, "archiving")
  /\ todo' = [todo EXCEPT ![t] = {p \in Rows : ~archived[p]}]
  /\ overlapped' = (overlapped \/ \E u \in Txs : pc[u] \in Unarchiving)
  /\ UNCHANGED <<rows, seen, slot, held, blogLock, crossed, touched>>

\* WHERE archived_by_blog_id = $1
Restorable == {p \in Rows : marked[p]}

StartUnarchive(t) ==
  /\ pc[t] \in Ended
  /\ Goto(t, "unarchiving")
  /\ todo' = [todo EXCEPT ![t] = Restorable]
  /\ overlapped' = (overlapped \/ \E u \in Txs : pc[u] \in Archiving)
  /\ UNCHANGED <<rows, seen, slot, held, blogLock, crossed, touched>>

\* The statement gets the lock of a row of its snapshot and looks at the
\* row again.
VisitRow(t, p) ==
  /\ pc[t] \in {"archiving", "unarchiving"}
  /\ p \in todo[t]
  /\ Free(p)
  /\ todo' = [todo EXCEPT ![t] = @ \ {p}]
  /\ held' = [held EXCEPT ![t] = IF Selects(t, p) THEN @ \cup {p} ELSE @]
  /\ UNCHANGED <<rows, pc, seen, slot, blogLock, history>>

\* The second statement; a missing blog rolls the cascade back.
UpdateBlogRow(t) ==
  /\ pc[t] \in {"archiving", "unarchiving"}
  /\ todo[t] = {}
  /\ blogLock = None
  /\ IF BlogExists
       THEN /\ blogLock' = t
            /\ Goto(t, IF pc[t] = "archiving" THEN "archived" ELSE "unarchived")
            /\ UNCHANGED scratch
       ELSE End(t, "missed")
  /\ UNCHANGED <<rows, history>>

CommitArchive(t) ==
  /\ pc[t] = "archived"
  /\ blogArchived' = TRUE
  /\ archived' = [p \in Posts |-> archived[p] \/ p \in held[t]]
  /\ marked' = [p \in Posts |-> marked[p] \/ p \in held[t]]
  /\ touched' = [p \in Posts |-> touched[p] /\ p \notin held[t]]
  /\ End(t, "done")
  /\ UNCHANGED <<blogSite, postSite, crossed, overlapped>>

\* Fault: the restore leaves the marker.
MarkersKept(t) == marked

\* archived_by_blog_id = NULL on the restored rows.
MarkersCleared(t) == [p \in Posts |-> marked[p] /\ p \notin held[t]]

CommitUnarchive(t) ==
  /\ pc[t] = "unarchived"
  /\ blogArchived' = FALSE
  /\ archived' = [p \in Posts |-> archived[p] /\ p \notin held[t]]
  /\ marked' = MarkersCleared(t)
  /\ End(t, "done")
  /\ UNCHANGED <<blogSite, postSite, history>>

-----------------------------------------------------------------------------
(* Delete the blog: look, DELETE under the foreign key, commit *)

LookForDelete(t) ==
  /\ pc[t] \in Ended
  /\ Goto(t, IF BlogExists THEN "deleting" ELSE "missed")
  /\ UNCHANGED <<rows, scratch, blogLock, history>>

\* A DELETE waits for every lock on the row, the inserts' key shares too.
RowUnlocked == blogLock = None /\ At("inserted") = {}

\* Fault: posts carry no foreign key.
NoForeignKey == TRUE

\* The foreign key of posts, which names no ON DELETE.
NoReferences == Rows = {}

\* Posts refuse it (the refusal is audited apart); a row that is gone by
\* now is zero rows and success.
DeleteRow(t) ==
  /\ pc[t] = "deleting"
  /\ RowUnlocked
  /\ IF BlogExists /\ NoReferences
       THEN blogLock' = t /\ Goto(t, "deleted") /\ UNCHANGED scratch
       ELSE End(t, IF BlogExists THEN "refused" ELSE "done")
  /\ UNCHANGED <<rows, history>>

CommitDelete(t) ==
  /\ pc[t] = "deleted"
  /\ blogSite' = None
  /\ blogArchived' = FALSE
  /\ End(t, "done")
  /\ UNCHANGED <<postSite, archived, marked, history>>

-----------------------------------------------------------------------------
(* Verbs on one post row *)

ArchivePost(p) ==
  /\ p \in Rows
  /\ Free(p)
  /\ ~archived[p]
  /\ archived' = [archived EXCEPT ![p] = TRUE]
  /\ UNCHANGED <<blogSite, blogArchived, postSite, marked, pc, scratch,
                 blogLock, history>>

\* The marker stays.
UnarchivePost(p) ==
  /\ p \in Rows
  /\ Free(p)
  /\ archived' = [archived EXCEPT ![p] = FALSE]
  /\ touched' = [touched EXCEPT ![p] = TRUE]
  /\ UNCHANGED <<blogSite, blogArchived, postSite, marked, pc, scratch,
                 blogLock, crossed, overlapped>>

-----------------------------------------------------------------------------

CreateStep(t) ==
  (\E p \in Posts : ReadWebsite(t, p)) \/ InsertPost(t) \/ CommitPost(t)

MoveStep(t) ==
  (\E s \in Sites : AskHasPosts(t, s)) \/ UpdateWebsite(t) \/ CommitMove(t)

CascadeStep(t) ==
  \/ StartArchive(t) \/ StartUnarchive(t)
  \/ \E p \in Posts : VisitRow(t, p)
  \/ UpdateBlogRow(t) \/ CommitArchive(t) \/ CommitUnarchive(t)

DeleteStep(t) == LookForDelete(t) \/ DeleteRow(t) \/ CommitDelete(t)

Next ==
  \/ \E t \in Txs :
       CreateStep(t) \/ MoveStep(t) \/ CascadeStep(t) \/ DeleteStep(t) \/ Die(t)
  \/ \E p \in Posts : ArchivePost(p) \/ UnarchivePost(p)

Spec == Init /\ [][Next]_vars

-----------------------------------------------------------------------------
(* Properties *)

\* Types hold, and a post row has its blog, also while a create and a delete overlap: the
\* key share of the insert and the delete's lock exclude each other.
NoOrphans == TypeOK /\ (Rows # {} => BlogExists)

\* The two triggers leave one window: a post disagrees with its blog's
\* website only if its insert and a move's UPDATE were uncommitted at the
\* same time.  Reading the website in an earlier statement opens no other.
DriftOnlyAcrossMove ==
  \A p \in Rows : postSite[p] # blogSite => p \in crossed

\* As long as no archive overlapped an unarchive, the posts follow the blog
\* whatever else ran between the cascade's statements: an archived blog's
\* live posts were created or unarchived singly, a live blog has no post
\* that a cascade archived.
PostsFollowBlog ==
  BlogExists /\ ~overlapped =>
    \A p \in Rows :
      IF blogArchived THEN archived[p] \/ touched[p]
                      ELSE ~marked[p] \/ touched[p]

-----------------------------------------------------------------------------
(* What the code's documentation says and its behaviour does not keep *)

\* "A post may never disagree with its blog's website."
SitesAgree == \A p \in Rows : postSite[p] = blogSite

\* Unarchive restores the blog row and exactly the marker rows: none is
\* left behind on a live blog.
NoMarkerLeftBehind ==
  BlogExists /\ ~blogArchived =>
    \A p \in Rows : marked[p] /\ archived[p] => touched[p]

=============================================================================
