----------------------------- MODULE BlogContent -----------------------------
(***************************************************************************)
(* The admin verbs on blogs and posts, each as the one database            *)
(* transaction it runs in: rows, the D5 cascade marker, the website an     *)
(* owned column repeats, the publication flag, and the audit rows the verb *)
(* appends in the same transaction.                                        *)
(*                                                                         *)
(* Transactions are atomic here; ContentRaces cuts them into statements.   *)
(* Content columns (title, slug, body, names), dates and the visit counter *)
(* are left out: PublishCoupling, VisitCounting and the later modules of   *)
(* the project have them.  archived_at is only ever tested for NULL, so it *)
(* is a Boolean.  Identifiers are slots: a deleted blog's slot may serve a *)
(* later blog, which no row can tell from a fresh identifier because a     *)
(* blog is deleted only when no post row refers to it.                     *)
(***************************************************************************)
EXTENDS Naturals

CONSTANTS
  Blogs,   \* identifiers of blogs
  Posts,   \* identifiers of posts
  Sites,   \* websites
  None     \* SQL NULL, and "no such row"

ASSUME NoneAssumption == None \notin Blogs \cup Sites

VARIABLES
  blogSite,      \* blogs.website_id; None when the row does not exist
  blogArchived,  \* blogs.archived_at IS NOT NULL
  postBlog,      \* posts.blog_id; None when the row does not exist
  postSite,      \* posts.website_id
  published,     \* posts.is_published
  archived,      \* posts.archived_at IS NOT NULL
  marker,        \* posts.archived_by_blog_id
  emitted,       \* the audit rows appended by the verb that ran last
  archivedBy,    \* history: the verb whose archive is in force on a post
  touched        \* history: created or unarchived singly since its blog was
                 \*          last archived

blogVars == <<blogSite, blogArchived>>
rowVars == <<postBlog, postSite, published, archived, marker>>
vars == <<blogSite, blogArchived, postBlog, postSite, published, archived,
          marker, emitted, archivedBy, touched>>

-----------------------------------------------------------------------------
(* Rows *)

BlogExists(b) == blogSite[b] # None
PostExists(p) == postBlog[p] # None
PostsOf(b) == {p \in Posts : postBlog[p] = b}

\* The public predicate, dates aside: published and not archived.
Visible(p) == PostExists(p) /\ published[p] /\ ~archived[p]

BlogEvents == {"blog_created", "blog_updated", "blog_archived",
               "blog_unarchived", "blog_delete_refused"}
PostEvents == {"post_created", "post_updated", "publish_refused",
               "post_published", "post_unpublished", "post_archived",
               "post_unarchived"}

\* An audit row: the event, its subject, and the posts its detail counts
\* (posts_cascade, posts_restored, or {p} for forced_unpublish = true).
BlogFact(event, b, counted) == [event |-> event, blog |-> b, counted |-> counted]
PostFact(event, p, counted) == [event |-> event, post |-> p, counted |-> counted]

TypeOK ==
  /\ blogSite \in [Blogs -> Sites \cup {None}]
  /\ blogArchived \in [Blogs -> BOOLEAN]
  /\ postBlog \in [Posts -> Blogs \cup {None}]
  /\ postSite \in [Posts -> Sites \cup {None}]
  /\ published \in [Posts -> BOOLEAN]
  /\ archived \in [Posts -> BOOLEAN]
  /\ marker \in [Posts -> Blogs \cup {None}]
  /\ emitted \in SUBSET
       ( [event : BlogEvents, blog : Blogs, counted : SUBSET Posts]
           \cup [event : PostEvents, post : Posts, counted : SUBSET Posts] )
  /\ archivedBy \in [Posts -> {"nobody", "post", "blog"}]
  /\ touched \in [Posts -> BOOLEAN]

Init ==
  /\ blogSite = [b \in Blogs |-> None]
  /\ blogArchived = [b \in Blogs |-> FALSE]
  /\ postBlog = [p \in Posts |-> None]
  /\ postSite = [p \in Posts |-> None]
  /\ published = [p \in Posts |-> FALSE]
  /\ archived = [p \in Posts |-> FALSE]
  /\ marker = [p \in Posts |-> None]
  /\ emitted = {}
  /\ archivedBy = [p \in Posts |-> "nobody"]
  /\ touched = [p \in Posts |-> FALSE]

-----------------------------------------------------------------------------
(* Blog verbs *)

CreateBlog(b, s) ==
  /\ ~BlogExists(b)
  /\ blogSite' = [blogSite EXCEPT ![b] = s]
  /\ blogArchived' = [blogArchived EXCEPT ![b] = FALSE]
  /\ emitted' = {BlogFact("blog_created", b, {})}
  /\ UNCHANGED <<rowVars, archivedBy, touched>>

\* PATCH of the whitelisted columns (name, subtitle, description).
PatchBlog(b) ==
  /\ BlogExists(b)
  /\ emitted' = {BlogFact("blog_updated", b, {})}
  /\ UNCHANGED <<blogVars, rowVars, archivedBy, touched>>

\* Fault: the move looks at live posts only.
IsEmptyOfLivePosts(b) == \A p \in PostsOf(b) : archived[p]

\* NOT EXISTS (SELECT 1 FROM posts WHERE blog_id = b), the H1b wall too.
IsEmpty(b) == PostsOf(b) = {}

\* PATCH carrying website_id: has_posts answers 422 for a loaded blog and
\* writes nothing; an empty blog moves.
MoveBlog(b, s) ==
  /\ BlogExists(b)
  /\ IsEmpty(b)
  /\ blogSite' = [blogSite EXCEPT ![b] = s]
  /\ emitted' = {BlogFact("blog_updated", b, {})}
  /\ UNCHANGED <<blogArchived, rowVars, archivedBy, touched>>

\* Fault: the cascade forgets "AND archived_at IS NULL".
CascadeTargetsAll(b) == PostsOf(b)

\* Fault: the cascade takes the published posts only.
CascadeTargetsPublished(b) == {p \in PostsOf(b) : published[p]}

\* The rows the single-statement cascade writes.
CascadeTargets(b) == {p \in PostsOf(b) : ~archived[p]}

\* Fault: the cascade marks only the posts it unpublishes.
MarkersOfPublishedOnly(b) ==
  [p \in Posts |->
     IF p \in CascadeTargets(b) /\ published[p] THEN b ELSE marker[p]]

\* archived_by_blog_id = $1 on every row the cascade writes.
MarkersAfterCascade(b) ==
  [p \in Posts |-> IF p \in CascadeTargets(b) THEN b ELSE marker[p]]

\* Fault: the cascade archives without the forced unpublish.
FlagsKeptByCascade(b) == published

\* is_published = false on every row the cascade writes.
FlagsAfterCascade(b) ==
  [p \in Posts |-> published[p] /\ p \notin CascadeTargets(b)]

\* A blog may be archived again: the cascade then takes what is live.
ArchiveBlog(b) ==
  /\ BlogExists(b)
  /\ LET hit == CascadeTargets(b) IN
       /\ archived' = [p \in Posts |-> archived[p] \/ p \in hit]
       /\ marker' = MarkersAfterCascade(b)
       /\ published' = FlagsAfterCascade(b)
       /\ archivedBy' = [p \in Posts |-> IF p \in hit THEN "blog" ELSE archivedBy[p]]
       /\ emitted' = {BlogFact("blog_archived", b, hit)}
  /\ blogArchived' = [blogArchived EXCEPT ![b] = TRUE]
  /\ touched' = [p \in Posts |-> touched[p] /\ p \notin PostsOf(b)]
  /\ UNCHANGED <<blogSite, postBlog, postSite>>

\* Fault: the restore skips marked rows that are already live.
RestoreTargetsArchivedOnly(b) == {p \in Posts : marker[p] = b /\ archived[p]}

\* The rows carrying the blog's marker, whatever else they say.
RestoreTargets(b) == {p \in Posts : marker[p] = b}

\* Fault: the restore re-publishes what it restores.
FlagsRepublishedByRestore(b) ==
  [p \in Posts |-> published[p] \/ p \in RestoreTargets(b)]

\* The restore's SET list does not name is_published.
FlagsAfterRestore(b) == published

UnarchiveBlog(b) ==
  /\ BlogExists(b)
  /\ LET hit == RestoreTargets(b) IN
       /\ archived' = [p \in Posts |-> archived[p] /\ p \notin hit]
       /\ marker' = [p \in Posts |-> IF p \in hit THEN None ELSE marker[p]]
       /\ archivedBy' = [p \in Posts |-> IF p \in hit THEN "nobody" ELSE archivedBy[p]]
       /\ emitted' = {BlogFact("blog_unarchived", b, hit)}
  /\ published' = FlagsAfterRestore(b)
  /\ blogArchived' = [blogArchived EXCEPT ![b] = FALSE]
  /\ UNCHANGED <<blogSite, postBlog, postSite, touched>>

\* DELETE of an empty blog.  The verb appends no audit row for it.
DeleteBlog(b) ==
  /\ BlogExists(b)
  /\ IsEmpty(b)
  /\ blogSite' = [blogSite EXCEPT ![b] = None]
  /\ blogArchived' = [blogArchived EXCEPT ![b] = FALSE]
  /\ emitted' = {}
  /\ UNCHANGED <<rowVars, archivedBy, touched>>

\* DELETE of a loaded blog: the RESTRICT foreign key refuses, the refusal
\* is audited in a transaction of its own.
RefuseDeleteBlog(b) ==
  /\ BlogExists(b)
  /\ ~IsEmpty(b)
  /\ emitted' = {BlogFact("blog_delete_refused", b, {})}
  /\ UNCHANGED <<blogVars, rowVars, archivedBy, touched>>

-----------------------------------------------------------------------------
(* Post verbs *)

\* Fault: the create binds the blog's id where its website belongs.
SiteColumnMixup(b) == b

\* SELECT website_id FROM blogs: the owned column is derived, never sent.
DerivedSite(b) == blogSite[b]

\* The parent may be archived: the verb only asks that it exists.
CreatePost(p, b) ==
  /\ ~PostExists(p)
  /\ BlogExists(b)
  /\ postBlog' = [postBlog EXCEPT ![p] = b]
  /\ postSite' = [postSite EXCEPT ![p] = DerivedSite(b)]
  /\ touched' = [touched EXCEPT ![p] = TRUE]
  /\ emitted' = {PostFact("post_created", p, {})}
  /\ UNCHANGED <<blogVars, published, archived, marker, archivedBy>>

\* PATCH of whitelisted columns, none of which is modelled here.
PatchPost(p) ==
  /\ PostExists(p)
  /\ emitted' = {PostFact("post_updated", p, {})}
  /\ UNCHANGED <<blogVars, rowVars, archivedBy, touched>>

\* PATCH carrying is_published or published_date: refused, and audited.
RefuseFencedPatch(p) ==
  /\ PostExists(p)
  /\ emitted' = {PostFact("publish_refused", p, {})}
  /\ UNCHANGED <<blogVars, rowVars, archivedBy, touched>>

\* Fault: the guarded flip ignores the flag it has read.
NeverAlreadyPublished(p) == FALSE

\* The flag read FOR UPDATE: a published post answers changed = false.
AlreadyPublished(p) == published[p]

\* Nothing asks whether the post, or its blog, is archived.
PublishPost(p) ==
  /\ PostExists(p)
  /\ ~AlreadyPublished(p)
  /\ published' = [published EXCEPT ![p] = TRUE]
  /\ emitted' = {PostFact("post_published", p, {})}
  /\ UNCHANGED <<blogVars, postBlog, postSite, archived, marker, archivedBy, touched>>

UnpublishPost(p) ==
  /\ PostExists(p)
  /\ published[p]
  /\ published' = [published EXCEPT ![p] = FALSE]
  /\ emitted' = {PostFact("post_unpublished", p, {})}
  /\ UNCHANGED <<blogVars, postBlog, postSite, archived, marker, archivedBy, touched>>

\* Archive of a live post, the forced unpublish in the same UPDATE; the
\* marker column is not in its SET list.
ArchivePost(p) ==
  /\ PostExists(p)
  /\ ~archived[p]
  /\ archived' = [archived EXCEPT ![p] = TRUE]
  /\ published' = [published EXCEPT ![p] = FALSE]
  /\ archivedBy' = [archivedBy EXCEPT ![p] = "post"]
  /\ emitted' = {PostFact("post_archived", p, IF published[p] THEN {p} ELSE {})}
  /\ UNCHANGED <<blogVars, postBlog, postSite, marker, touched>>

\* Liveness only: neither the flag nor the marker is in the SET list, and
\* the row need not be archived.
UnarchivePost(p) ==
  /\ PostExists(p)
  /\ archived' = [archived EXCEPT ![p] = FALSE]
  /\ archivedBy' = [archivedBy EXCEPT ![p] = "nobody"]
  /\ touched' = [touched EXCEPT ![p] = TRUE]
  /\ emitted' = {PostFact("post_unarchived", p, {})}
  /\ UNCHANGED <<blogVars, postBlog, postSite, published, marker>>

\* The idempotent arms: the verb succeeds and writes nothing.
NothingWritten ==
  /\ emitted' = {}
  /\ UNCHANGED <<blogVars, rowVars, archivedBy, touched>>

PublishAgain(p) == PostExists(p) /\ AlreadyPublished(p) /\ NothingWritten
UnpublishAgain(p) == PostExists(p) /\ ~published[p] /\ NothingWritten
ArchiveAgain(p) == PostExists(p) /\ archived[p] /\ NothingWritten

-----------------------------------------------------------------------------

BlogVerb(b) ==
  \/ \E s \in Sites : CreateBlog(b, s) \/ MoveBlog(b, s)
  \/ PatchBlog(b)
  \/ ArchiveBlog(b)
  \/ UnarchiveBlog(b)
  \/ DeleteBlog(b)
  \/ RefuseDeleteBlog(b)

PostVerb(p) ==
  \/ \E b \in Blogs : CreatePost(p, b)
  \/ PatchPost(p)
  \/ RefuseFencedPatch(p)
  \/ PublishPost(p)
  \/ UnpublishPost(p)
  \/ ArchivePost(p)
  \/ UnarchivePost(p)
  \/ PublishAgain(p) \/ UnpublishAgain(p) \/ ArchiveAgain(p)

Next ==
  \/ \E b \in Blogs : BlogVerb(b)
  \/ \E p \in Posts : PostVerb(p)

Spec == Init /\ [][Next]_vars

-----------------------------------------------------------------------------
(* What the verbs keep true *)

\* A post's blog exists and repeats its website, whatever moves, deletes and
\* creates came before: the belt (the move's NOT EXISTS, the delete's foreign
\* key, the derived column) is enough when verbs run one at a time.
PostsBelong ==
  \A p \in Posts : PostExists(p) =>
    /\ BlogExists(postBlog[p])
    /\ postSite[p] = blogSite[postBlog[p]]

\* A cascade marker names the post's own blog, and that blog is archived:
\* single post verbs leave markers alone, so a live blog must have taken
\* every one of its markers away when it was unarchived.
MarkerInForce ==
  \A p \in Posts : marker[p] # None =>
    /\ marker[p] = postBlog[p]
    /\ blogArchived[marker[p]]

\* A post whose archive is a cascade's still carries the marker, so the
\* blog's unarchive will find it: the cascade strands no post.
CascadeRestorable ==
  \A p \in Posts : archivedBy[p] = "blog" => archived[p] /\ marker[p] = postBlog[p]

\* Until the post itself is unarchived, archiving its blog keeps it archived:
\* publishing it, archiving the blog again or unarchiving another blog cannot
\* bring it into view.
UntouchedStayArchived ==
  \A p \in Posts :
    PostExists(p) /\ blogArchived[postBlog[p]] /\ ~touched[p] => archived[p]

\* The audit rows that take a publication away from post p.
Withdraws(f, p) ==
  \/ f = PostFact("post_unpublished", p, {})
  \/ f = PostFact("post_archived", p, {p})
  \/ f.event = "blog_archived" /\ p \in f.counted

\* The audit row is the event: a post_published row is appended exactly when
\* the flag rises, and no flag falls without a row that says so, be it the
\* cascade's count.
FlagAudited ==
  [][\A p \in Posts :
       /\ (~published[p] /\ published'[p]) <=> (PostFact("post_published", p, {}) \in emitted')
       /\ published[p] /\ ~published'[p] => \E f \in emitted' : Withdraws(f, p)]_vars

\* posts_cascade counts the posts that went from live to archived, and every
\* post that came back is among those posts_restored counts.
CascadeAudited ==
  [][\A f \in emitted' :
       /\ f.event = "blog_archived" =>
            f.counted = {p \in Posts : ~archived[p] /\ archived'[p]}
       /\ f.event = "blog_unarchived" =>
            {p \in Posts : archived[p] /\ ~archived'[p]} \subseteq f.counted]_vars

Promise == INSTANCE EditorialPromise WITH
  approved <- {p \in Posts : published[p]},
  shown <- {p \in Posts : Visible(p)}

\* Through creates, moves, cascades and restores, a post is seen only under a
\* publication in force, and leaves the view only with it.
KeepsEditorialPromise == Promise!Spec

-----------------------------------------------------------------------------
(* What the repository says and the verbs do not keep: TLC refutes each of
   these when it is added to the run *)

\* schema/models/post.model.yaml on archived_by_blog_id: individually archived
\* posts never carry the cascade marker.
SingleArchiveUnmarked ==
  \A p \in Posts : archivedBy[p] = "post" => marker[p] = None

\* Decision D5 in SPEC.md: archive forces the unpublish, so that the flag is
\* false when an unarchive leaves it untouched.
ArchivedUnpublished ==
  \A p \in Posts : archived[p] => ~published[p]

\* SPEC.md on the post fence: the posts of an archived blog are archived and
\* unpublished, which is why the fence does not look at the blog.
ArchivedBlogDark ==
  \A p \in Posts : PostExists(p) /\ blogArchived[postBlog[p]] => ~Visible(p)

=============================================================================
