---------------------------- MODULE SlugRedirects ----------------------------
(***************************************************************************)
(* Slugs that move and the redirects that should follow them.  A patch of  *)
(* a post or a tag reads the old slug without a lock, updates the row, and *)
(* records the redirect after its commit, when the process may be gone or  *)
(* the website layer refuse.  The redirect table belongs to the website    *)
(* layer: one answer per path, the last one recorded.                      *)
(*                                                                         *)
(* Posts and tags go through the same steps on tables and paths of their   *)
(* own; a behaviour is about the one kind or the other.  Public requests   *)
(* are operators over the state: DetailAnswer for a post, ListingAnswer    *)
(* for a tag filter.  One website, one live blog.                          *)
(*                                                                         *)
(* No name of this module is one of PublicReads, so that one module can    *)
(* extend both.                                                            *)
(***************************************************************************)
EXTENDS Naturals, Sequences, FiniteSets

CONSTANTS
  Editors,  \* requests that patch a row, each running one at a time
  Rows,     \* posts of the blog, or tags
  Slugs,    \* normalized slugs
  Names,    \* slugs derived from names the blog may have
  None,     \* no row, no redirect
  Gone      \* the website's answer without a target

ASSUME FewSlugs == IsFiniteSet(Slugs)
ASSUME SpecialValues ==
  /\ None \notin Slugs \cup Rows
  /\ None \notin {"list", "see"} \X Slugs
  /\ {None, Gone} \cap (Names \X Slugs) = {}

VARIABLES
  kind,      \* what the rows are
  slug,      \* posts.slug, tags.slug; None for a deleted tag
  shown,     \* rows the public tier reads; every tag
  name,      \* the derived slug of the blog's name
  redirect,  \* the website layer's table
  stage,     \* where each editor's request is
  edited,    \* the row it patches
  before,    \* the slug it read first
  after,     \* the slug its update returned
  served,    \* history: paths that were served under the blog's name
  lost,      \* history: paths whose redirect was lost or set by somebody else
  late       \* history: editors whose old slug was taken and left again
             \*          between their commit and their record

site == <<kind, slug, shown, name>>
request == <<stage, edited, before, after>>
history == <<served, lost, late>>
slugVars == <<site, redirect, request, history>>

\* A post's path has the blog's name, a tag's path is the same in every blog.
Paths == Names \X Slugs

SlugTypeOK ==
  /\ kind \in {"post", "tag"}
  /\ slug \in [Rows -> Slugs \cup {None}]
  /\ \A r, q \in Rows : r # q /\ slug[r] = slug[q] => slug[r] = None
  /\ shown \subseteq Rows
  /\ name \in Names
  /\ redirect \in [Paths -> Paths \cup {None, Gone}]
  /\ stage \in [Editors -> {"idle", "looked", "committed"}]
  /\ edited \in [Editors -> Rows \cup {None}]
  /\ before \in [Editors -> Slugs \cup {None}]
  /\ after \in [Editors -> Slugs \cup {None}]
  /\ served \subseteq Paths
  /\ lost \subseteq Paths
  /\ late \subseteq Editors

SlugInit ==
  /\ kind \in {"post", "tag"}
  /\ slug \in {f \in [Rows -> Slugs] : \A r, q \in Rows : r # q => f[r] # f[q]}
  /\ shown = IF kind = "tag" THEN Rows ELSE {}
  /\ name \in Names
  /\ redirect = [p \in Paths |-> None]
  /\ stage = [e \in Editors |-> "idle"]
  /\ edited = [e \in Editors |-> None]
  /\ before = [e \in Editors |-> None]
  /\ after = [e \in Editors |-> None]
  /\ served = {<<name, slug[r]>> : r \in shown}
  /\ lost = {}
  /\ late = {}

PathOf(s) == <<name, s>>

\* Paths that show a row now.
Serving == {PathOf(slug[r]) : r \in {q \in shown : slug[q] # None}}

-----------------------------------------------------------------------------
(* Public requests *)

\* Fault: a miss is a miss.
NoSeam(path) == None

\* The website layer is asked for the missed path, once.
SeamAnswer(path) == redirect[path]

\* A blog name that nobody has is a miss that asks nobody.
DetailAnswer(path) ==
  CASE path[1] # name -> None
    [] path \in Serving -> path
    [] OTHER -> SeamAnswer(path)

\* The slug a member of a tag filter stands for: its own, or the last
\* segment of the seam's target, which is not looked up again.
Canonical(s) ==
  IF PathOf(s) \in Serving \/ SeamAnswer(PathOf(s)) \notin Paths
    THEN s ELSE SeamAnswer(PathOf(s))[2]

\* The members of a filter that are tags, asked for in one statement.
Found(asked) == {s \in asked : PathOf(s) \in Serving}

\* One unknown member is a miss.  Of several canonical slugs the first is
\* redirected to, a tag's own where there is one; a single one is listed,
\* whether there is such a tag or not.
ListingAnswer(asked) ==
  LET found == Found(asked)
  IN IF \E s \in asked \ found : SeamAnswer(PathOf(s)) \notin Paths THEN {None}
     ELSE IF Cardinality(asked) = 1 THEN {<<"list", Canonical(s)>> : s \in asked}
     ELSE {<<"see", Canonical(s)>> : s \in IF found # {} THEN found ELSE asked}

-----------------------------------------------------------------------------
(* Patch: read the slug, update and commit, record the redirect *)

Look(e, r) ==
  /\ stage[e] = "idle"
  /\ slug[r] # None
  /\ stage' = [stage EXCEPT ![e] = "looked"]
  /\ edited' = [edited EXCEPT ![e] = r]
  /\ before' = [before EXCEPT ![e] = slug[r]]
  /\ UNCHANGED <<site, redirect, after, history>>

Finish(e) ==
  /\ stage' = [stage EXCEPT ![e] = "idle"]
  /\ edited' = [edited EXCEPT ![e] = None]
  /\ before' = [before EXCEPT ![e] = None]
  /\ after' = [after EXCEPT ![e] = None]

\* Fault: the index covers visible rows only.
TakenInPublic(r, s) == \E q \in shown \ {r} : slug[q] = s

\* uq_posts_blog_slug for posts, the composing service's unique for tags.
Taken(r, s) ==
  \E q \in Rows \ {r} : slug[q] = s

\* A slug that is taken or a tag deleted since the look fails the request.
PatchFails(e) ==
  /\ stage[e] = "looked"
  /\ \/ slug[edited[e]] = None
     \/ \E s \in Slugs : Taken(edited[e], s)
  /\ Finish(e)
  /\ UNCHANGED <<site, redirect, history>>

\* Compared with the slug that was read first.
Changed(e, s) == before[e] # s

\* Requests that have still to record the path this row leaves now.
Overtaken(r) ==
  {f \in Editors : stage[f] = "committed" /\ before[f] = slug[r]}

\* The row takes slug s.  What it leaves is lost when the request did not
\* read it.
Patch(e, s) ==
  LET r == edited[e]
  IN /\ stage[e] = "looked"
     /\ slug[r] # None
     /\ ~Taken(r, s)
     /\ slug' = [slug EXCEPT ![r] = s]
     /\ served' = IF r \in shown THEN served \cup {PathOf(s)} ELSE served
     /\ lost' = IF slug[r] \in {before[e], s} THEN lost ELSE lost \cup {PathOf(slug[r])}
     /\ late' = IF slug[r] = s THEN late ELSE late \cup Overtaken(r)
     /\ IF Changed(e, s)
          THEN /\ stage' = [stage EXCEPT ![e] = "committed"]
               /\ after' = [after EXCEPT ![e] = s]
               /\ UNCHANGED <<edited, before>>
          ELSE Finish(e)
     /\ UNCHANGED <<kind, shown, name, redirect>>

\* Fault: the recorder swaps its arguments.
Swapped(e) == <<PathOf(after[e]), PathOf(before[e])>>

\* From the slug read first to the one the update returned, under the
\* blog's name of now.
Move(e) == <<PathOf(before[e]), PathOf(after[e])>>

Record(e) ==
  /\ stage[e] = "committed"
  /\ redirect' = [redirect EXCEPT ![Move(e)[1]] = Move(e)[2]]
  /\ lost' = IF e \in late THEN lost \cup {PathOf(before[e])}
                            ELSE lost \ {PathOf(before[e])}
  /\ late' = late \ {e}
  /\ Finish(e)
  /\ UNCHANGED <<site, served>>

\* The process is gone, there is no surface, it refuses, or the body of a
\* tag patch names no website.
NotRecorded(e) ==
  /\ stage[e] = "committed"
  /\ lost' = lost \cup {PathOf(before[e])}
  /\ late' = late \ {e}
  /\ Finish(e)
  /\ UNCHANGED <<site, redirect, served>>

-----------------------------------------------------------------------------
(* The rest of the world *)

Show(p) ==
  /\ kind = "post"
  /\ p \notin shown
  /\ shown' = shown \cup {p}
  /\ served' = served \cup {PathOf(slug[p])}
  /\ UNCHANGED <<kind, slug, name, redirect, request, lost, late>>

Hide(p) ==
  /\ kind = "post"
  /\ p \in shown
  /\ shown' = shown \ {p}
  /\ UNCHANGED <<kind, slug, name, redirect, request, history>>

\* No redirect is recorded for a blog, whose derived slug moves every path.
RenameBlog(n) ==
  /\ kind = "post"
  /\ name # n
  /\ name' = n
  /\ served' = {<<n, slug[p]>> : p \in shown}
  /\ UNCHANGED <<kind, slug, shown, redirect, request, lost, late>>

DeleteTag(k) ==
  /\ kind = "tag"
  /\ slug[k] # None
  /\ slug' = [slug EXCEPT ![k] = None]
  /\ lost' = lost \cup {PathOf(slug[k])}
  /\ UNCHANGED <<kind, shown, name, redirect, request, served, late>>

CreateTag(k, s) ==
  /\ kind = "tag"
  /\ slug[k] = None
  /\ \A e \in Editors : edited[e] # k
  /\ ~Taken(k, s)
  /\ slug' = [slug EXCEPT ![k] = s]
  /\ served' = served \cup {PathOf(s)}
  /\ UNCHANGED <<kind, shown, name, redirect, request, lost, late>>

\* The website layer's own administration.
MarkGone(path) ==
  /\ redirect[path] # Gone
  /\ redirect' = [redirect EXCEPT ![path] = Gone]
  /\ lost' = lost \cup {path}
  /\ UNCHANGED <<site, request, served, late>>

SlugNext ==
  \/ \E e \in Editors :
       \/ \E r \in Rows : Look(e, r)
       \/ \E s \in Slugs : Patch(e, s)
       \/ PatchFails(e) \/ Record(e) \/ NotRecorded(e)
  \/ \E r \in Rows : Show(r) \/ Hide(r) \/ DeleteTag(r) \/ \E s \in Slugs : CreateTag(r, s)
  \/ \E n \in Names : RenameBlog(n)
  \/ \E path \in Paths : MarkGone(path)

SlugSpec == SlugInit /\ [][SlugNext]_slugVars

-----------------------------------------------------------------------------
(* Properties *)

\* Where a reader is who follows the redirects from a path, n hops on.
Route(path) ==
  LET stop[n \in Nat] ==
        IF n = 0 THEN path
        ELSE LET p == stop[n - 1] IN IF p \in Paths THEN DetailAnswer(p) ELSE p
  IN stop

\* Paths whose redirect is still to be recorded.
Pending == {PathOf(before[e]) : e \in {f \in Editors : stage[f] = "committed"}}

\* Types hold, and while the posts are visible, every path that served one under the blog's
\* present name still ends at a page, over as many hops as it takes and
\* never in a circle, however slugs pass from post to post; unless a
\* redirect on the way was lost or is still to be recorded.
OldPathsLand ==
  /\ SlugTypeOK
  /\ kind = "post" /\ shown = Rows =>
       \A path \in served :
         \/ Route(path)[Cardinality(Slugs)] \in Serving
         \/ \E n \in 0..Cardinality(Slugs) : Route(path)[n] \in lost \cup Pending

\* A filter by slugs tags have had is answered, by a listing or by one
\* redirect to a listing, unless the redirect of one of them was lost or is
\* still to be recorded.
OldTagsAnswered ==
  kind = "tag" =>
    \A asked \in SUBSET Slugs \ {{}} :
      (\A s \in asked : PathOf(s) \in served \ (lost \cup Pending)) =>
        \A a \in ListingAnswer(asked) :
          /\ a # None
          /\ a[1] = "see" => \/ \A b \in ListingAnswer({a[2]}) : b # None /\ b[1] = "list"
                            \/ PathOf(a[2]) \in lost \cup Pending

-----------------------------------------------------------------------------
(* What the documentation says and the code does not keep: TLC refutes each
   of these when it is added to the run *)

\* "Unknown slug: the uniform 404": a listing is of a tag.
ListedTagExists ==
  kind = "tag" =>
    \A s \in Slugs : \A a \in ListingAnswer({s}) :
      a # None => PathOf(a[2]) \in Serving \cup lost \cup Pending

\* "The uniform 404 (no oracle)" of a post that was never visible.
HiddenIsUniform ==
  kind = "post" =>
    \A path \in Paths \ served : DetailAnswer(path) \in {None, Gone}

=============================================================================
