----------------------------- MODULE PublicReads -----------------------------
(***************************************************************************)
(* What the readers of one blog are answered while editors, visits and the *)
(* clock change it: the listing and its pages, the detail with its next    *)
(* post, the tag cloud, the admin's rows and counts.  A public read is a   *)
(* transaction at READ COMMITTED: each statement sees what is committed    *)
(* when it runs, and now() is the start of the transaction in all of them. *)
(* The admin's two statements are two transactions.  The tags that are     *)
(* modelled are those of one slug: a deleted tag leaves its slug free, and *)
(* the walls that kept it to one live tag are the composing service's.     *)
(***************************************************************************)
EXTENDS Naturals, FiniteSets

CONSTANTS
  Posts,      \* identifiers, compared as numbers
  Tags,       \* the rows of tags with one slug, live and soft-deleted
  Links,      \* rows of post_tags with these tags, live and soft-deleted ones,
              \* compared as numbers; TagLinks has how they come and go
  LinkPost, LinkTag,
  PageSize,
  AdminLimit, \* the limit of the admin's listing
  Horizon,    \* the last instant
  MaxVisits   \* bound of the counters

ASSUME PostsAreNumbers == IsFiniteSet(Posts) /\ Posts \subseteq Nat \ {0}
ASSUME LinksJoin ==
  /\ IsFiniteSet(Links) /\ Links \subseteq Nat \ {0}
  /\ LinkPost \in [Links -> Posts] /\ LinkTag \in [Links -> Tags]
ASSUME PagesHold == PageSize \in Nat \ {0} /\ AdminLimit \in Nat \ {0}
ASSUME BoundsAssumption == Horizon \in Nat /\ MaxVisits \in Nat

VARIABLES
  clock,
  date,      \* posts.post_date
  open,      \* published and not archived
  visits,
  binned,    \* tags that are soft-deleted
  pc,        \* the reader: idle, or the statement it ran last
  reading,   \* [order, tagged] of a walk through the listing
  began,     \* now() of the reader's transaction
  page,      \* the page asked for
  got,       \* how many items were on it
  row,       \* the post and date a detail has read
  note,      \* what a cloud or the admin's listing said, of which tag or state
  seen,      \* history: posts on the pages of the walk
  steady,    \* history: posts visible and unmoved since the walk or detail began
  slipped,   \* history: a post of the listing has slipped (see Edit)
  quiet      \* history: no post was written since the items, the cloud or the
             \* admin's rows were read

content == <<date, open, visits>>
walk == <<reading, page, got, seen, slipped>>
vars == <<clock, content, binned, pc, walk, quiet, began, row, note, steady>>

Instants == 0..Horizon
Orders == {"recent", "visits"}
States == {"all", "published", "unpublished"}
NoWalk == [order |-> "recent", tagged |-> FALSE]
NoRow == [post |-> 0, date |-> 0]
NoNote == [about |-> "all", number |-> 0]

TypeOK ==
  /\ clock \in Instants
  /\ date \in [Posts -> Instants]
  /\ open \subseteq Posts
  /\ visits \in [Posts -> 0..MaxVisits]
  /\ binned \subseteq Tags
  /\ pc \in {"idle", "asking", "items", "row", "wrapped", "cloud", "admin"}
  /\ reading \in [order : Orders, tagged : BOOLEAN]
  /\ began \in 0..clock
  /\ page \in Nat \ {0}
  /\ got \in 0..PageSize
  /\ row \in [post : Posts \cup {0}, date : Instants]
  /\ note \in [about : Tags \cup States, number : Nat]
  /\ seen \subseteq Posts /\ steady \subseteq Posts
  /\ slipped \in BOOLEAN /\ quiet \in BOOLEAN

Init ==
  /\ clock \in Instants
  /\ date \in [Posts -> Instants]
  /\ open = {}
  /\ visits = [p \in Posts |-> 0]
  /\ binned = {}
  /\ pc = "idle"
  /\ reading = NoWalk
  /\ began = 0
  /\ page = 1
  /\ got = 0
  /\ row = NoRow
  /\ note = NoNote
  /\ seen = {} /\ steady = {}
  /\ slipped = FALSE /\ quiet = FALSE

-----------------------------------------------------------------------------
(* The statements *)

\* Fault: dates are compared with the time of the statement.
VisibleByWallClock(now) == {p \in open : date[p] <= clock}

\* The predicate every public statement carries.
Visible(now) == {p \in open : date[p] <= now}

\* Fault: ties are left to the database.
OlderByDate(p, d, q) == date[p] < d

\* Fault: the comparison takes in the post itself.
OlderOrSame(p, d, q) == date[p] < d \/ (date[p] = d /\ p <= q)

\* (post_date, id) < ($3, $4)
Older(p, d, q) == date[p] < d \/ (date[p] = d /\ p < q)

\* ORDER BY, newest first.
Ahead(p, q) == date[p] > date[q] \/ (date[p] = date[q] /\ p > q)

MoreVisited(p, q) == visits[p] > visits[q] \/ (visits[p] = visits[q] /\ Ahead(p, q))

\* One item per post, or per row of its join with the tags of the slug.
Copies(p, tagged) == IF tagged THEN {l \in Links : LinkPost[l] = p} ELSE {0}

Items(r, now) == UNION {{p} \X Copies(p, r.tagged) : p \in Visible(now)}

Before(r, x, y) ==
  IF x[1] = y[1] THEN x[2] < y[2]
  ELSE IF r.order = "recent" THEN Ahead(x[1], y[1]) ELSE MoreVisited(x[1], y[1])

\* Fault: the first page is page zero.
SkipFirst(n) == n * PageSize

Offset(n) == (n - 1) * PageSize

\* Fault: a page takes one item too many.
OneTooMany(n) == Offset(n)..(Offset(n) + PageSize)

Span(n) == Offset(n)..(Offset(n) + PageSize - 1)

\* LIMIT and OFFSET, by how many items are ahead.
OnPage(r, now, n) ==
  {x \in Items(r, now) :
     Cardinality({y \in Items(r, now) : Before(r, y, x)}) \in Span(n)}

Count(r, now) == Cardinality(Items(r, now))

\* The post that no other in the set is ahead of.
Newest(set) == CHOOSE p \in set : \A q \in set \ {p} : Ahead(p, q)

Olders(now, p, d) == {q \in Visible(now) : Older(q, d, p)}

\* The next older visible post or, past the oldest, the newest; 0 for none.
NavNext(now, p, d) ==
  IF Olders(now, p, d) # {} THEN Newest(Olders(now, p, d))
  ELSE IF Visible(now) # {} THEN Newest(Visible(now)) ELSE 0

\* Fault: the cloud forgets that dates may lie ahead.
CloudOfOpen(now) == open

CloudPosts(now) == Visible(now)

\* A tag's number: its rows of the join, not its posts.
CloudCount(k, now) == Cardinality({l \in Links : LinkTag[l] = k /\ LinkPost[l] \in CloudPosts(now)})

\* ?state=, in the rows of the admin's listing.
AdminRows(state, now) ==
  CASE state = "published" -> {p \in open : date[p] <= now}
    [] state = "unpublished" -> {p \in Posts : ~(p \in open /\ date[p] <= now)}
    [] OTHER -> Posts

\* Fault: the counts go by the flag alone.
CountsByFlag(now) ==
  [published |-> Cardinality(open), unpublished |-> Cardinality(Posts \ open)]

\* The counts beside them.
StateCounts(now) ==
  [published   |-> Cardinality({p \in open : date[p] <= now}),
   unpublished |-> Cardinality({p \in Posts : ~(p \in open /\ date[p] <= now)})]

Least(m, n) == IF m <= n THEN m ELSE n

-----------------------------------------------------------------------------
(* A reader walks through the pages of the listing *)

OpenWalk(r) ==
  /\ pc = "idle"
  /\ pc' = "asking"
  /\ reading' = r
  /\ page' = 1
  /\ began' = clock
  /\ seen' = {}
  /\ steady' = Visible(clock)
  /\ slipped' = FALSE
  /\ UNCHANGED <<clock, content, binned, got, row, note, quiet>>

ReadItems ==
  /\ pc = "asking"
  /\ pc' = "items"
  /\ seen' = seen \cup {x[1] : x \in OnPage(reading, began, page)}
  /\ got' = Cardinality(OnPage(reading, began, page))
  /\ quiet' = TRUE
  /\ UNCHANGED <<clock, content, binned, reading, began, page, row, note, steady, slipped>>

Rest ==
  /\ pc' = "idle"
  /\ began' = 0
  /\ steady' = {}

LeaveWalk ==
  /\ Rest
  /\ page' = 1
  /\ reading' = NoWalk
  /\ seen' = {}
  /\ slipped' = FALSE

\* Every page resolves the slug anew: the answer is a 404 without a live tag,
\* a redirect with several.
Missed ==
  /\ pc = "asking"
  /\ reading.tagged
  /\ Cardinality(Tags \ binned) # 1
  /\ LeaveWalk
  /\ UNCHANGED <<clock, content, binned, got, row, note, quiet>>

\* The count is a statement of its own; the reader asks for the next page
\* while it promises one.
ReadTotal ==
  /\ pc = "items"
  /\ quiet' = FALSE
  /\ got' = 0
  /\ IF page * PageSize < Count(reading, began)
       THEN /\ pc' = "asking"
            /\ page' = page + 1
            /\ began' = clock
            /\ UNCHANGED <<reading, seen, steady, slipped>>
       ELSE LeaveWalk
  /\ UNCHANGED <<clock, content, binned, row, note>>

-----------------------------------------------------------------------------
(* The other reads *)

\* The detail of a post: the row, then its tags, which are left out, then its
\* next post.
ReadRow(p) ==
  /\ pc = "idle"
  /\ p \in Visible(clock)
  /\ pc' = "row"
  /\ began' = clock
  /\ row' = [post |-> p, date |-> date[p]]
  /\ steady' = Visible(clock)
  /\ UNCHANGED <<clock, content, binned, walk, quiet, note>>

LeaveRow ==
  /\ Rest
  /\ row' = NoRow

\* The next older post answers; without one the newest is asked for.
ReadOlder ==
  /\ pc = "row"
  /\ IF Olders(began, row.post, row.date) # {}
       THEN LeaveRow
       ELSE pc' = "wrapped" /\ UNCHANGED <<began, row, steady>>
  /\ UNCHANGED <<clock, content, binned, walk, quiet, note>>

ReadNewest ==
  /\ pc = "wrapped"
  /\ LeaveRow
  /\ UNCHANGED <<clock, content, binned, walk, quiet, note>>

\* A live tag in the cloud, with at least one row.
ReadCloud(k) ==
  /\ pc = "idle"
  /\ k \notin binned
  /\ CloudCount(k, clock) >= 1
  /\ pc' = "cloud"
  /\ began' = clock
  /\ note' = [about |-> k, number |-> CloudCount(k, clock)]
  /\ quiet' = TRUE
  /\ UNCHANGED <<clock, content, binned, walk, row, steady>>

ReadAdminRows(state) ==
  /\ pc = "idle"
  /\ pc' = "admin"
  /\ began' = clock
  /\ note' = [about |-> state, number |-> Least(AdminLimit, Cardinality(AdminRows(state, clock)))]
  /\ quiet' = TRUE
  /\ UNCHANGED <<clock, content, binned, walk, row, steady>>

\* The counts that the admin reads beside the rows, or the listing that a
\* reader opens at a tag of the cloud.
ReadOn ==
  /\ pc \in {"cloud", "admin"}
  /\ Rest
  /\ note' = NoNote
  /\ quiet' = FALSE
  /\ UNCHANGED <<clock, content, binned, walk, row>>

-----------------------------------------------------------------------------
(* Editors, visits, time *)

\* A post slips that is closed, moves back, or is dated past the now() of the
\* reader's transaction.
Edit(p, d, o) ==
  /\ <<d, o>> # <<date[p], p \in open>>
  /\ date' = [date EXCEPT ![p] = d]
  /\ open' = IF o THEN open \cup {p} ELSE open \ {p}
  /\ steady' = steady \ {p}
  /\ slipped' = (slipped \/ (pc \in {"asking", "items"} /\ p \in Visible(clock)
                                 /\ (~o \/ d < date[p] \/ d > began)))
  /\ quiet' = FALSE
  /\ UNCHANGED <<clock, visits, binned, pc, reading, began, page, got, row, note, seen>>

Visit(p) ==
  /\ p \in Visible(clock)
  /\ visits[p] < MaxVisits
  /\ visits' = [visits EXCEPT ![p] = @ + 1]
  /\ steady' = IF reading.order = "visits" THEN steady \ {p} ELSE steady
  /\ quiet' = FALSE
  /\ UNCHANGED <<clock, date, open, binned, pc, reading, began, page, got, row, note, seen, slipped>>

\* A tag is deleted or restored.
TurnTag(k) ==
  /\ binned' = IF k \in binned THEN binned \ {k} ELSE binned \cup {k}
  /\ UNCHANGED <<clock, content, pc, walk, quiet, began, row, note, steady>>

Tick ==
  /\ clock < Horizon
  /\ clock' = clock + 1
  /\ UNCHANGED <<content, binned, pc, walk, quiet, began, row, note, steady>>

Next ==
  \/ \E r \in [order : Orders, tagged : BOOLEAN] : OpenWalk(r)
  \/ Missed \/ ReadItems \/ ReadTotal
  \/ \E p \in Posts : ReadRow(p)
  \/ ReadOlder \/ ReadNewest
  \/ \E k \in Tags : ReadCloud(k)
  \/ \E state \in States : ReadAdminRows(state)
  \/ ReadOn
  \/ \E p \in Posts, d \in Instants, o \in BOOLEAN : Edit(p, d, o)
  \/ \E p \in Posts : Visit(p)
  \/ \E k \in Tags : TurnTag(k)
  \/ Tick

Spec == Init /\ [][Next]_vars

-----------------------------------------------------------------------------
(* Properties *)

\* The next post of a detail is another one as long as another stays visible
\* and the post itself is not edited meanwhile, whichever of the two
\* statements of nav_next answers.
NextMovesOn ==
  /\ pc = "row" /\ row.post \in steady /\ Olders(began, row.post, row.date) # {} =>
       Newest(Olders(began, row.post, row.date)) # row.post
  /\ pc = "wrapped" /\ row.post \in steady /\ steady # {row.post} =>
       Newest(Visible(began)) # row.post

\* The posts a reader comes by who follows next posts from p.
Tour(p) ==
  LET stop[n \in Nat] == IF n = 0 THEN p
                         ELSE LET q == stop[n - 1] IN NavNext(clock, q, date[q])
  IN {stop[n] : n \in 0..Cardinality(Posts)}

\* Types hold, and following next posts from any visible one is a tour of all
\* of them, whatever dates tie; read statement by statement it still moves on.
TourIsCycle ==
  /\ TypeOK
  /\ NextMovesOn
  /\ \A p \in Visible(clock) : Tour(p) = Visible(clock)

\* Posts that have fallen due since the reader's transaction began.
Due == {p \in open : began < date[p] /\ date[p] <= clock}

\* The listing a reader opens at a tag of the cloud has the rows the cloud
\* counted, and besides only those of other tags of the same slug, deleted
\* ones too, and of posts that have fallen due: it may be longer than the
\* number, whoever deletes or restores tags, and never shorter.
ListingHoldsCloud ==
  pc = "cloud" /\ quiet =>
    Count([order |-> "recent", tagged |-> TRUE], clock) =
      note.number + Cardinality({l \in Links : LinkPost[l] \in Visible(clock)
                                               /\ (LinkTag[l] # note.about \/ LinkPost[l] \in Due)})

\* The admin's rows and the counts beside them are two transactions, each with
\* its own now(): the counts are of the rows, up to the limit, with the posts
\* that have fallen due between the two moved from unpublished to published.
CountsFitRows ==
  pc = "admin" /\ quiet =>
    LET counts == StateCounts(clock)
    IN note.number = Least(AdminLimit,
         CASE note.about = "published" -> counts.published - Cardinality(Due)
           [] note.about = "unpublished" -> counts.unpublished + Cardinality(Due)
           [] OTHER -> counts.published + counts.unpublished)

\* A walk to the last page meets every post of the listing that stayed
\* visible and unmoved meanwhile, with posts and visits coming in as they
\* like; unless a post slipped out of the listing or back in it.
WalkMissesNothing ==
  pc = "items" /\ page * PageSize >= Count(reading, began) /\ ~slipped =>
    {p \in steady : Copies(p, reading.tagged) # {}} \subseteq seen

\* Items and count are two statements, and agree when no write comes between
\* them, even if a post falls due: the page holds the items the count leaves
\* for it.
CountFitsItems ==
  pc = "items" /\ quiet =>
    got = CASE page * PageSize <= Count(reading, began) -> PageSize
            [] Count(reading, began) <= Offset(page) -> 0
            [] OTHER -> Count(reading, began) - Offset(page)

=============================================================================
