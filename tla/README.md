# Verification of backbone-blog

TLA+ models of backbone-blog, a Rust module that keeps blogs, posts, tags and visit counters in PostgreSQL
(schema `blog`) behind an admin and a public HTTP surface. The models are translated from the code at the lines
`PROJECT.json` names; this file says what the system is, which module models which part, what TLC checks, what TLAPS
proves, and what is left.

## 1. The system

| Component | State | Operations | Where |
|---|---|---|---|
| Blog verbs | `blogs`: website, name, archived_at | create, patch, move website, archive (cascade), unarchive (restore), delete | `blog_command_repository.rs`, `blog_service.rs` |
| Post verbs | `posts`: blog, website, slug, is_published, published_date, post_date, archived_at, archived_by_blog_id, visits | create, patch, publish, unpublish, archive, unarchive, set_tags | `post_command_repository.rs`, `post_service.rs` |
| Notifier port | none here | `post_published`, awaited inside the publish transaction | `notifier_port.rs` |
| Visit verb | `post_view_receipts`, `posts.visits` | one transaction: resolve, receipt, increment, prune | `visit_command_repository.rs` |
| Visit throttle | in-memory fixed windows per address and per token | `allow` | `visit_service.rs` |
| Capability tokens | none; the client keeps the signed token | mint, verify | `capability.rs` |
| Tags and categories | `tags`, `post_tags`, `tag_categories` | create, patch, delete, set | `tag_command_repository.rs`, `tag_service.rs`, `post_command_repository.rs` |
| Slug redirects | the website layer's redirect table, through a port | record after a slug change, ask on a miss | `admin_routes.rs`, `public_query_service.rs` |
| Public reads | none | listing and pages, detail, next-post tour, tag cloud, admin split | `public_query_repository.rs` |
| Generated CRUD | the six tables | create, bulk create, upsert, full and partial update, soft delete, restore, empty trash, guarded by row rules | `domain/entity/`, `presentation/dto/`, `presentation/http/`, `*_row_rules.rs` |
| Schema walls | constraints, triggers, row security | H1a, H1b, H2, H4 to H7, foreign keys, declared CHECKs | `migrations/` |
| Routes and composition | what the host mounts | wiring | `lib.rs`, `presentation/http/` |
| Seeders, migration runner, exports | none | one-off scripts, declarations | `seeders/`, `bin/`, `exports/` |

**Interaction.** Every verb is a transaction of its own at READ COMMITTED; verbs meet in PostgreSQL only, through row
locks, unique indexes, foreign keys and triggers. The audit rows a verb appends are in its transaction, the notifier
call is inside the publish transaction but outside the database, redirects are recorded after the commit, the
throttle is in process memory in front of the visit transaction. A host may mount the generated CRUD beside the
verbs; it writes the same rows and knows none of the verbs' rules. There is no scheduler and no background task.

**What is hard.** A verb of several statements sees other verbs commit between them. A statement that waited for a
row sees the new row but its own `now()` is old. A process can die after the notifier was called or before a redirect
is recorded. Long sequences of admin verbs give a post combinations of flag, archive and marker nobody tested. Visits
race with each other, with an editor who hides the post, and with the prune; a client whose answer is lost is given
a second token. Pages are offsets into a list that moves. A full update sends back a copy that may be stale, and
an update of a link holds its row while it waits for somebody else's.
`PROJECT.json` lists these under `hazards`, each at its line and with the properties aimed at it.

**What makes each part correct.** Blogs and posts: a post belongs to its blog and to that blog's website; a cascade
can be undone exactly; nothing becomes public without an editor's approval. Publish: one flip, one audit row, one
stamp and one notification per transition, and a scheduled date survives. Visits: each (token, day) pair counts once,
only on a visible post, and no miss leaves a trace. Admission: bursts are bounded, refusals are earned and end, a
client that keeps its token is one viewer. Tags: references resolve, a committed set stands, waits form no circle but
the known ones. Redirects: a path that was served ends at a page. Reads: the tour meets every post once, numbers agree
with the lists they count, up to what commits or falls due between two statements. Generated CRUD: the guard refuses
what the database would, but for shapes, an update writes what was asked and nothing else.

## 2. Modules

| Module | What it is |
|---|---|
| `EditorialPromise` | abstract: a post is shown only while an approval is in force |
| `BlogContent` | the admin verbs on blogs and posts, one action per transaction; implements `EditorialPromise` |
| `ContentRaces` | the same verbs cut into statements, with row locks, on one blog |
| `PublishCoupling` | the publish transaction against unpublish, crashes and time, on one post |
| `VisitLedger` | abstract: a tally of (token, day) pairs, each once |
| `VisitCounting` | the visit transaction against itself, hide, show, midnight and crashes; implements `VisitLedger` |
| `VisitThrottle` | the windows of the process: `FixedWindows::allow`, the clock, a restart |
| `VisitAdmission` | extends it with tokens and clients: who is admitted, under which token, and what the client keeps |
| `TagLinks` | tags, categories and links; `set_tags`, the deletes and the generic writes of links cut up where they wait |
| `SlugRedirects` | slugs that move, redirects recorded after the commit, and where old paths end |
| `PublicReads` | listing, pages, detail, cloud, admin rows and counts under edits, visits and time |
| `GenericTables` | the columns, DTOs, row rules, CHECKs and route trees of the six entities, as sets |
| `GenericRows` | one row under the generated CRUD, with stale copies, upserts, verbs and the migration in between |
| `...Proofs` | the theorems about `BlogContent`, `ContentRaces`, `PublishCoupling`, `VisitCounting`, `VisitAdmission`, `TagLinks` and `GenericRows` |
| `PublicTierProofs` | the theorems about `PublicReads` and `SlugRedirects`, and the induction and iteration both need |
| `MC...` | symmetry sets, constraints and definitions for TLC |

`VisitAdmission` composes the throttle with the token arm and the verb; `VisitCounting` starts where a visit has been
admitted. `BlogContent` and `ContentRaces` are the same verbs at two grains: what holds of whole transactions (and is
proved there) is asked again of interleaved statements. Everywhere, a definition nothing uses that stands before one
of the same shape, often commented `Fault:`, is the mutated form some property must catch.

**BlogContent.** One function per column (`blogSite`, `blogArchived`, `postBlog`, `postSite`, `published`,
`archived`, `marker` for `archived_by_blog_id`), `emitted` for the audit rows of the verb that ran last, and two
history variables for the properties: `archivedBy`, the verb whose archive is in force, and `touched`, whether a post
was created or unarchived singly since its blog was last archived. Verbs map one to one: `ArchiveBlog` is
`BlogCommandRepository::archive` with its cascade, `PublishPost`/`PublishAgain` the two arms of `publish_flip`, and so
on. Helper operators carry the WHERE clause or SET list of one statement (`CascadeTargets`, `RestoreTargets`,
`MarkersAfterCascade`). Left out: content columns, verbs on missing rows (a 404, no change).

**ContentRaces.** `pc` says which statement a connection is at; a connection runs one transaction after another
without bound. The row variables are the committed values. `held` is the set of post rows a cascade has written and
not committed, `todo` the rows of its statement's snapshot still to visit, `blogLock` the writer of the blog row;
connections at `inserted` hold the key share of the foreign key. `VisitRow` waits for a row and evaluates the
statement's condition again, as PostgreSQL does. The H1a trigger is `SiteWall`, the move's NOT EXISTS with H1b
behind it `MoveGuard`. Publication steers none of these statements and is left out.

**PublishCoupling.** `start[r]` is `now()` of the transaction, `clock` the instant; `draft` the stamp the lock holder
has written; `told` and `refused` what the notifier did, which no rollback takes back; `audit`, `parked`,
`withdrawn` the committed audit rows. `preset` is the `published_date` the draft was loaded with: no verb of the API
writes it, seeds and host imports may.

**VisitCounting.** `receipts` are the committed rows, `Pending` the keys of open transactions, which make another
insert of the key wait; `rowLock` is the open increment. `number[v]` is the counter value a request read last,
`counted` (history) the counted visits with the number each visitor was told. `Fenced` says whether the serving role
is under row security, which matters to the duplicate arm only. It is the transaction of a database without the
declared CHECK on `view_token` (see `ViewTokenFits`).

**VisitThrottle, VisitAdmission.** Ages of windows instead of dates, so time is unbounded: an age stops at `Old`, from
where a window is stale for good; the wall clock may step back (`StepBack`), which makes ages smaller, even negative,
as `saturating_sub` has it. `known` are the map's keys, which nothing ever drops; `recent` (history) is how many hits each
key was admitted in the last n ticks of real time, for every n up to `Old`. `Present` is the visit service up to
its address's window, `PassToken` its second window, `Answer`/`AnswerLost`/`Missed` the transaction's end as the client
sees it. A token is a member of `Tokens`, its signature the secret it was signed with, its expiry the ticks it has
left; `TokenLength` computes the length of its spelling from the encoding in `capability.rs`. `wallet` is what the
client stored. `holder` and `excused` are history: whom a token was counted for, and who may rightly be counted under
two (two first visits at once, a lost answer, a dropped token).

**TagLinks.** `linkPost`, `linkTag`, `trashed` are the rows of `post_tags`, each with its open `inserter` and `deleter`,
`holds` the row a generic write updates. `set_tags` clears (one DELETE that visits its rows one by one), then inserts one
tag after another; a tag delete looks, removes the links, removes the tag; a category delete counts and removes. A
statement that meets a row of another open transaction waits (`PairBlockers`, `RemovalBlockers`, `TagLocks`), a DELETE
then evaluates its WHERE again (`Meant`), and a foreign key is looked at when the row goes or comes. A PUT, PATCH, upsert
or restore of a link is `TouchLink`, which takes the row, and `WriteLink`, which waits in the pair's index and for a
delete of the tag and then moves the link, brings it back or fails. Emptying the trash is a DELETE of several rows
(`StartEmpty`, `DeleteLink`, `Emptied`). A bulk create is a `CreateLink` for each of its links or, as `StartLoad`, one
transaction; only the second can wait with links in hand, and its links are here of one post. `Die` is PostgreSQL's
deadlock victim as well as a crash. Verbs of one statement and the generic writes that hold nothing while they wait are
one step (`SingleVerb`, `GenericWrite`).

**SlugRedirects.** `Look`, `Patch`, `Record` are the three points of the admin patch handlers (`stage` says how far a
request is, `edited` which row it patches): the old slug is read without a lock, the row is updated, the redirect is
recorded after the commit; `NotRecorded` is a crash or a refusal
of the website layer. Slugs that differ only in what normalization removes are one slug. The redirect table is
external, one answer per path, the last one recorded. `DetailAnswer` and `ListingAnswer` are the two public answers on
a miss, `Route` the hops of a reader who follows them.

**PublicReads.** `Visible(now)` is the row-local predicate; `Items`, `Count`, `Olders`, `CloudCount`, `AdminRows` and
`StateCounts` are the queries, translated from their WHERE and ORDER BY clauses. The cloud counts per tag and drops
soft-deleted tags, the listing joins by slug and does not, so `Tags` are the rows of one slug, which `TurnTag` deletes
and restores (`binned`); the unique index on the slug goes with `strip_tenancy` and is the composing service's to
declare again. A listing is two statements (`ReadItems`, `ReadTotal`), a detail up to four (`ReadRow`, the tags, which
are left out, `ReadOlder`, `ReadNewest`), with edits, visits and time in between; `now()` is the start of the transaction
in all of them. The admin's rows and counts are two transactions (`ReadAdminRows`, `ReadOn`), and so are a cloud and the
listing behind it (`ReadCloud`, `ReadOn`). A walk asks for page after page while the count promises one, and for the tag
anew each time (`Missed`); `Tour` is the set of posts a reader of details comes by who follows next posts, `NavNext` the
answer of `nav_next` when nothing is written between its statements.

**GenericTables, GenericRows.** The tables list, entity by entity and translation by translation, the columns of the
row struct, of the create and update DTOs and of what each conversion copies, the PATCH arms, the row rules, the
declared CHECKs, the shape CHECKs of H7 (`Shapes`), which no row rule covers, which tree a host may mount and what it can
write. `GenericRows` runs one row of one entity through them: `Put` from a copy fetched earlier, `Patch` of one column,
`Upsert` with a create request, guard, then `Save`, with another client's update (`Overtake`), `VerbWrite` and `Migrate`
(which adds the CHECKs no stored row breaks) at any time. A bulk create is a `Create` for each row. What the framework
does behind these routes is not in the repository: the order of read, guard and save is the one the guard's contract
needs; whether a save writes the whole row or the changed columns (`WholeRow`, `ChangedColumns`), and whether an upsert
spares the protected columns, is left open.

## 3. Runs

| Run | Question and answer |
|---|---|
| `BlogContent` | Do rows belong together, do cascade and restore invert each other, do audit rows tell what happened, is the editorial promise kept? Holds. |
| `ContentRaces` | Under statement interleaving: no orphan posts; drift of the website only across an overlapping move; posts follow their blog as long as no archive overlaps an unarchive. Holds. |
| `RacesSitesAgree` | Documented: a post never disagrees with its blog's website. Violated by a create and a move that overlap. |
| `RacesNoMarkerLeft` | Documented: unarchive restores exactly the marker rows. Violated when its posts statement runs before an archive commits and its blog statement after. |
| `PublishCoupling` | Flips, audit rows, notifier calls, the lazy schedule, monotone stamps, and that nothing but a call to the notifier that never returns keeps a request from ending. Holds. |
| `VisitCounting` | Numbers told are the tally, receipts stand for counts, counts only while visible, the ledger refinement, every visit ends. Holds. |
| `VisitAdmission` | At most twice the budget in any `Window` ticks and once more per restart; refusals earned, over budget never for good; keys of the map only for admitted hits; a client that keeps its token is one viewer. Holds. |
| `ViewTokenFits` | Documented: the nonce is the dedup identity, and the column holds 64 characters. Violated: the whole signed token, some 180 characters, is bound into the receipt. |
| `TagLinks` | Do links, and the categories of tags, resolve under every interleaving, does a committed set stand unless another insert for the post, or a link moved to it, crossed it, do requests wait in a circle only at their DELETEs, around a crossed set, a bulk create, a tag delete that finds links left, or an update of a link that waits for its twin? Holds. |
| `SlugRedirects` | Does every path that was served end at a page, over several hops and reused slugs, and is a filter by old tag slugs answered? Holds, but for redirects lost or not yet recorded. |
| `PublicReads` | Does the next-post tour meet every visible post; has the listing behind a tag of the cloud the rows the cloud counted, and besides only those of deleted or other tags of the slug and of posts that fell due; do the admin counts fit the rows beside them; does a walk miss nothing that stayed; does a count fit its items? Holds. |
| `GenericRows` | Does an update the guard let pass meet no CHECK but a shape it was asked to break or, saved as a whole row, a column others rewrote; does an update write what was asked and nothing else but what the copy is stale in; does a row stored against the rules stay editable; does a receipt's token stand until an upsert? Holds. |

`TypeOK` is an invariant of `BlogContent`; in the other runs it is the first conjunct of one of the invariants
(`FlipsAudited`, `NumbersAreTally`, `NoOrphans`, `IdentityKept`, `ReferencesResolve`, `OldPathsLand`,
`TourIsCycle`, `GuardSparesChecks`).

### Documented statements the code does not keep

Three have a run of their own (above). These are stated at the end of their modules, and TLC refutes each of them when
it is added to the module's run:

| Statement | Where it is said | What happens |
|---|---|---|
| `SingleArchiveUnmarked` (`BlogContent`) | `schema/models/post.model.yaml:101`, individually archived posts never carry the marker | cascade, unarchive the post, archive the post: the marker stays, and unarchiving the blog restores it |
| `ArchivedUnpublished` (`BlogContent`) | SPEC.md, decision D5 | publish does not look at the archive |
| `ArchivedBlogDark` (`BlogContent`) | SPEC.md on the post fence | create, or unarchive, and publish in an archived blog |
| `NotifiedTransitionsOnly` (`PublishCoupling`) | `notifier_port.rs:28`, fired exactly once per transition | a crash between the call and the commit |
| `MissIsUniform` (`VisitCounting`) | `blog_error.rs:35` | under row security a repeated visit whose post is hidden before the read-back gets a database error |
| `DeleteTotal` (`TagLinks`) | `tag_command_repository.rs:189`, the untag-first order makes the verb total | a set_tags in between puts the tag back, and the foreign key refuses |
| `ListedTagExists` (`SlugRedirects`) | `public_query_service.rs:149`, unknown slug: the uniform 404 | the filter redirects to a target nobody looked up |
| `HiddenIsUniform` (`SlugRedirects`) | the uniform miss of the same file | a renamed hidden post answers with a redirect |

### Smaller disagreements without a property

* `future_survived` in the audit row compares the old date with the application clock while the CASE uses `now()`: a
  request that waited can keep a date and report that it did not.
* A create that loses against a delete, and a move of an unknown blog, are answered `BlogHasPosts`, which
  `blog_error.rs:191` reserves for the delete.
* `set_tags` with an unknown tag, and a category that goes while a tag is put into it, end in the database's foreign
  key error although the services look first (`post_service.rs:193-195`, `tag_service.rs:128-129`); `set_tags` of an
  unknown post with an empty list answers 200.
* Unarchiving a blog counts posts among `posts_restored` that were live already.
* A rename of the blog changes the derived part of every path and records no redirect. The listing's filter follows
  the first redirect only; a redirect table that answers with the first match instead of the last would loop.
* A soft-deleted link and a live one of the same pair count twice in cloud and listing alike. The listing of a tag also
  has the posts of a soft-deleted tag of the same slug, which the cloud leaves out (`public_query_repository.rs:220` and
  `:231` against `:357`).
* After `strip_tenancy` no unique index covers the tag slug; a filter by a slug of two live tags is answered with a
  redirect.
* A generic PATCH of a slug to a misshapen one, or of a receipt's `window_start` to a time of day, passes the row rules
  and meets an H7 CHECK: a database error for what should be a 422.
* A generic PUT of a receipt changes `post_id` and `window_start`, although `schema/models/post_view_receipt.model.yaml:22`
  says that receipts are never updated; an upsert may rewrite the token.
* A post patch takes its slug as it comes, so a misshapen one meets the CHECK; it accepts a blank title, which create
  refuses.
* A visit finds its post by slug in the website, where two blogs may each have one of that slug.
* A hit on the address's window is spent even when the token's window refuses; an `audit_refusal` that fails turns the
  refusal into a database error.
* `lib.rs:87` counts 12 endpoints per entity without domain validation, while blogs, posts and receipts are read-only
  there and the services carry guards; PATCH keys are snake case where all others are camel case.

### Bounds

Every bound is a constant of a cfg or an `MC` module.

* `BlogContent`: two blogs and two posts, because every property speaks of one post, its blog, and a post or blog that
  must be left alone; two websites so that a move changes something. Identifiers are reused, so sequences are unbounded.
* `ContentRaces`: three connections over two posts, so a pair of racing verbs has a third beside it; one blog, because
  no statement touches two. The two violation runs need two connections only.
* `PublishCoupling`: three requests (one holds the row, two wait), three instants (`MaxTime`), so that a preset can be
  past, present and future.
* `VisitCounting`: three visits, two tokens, `Retention` 2 and three days, so a receipt can expire and a token return;
  a transaction sees at most one midnight (`Midnight`'s guard), far below the retention of 30 days.
* `VisitAdmission`: two workers, so that two visits of the one client overlap; two tokens, the least that lets a client
  be counted twice; two secrets and an unset one; `Budget` 1 and `Window` 2, so that a burst can straddle two windows;
  `Life` 3, longer than a window; one step back of the clock (`MaxBack`) and one restart (`MaxRestarts`).
* `TagLinks`: two transactions, two posts, so that a link can be moved, two tags, three links, so that both tags hang on
  a post and one more row is being inserted (`TwoCommitted`: the third is); requests of up to two tags (`MaxAsked`),
  repeated ones included; at most one soft-deleted row at a time (`MaxTrashed`). One category, which exists only while
  there are no links (`CategoriesOrLinks`): no statement touches both. States after a failed transaction are checked
  but not followed (`FailingIsDying`): they differ from those after a dead one in its `pc` alone.
* `SlugRedirects`: two editors pass three slugs among two rows, enough for a chain and for a slug that comes back; at
  most three redirects recorded (`MaxRedirects`) and one path excused (`MaxLost`) at a time; two names of the blog.
* `PublicReads`: three posts on pages of one, so that a page has a page before and after it; two instants, so dates tie
  or differ and lie in the past or future; a slug of two tags, of which one hangs
  twice on one post, the other once on another post, neither on the third; `AdminLimit` 2, below the number of posts.
* `GenericRows`: one row at a time, of each entity and under each of the three mounts; one or two columns per entity
  take every value of their sort (`MCVaried`), the others one. The proofs have no such bound.

**Fairness.** Weak fairness of the database: in `VisitCounting` of `Serve`, in `PublishCoupling` of `Proceed`. Once
begun, a transaction's next statement runs when its locks are free, since both handlers run straight through. The
notifier is not assumed to answer (the code awaits it without a timeout), so `OnlyTheCallHangs` says what is left: a
request ends, or a call that holds the row never returns. Nobody is assumed to begin, publish,
hide or crash. `VisitAdmission` assumes that time passes and nothing else. Deadlock checking is off in `PublishCoupling`
and `VisitCounting`, where requests and clock are finite and everything may end.

## 4. Proofs

Every `[]` theorem rests on an inductive invariant `IInv` that the initial state satisfies and every step keeps; a
property follows from it, or, for an action property or a refinement, from `IInv` and one step. The assumptions are
those the modules declare on their constants: `None` is not a value, bounds are numbers, and requests, workers, tokens,
posts and slugs are finite where the property counts them. No proof uses the bounds of a cfg. Every invariant and action
property of a passing run is a theorem.

**`BlogContentProofs`**, any sets of blogs, posts and websites. `IInv` is the conjunction of `TypeOK`, `PostsBelong`,
`MarkerInForce`, `CascadeRestorable`, `UntouchedStayArchived` and `AbsentPostsBlank`, and none of the middle ones is
inductive alone. `MarkerInForce` needs `PostsBelong` (a marked post's blog exists, so a fresh blog is nobody's marker);
`CascadeRestorable` needs `MarkerInForce` (a restore must clear the posts of its own blog only); a create needs
`AbsentPostsBlank`. `PostsAlwaysBelong`, `MarkersAlwaysInForce`, `CascadesAlwaysRestorable` and
`ArchivedBlogsHoldTheirPosts` are the invariants of the run; `PromiseKept` says that `BlogContent` implements
`EditorialPromise`, each verb being an approval, a withdrawal, a reveal or a stutter. `AuditTellsPublication` and
`AuditCountsCascades` are the action properties `FlagAudited` and `CascadeAudited`; the second looks at each verb's
effect on `archived` and needs no more of the invariant than its types.

**`ContentRacesProofs`**, any connections, posts and websites. The properties are of committed rows, so the invariant
says what the open transactions may still do to them. `Locks`: who holds the blog row, that a create has a slot of its
own, and the foreign key, uncommitted posts included. `Drift`: an insert that disagrees with its blog has crossed a
move, and an open move has every row and every open insert on its record (`InsertCrosses`, `MoveCrosses`). `Cascades`:
an archive and an unarchive open together are on record (`Apart`); a cascade that has written the blog row has no row
left to visit (`CascadesSwept`); a row that a cascade neither has nor is still to visit needs nothing of it
(`ArchiveCovers`, `UnarchiveCovers`). `PostsKeepTheirBlog`, `NoOtherDrift` and `CascadesFollowed` are the run's three
invariants.

**`PublishCouplingProofs`**, any finite number of requests, any length of time. `StartsPast` (no `now()` is ahead of the
clock) and `DraftKeepsDate` (what the lock holder will write is not older than what is there, and is in the future only
as the draft's own date) carry `SchedulesSurvive` and `StampsNeverGoBack`; `CallsInOrder` (who has called the notifier
and who has committed, by `pc`) carries `NotifierAccounted`; `TrailCounts` needs it, because a commit must append a fact
of a request that had none (`FlipsAlwaysAudited`).

**`VisitCountingProofs`**, any finite number of visits, any tokens, any retention of two days and more. The heart is
`KeysFresh`: a transaction past the wall holds a key nobody has counted and nobody else holds. It needs `WallRemembers`
(a counted visit of a day that can still run has its receipt), which needs `StartsNear` (a transaction sees at most one
midnight, so the prune never reaches its day): `WallFresh` is where the three meet. With `LockIsIncrement` and
`TallyKept` follow `NumbersAlwaysTally`, `ReceiptsAlwaysStand`, `HiddenNeverCounted` and the refinement of
`VisitLedger`, `LedgerImplemented`: a commit is `Count`, every other step a stutter.

**`VisitAdmissionProofs`**, any finite number of workers and tokens, any clients, addresses, secrets, budget, window and
token life. `OneToken` (all visits of a client that is not excused ride on one token, the stored one if there is one, and
every good token it was counted under is the stored one) gives `IdentitiesKept`; `HitsPay` (token keys of the map, and
visits between their two arms, never outnumber the address hits) gives `KeysAlwaysEarned`. The windows need a second
invariant, `Counts`, which says of every length of time what a window of that age vouches for. `CountsEarned`: a count
was admitted since its window began, at most its age and the clock's steps ago; so a refusal was earned
(`RefusalsEarned`). `CountsComplete`: since its window began a key was admitted nothing beyond the count, and in any
`Window` ticks at most one budget beyond it and one more per restart; with the count at most a budget,
`BurstsBounded` follows.

**`TagLinksProofs`**, any connections, posts, tags, categories and links, requests of any length (`MaxAsked`). `Tables`:
what each transaction is about, who owns an open row, and that a tag row that goes takes every link with it
(`RemovalTotal`), from which the foreign keys (`KeysHold`, `KeysAlwaysHold`). `Sets`: a set_tags nobody crossed has
every row of its post in its snapshot while it clears (`Clears`), and has deleted or inserted each of them while it
inserts (`HalfSet`); at the commit the inserted ones are the tags asked for (`UncrossedSetStands`).
It also has no link of anybody else in its way, so it can wait for a tag delete only that waits for nobody; a tag delete
past its links waits for inserting sets, unless it finds links left or a bulk create; an update of a link waits for tag
deletes, unless in the pair's index: hence `CirclesExplained`. A row that is being updated is committed and not deleted
by anybody (`Held`), so moving it takes no link from a set that is under way but by its DELETE's second look.

**`GenericRowsProofs`**, any mounts, any columns that vary and either extent of a save. `IInv` adds to the types that the
stored row meets every CHECK the database has (`RowFits`), that an update in flight passed the guard (`EditGuarded`),
`WritesAsAsked`, and that until an upsert an update in flight leaves a receipt's token alone (`TokenKept`). It rests on
the lemma `TablesAgree`: the rules of the write guard are the declared CHECKs, and the five lists of columns of an entity
agree but for the receipt's token. `GuardSpeaksForChecks`: a CHECK the saved row breaks is one of a column the update
asked to change, and then the guard would have refused it unless it is a shape, or one of a column the row has from the
update's old copy. `UpdatesAreAsAsked`, `LegacyRowsStayEditable` and `TokensStand` are the other three properties of the
run.

**`PublicTierProofs`**, first part, any finite set of posts, any page size, any links, clock and visits. The orders are
total, so how many items are ahead of one, its rank, numbers the items from 0 (`RanksIn`); a page is an interval of
ranks, so it holds what the count leaves for it (`PageHolds`), and the next post of a detail is the one ranked behind
it, or the first after the last (`NextRank`), so that following next posts n times lands n ranks on and meets all
(`TourIsAll`). `ReadsInv` adds to the types what is true between two statements: `RowKept`, the row a detail has read is still
the row if nobody edited it; `PageKept` and `NoteKept`, a page, a cloud's number and the admin's rows are still what was read if nothing was
written; `WalkKept`, unless a
post slipped, a post the walk has not seen has as many items ahead of it as the pages so far had room for.
`WalkKept` is inductive because an insertion, a visit or a post falling due can only add items ahead of a post that did
not move. Hence `CountsHold`, `CloudHolds`, `CountHolds`, `WalkHolds` and `TourHolds`, the five invariants of the run.

**`PublicTierProofs`**, second part, any finite set of slugs, any editors, rows and names. `RedirectsInv` adds to the types
what each request has read (`RequestsKept`) and `TrailKept`: there are a set `H` of slugs, those a row has had under the
blog's present name, and for each slug the time it was `left` last, such that the redirect of a slug nobody has leads to
a slug that a row has or that was left later, unless it was lost or is still to be recorded (`RedirectsKept`), and
that a request between commit and record is about to record such a redirect (`MovesKept`). `H` and `left` are the
history the state does not keep, so the invariant says that they exist, and each step names the new ones: a patch adds
its slug to `H` and dates the slug it leaves last of all, a rename of the blog starts over. Times only grow along a
route, so it never returns to a slug and, there being finitely many, ends at a page (`OldPathsHold`). Tags have
one canonical step instead of a route and no order of times (`OldTagsHold`).

**Induction.** The library's induction theorems take an operator as a parameter, which the provers cannot instantiate.
`PublicTierProofs` states the two facts it needs about sets and functions instead, where no operator has to be
instantiated: `NatClosure`, a set of numbers with 0 and every successor is all of them, from the well-foundedness of `<`,
and `Iteration`, that the function a recursive definition describes exists. `Tour` and `Route` are recursive
functions for that reason; the project declares no RECURSIVE operator in a module with proofs.

**Only model-checked:** the liveness properties `OnlyTheCallHangs` (`PublishCoupling`), `EveryVisitEnds`
(`VisitCounting`) and `Readmitted` (`VisitAdmission`), because liveness under fairness and `ENABLED` are outside TLAPS;
and what the violation runs refute, which nothing could prove.

## 5. Not modelled, and the plan

Not modelled: seeders and the migration runner (one-off scripts); exported types, events and domain repository traits
(declarations nothing calls); HTTP parsing and status codes; HMAC and base64 over bytes, and spellings of a token
beyond its length; the admin tag cloud, full-text search and the fields of a card; the paging of the generated lists;
indexes that are not unique and audit triggers; the tags of a detail; the texts of posts.

What would add most next: several posts and the detail route in one composition of `VisitCounting` and
`VisitAdmission`; a refinement between the two grains, from `ContentRaces` to the verbs of `BlogContent` where no two
verbs overlap; the admin tag cloud and the search in `PublicReads`; a redirect table with the website layer's own rules,
once that layer can be read.
