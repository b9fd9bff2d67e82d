------------------------------- MODULE TagLinks -------------------------------
(***************************************************************************)
(* Tags, their categories and the rows that tie tags to posts.  set_tags   *)
(* and the delete of a tag are cut into SQL statements, the generic writes *)
(* of links at the point where they wait with a row in hand; they          *)
(* interleave with each other and with single-statement writes at READ     *)
(* COMMITTED: a statement works on the rows committed when it began, waits *)
(* for the ones another transaction has written, and skips those that are  *)
(* gone or changed out of its WHERE by then.                               *)
(*                                                                         *)
(* A row of post_tags is visible to others when neither its inserter nor   *)
(* its deleter is an open transaction.  Names and slugs are in             *)
(* SlugRedirects.                                                          *)
(***************************************************************************)
EXTENDS Naturals, Sequences, FiniteSets

CONSTANTS
  Txs,         \* connections, each running one verb at a time
  Posts,       \* posts; no verb deletes one
  Tags,        \* identifiers of tags
  Categories,  \* identifiers of tag categories
  Links,       \* identifiers of post_tags rows, reused when free
  MaxAsked,    \* the longest tag list a request carries
  None         \* no row, no transaction

ASSUME MaxAskedAssumption == MaxAsked \in Nat \ {0}
ASSUME NoneAssumption == None \notin Posts \cup Tags \cup Categories \cup Links \cup Txs

VARIABLES
  tagRow,      \* each tag: no row, a live one, a soft-deleted one
  category,    \* tags.category_id
  categoryRow, \* each category: no row, live, soft-deleted
  linkPost,    \* post_tags.post_id, None when there is no row
  linkTag,     \* post_tags.tag_id
  trashed,     \* soft-deleted links
  inserter,    \* the open transaction that inserted the link
  deleter,     \* the open transaction that deleted it
  pc,          \* where each transaction is; ended: committed,
               \*          failed by a constraint, or idle
  holds,       \* the link whose row each transaction updates
  subject,     \* the post, tag or category the verb is about
  asked,       \* the tag list of a set_tags, or the tags of links to write
  upto,        \* how much of it is inserted
  todo,        \* links a DELETE has still to visit
  crossed      \* history: set_tags during which another transaction had an
               \*          insert for the same post, or moved a link to it

tables == <<tagRow, category, categoryRow>>
links == <<linkPost, linkTag, trashed, inserter, deleter>>
scratch == <<holds, subject, asked, upto, todo>>
vars == <<tables, links, pc, scratch, crossed>>

RowStates == {"absent", "live", "trashed"}
Rows == {l \in Links : linkPost[l] # None}

Ended == {"idle", "done", "failed"}
Setting == {"clearing", "inserting"}
Inserting == {"inserting", "loading"}
Untagging == {"looked", "untagging", "removed"}
Others == {"loading", "touching", "emptying", "counting", "counted"}
Requests == UNION {[1..n -> Tags] : n \in 0..MaxAsked}

TypeOK ==
  /\ tagRow \in [Tags -> RowStates]
  /\ category \in [Tags -> Categories \cup {None}]
  /\ categoryRow \in [Categories -> RowStates]
  /\ linkPost \in [Links -> Posts \cup {None}]
  /\ linkTag \in [Links -> Tags \cup {None}]
  /\ trashed \subseteq Rows
  /\ inserter \in [Links -> Txs \cup {None}]
  /\ deleter \in [Links -> Txs \cup {None}]
  /\ \A l \in Links \ Rows : inserter[l] = None /\ deleter[l] = None
  /\ pc \in [Txs -> Ended \cup Setting \cup Untagging \cup Others]
  /\ holds \in [Txs -> Links \cup {None}]
  /\ subject \in [Txs -> Posts \cup Tags \cup Categories \cup {None}]
  /\ asked \in [Txs -> Requests]
  /\ upto \in [Txs -> 0..MaxAsked]
  /\ todo \in [Txs -> SUBSET Links]
  /\ crossed \subseteq Txs

Init ==
  /\ tagRow = [k \in Tags |-> "absent"]
  /\ category = [k \in Tags |-> None]
  /\ categoryRow = [c \in Categories |-> "absent"]
  /\ linkPost = [l \in Links |-> None]
  /\ linkTag = [l \in Links |-> None]
  /\ trashed = {}
  /\ inserter = [l \in Links |-> None]
  /\ deleter = [l \in Links |-> None]
  /\ pc = [t \in Txs |-> "idle"]
  /\ holds = [t \in Txs |-> None]
  /\ subject = [t \in Txs |-> None]
  /\ asked = [t \in Txs |-> <<>>]
  /\ upto = [t \in Txs |-> 0]
  /\ todo = [t \in Txs |-> {}]
  /\ crossed = {}

-----------------------------------------------------------------------------
(* Rows, locks, transactions *)

\* Fault: statements see the inserts of open transactions.
Uncommitted == Rows

Committed == {l \in Rows : inserter[l] = None}

Holders(l) == {t \in Txs : holds[t] = l}

\* Committed and in nobody's open transaction.
Free(l) == inserter[l] = None /\ deleter[l] = None /\ Holders(l) = {}

Setters(p) == {t \in Txs : pc[t] \in Setting /\ subject[t] = p}

\* Transactions whose uncommitted link shares the tag row's key.
KeyShares(k) == {inserter[l] : l \in {m \in Rows : linkTag[m] = k}} \ {None}

\* A link that no row and no statement stands for.
Unused(l) == linkPost[l] = None /\ \A t \in Txs : l \notin todo[t]

\* The links of an ended transaction: a commit removes the deleted ones and
\* leaves the inserted ones, a rollback the other way round.
Settle(t, gone) ==
  /\ linkPost' = [l \in Links |-> IF l \in gone THEN None ELSE linkPost[l]]
  /\ linkTag' = [l \in Links |-> IF l \in gone THEN None ELSE linkTag[l]]
  /\ trashed' = trashed \ gone
  /\ inserter' = [l \in Links |-> IF inserter[l] = t THEN None ELSE inserter[l]]
  /\ deleter' = [l \in Links |-> IF deleter[l] = t THEN None ELSE deleter[l]]

Inserted(t) == {l \in Links : inserter[l] = t}
Deleted(t) == {l \in Links : deleter[l] = t}

Leave(t, outcome) ==
  /\ pc' = [pc EXCEPT ![t] = outcome]
  /\ holds' = [holds EXCEPT ![t] = None]
  /\ subject' = [subject EXCEPT ![t] = None]
  /\ asked' = [asked EXCEPT ![t] = <<>>]
  /\ upto' = [upto EXCEPT ![t] = 0]
  /\ todo' = [todo EXCEPT ![t] = {}]

Forget(t, outcome) == Leave(t, outcome) /\ crossed' = crossed \ {t}

Commit(t) == Settle(t, Deleted(t)) /\ Forget(t, "done")
Rollback(t, outcome) == Settle(t, Inserted(t)) /\ Forget(t, outcome)

\* The connection dies, or the database picks it out of a deadlock.
Die(t) ==
  /\ pc[t] \notin Ended
  /\ Rollback(t, "idle")
  /\ UNCHANGED tables

-----------------------------------------------------------------------------
(* set_tags: DELETE the post's links, INSERT the asked ones, commit *)

\* Fault: the DELETE names the asked tags.
LinksOfAsked(p, ks) ==
  {l \in Committed : linkPost[l] = p /\ \E i \in DOMAIN ks : linkTag[l] = ks[i]}

\* WHERE post_id = $1, soft-deleted rows included.
LinksOf(p, ks) == {l \in Committed : linkPost[l] = p}

\* Neither the post nor the tags are looked up.
StartSet(t, p, ks) ==
  /\ pc[t] \in Ended
  /\ pc' = [pc EXCEPT ![t] = "clearing"]
  /\ subject' = [subject EXCEPT ![t] = p]
  /\ asked' = [asked EXCEPT ![t] = ks]
  /\ todo' = [todo EXCEPT ![t] = LinksOf(p, ks)]
  /\ crossed' = IF \E l \in Rows \ Committed : linkPost[l] = p
                  THEN crossed \cup {t} ELSE crossed
  /\ UNCHANGED <<tables, links, holds, upto>>

Deleting == {"clearing", "untagging", "emptying"}

\* The WHERE of a DELETE.
Meant(t, l) ==
  CASE pc[t] = "clearing" -> linkPost[l] = subject[t]
    [] pc[t] = "untagging" -> linkTag[l] = subject[t]
    [] OTHER -> l \in trashed

\* A DELETE reaches a row that nobody else has.  It looks at it again: the row
\* may be gone, or have changed.
DeleteLink(t, l) ==
  /\ pc[t] \in Deleting
  /\ l \in todo[t]
  /\ deleter[l] = None /\ Holders(l) = {}
  /\ todo' = [todo EXCEPT ![t] = @ \ {l}]
  /\ deleter' = IF l \in Rows /\ Meant(t, l) THEN [deleter EXCEPT ![l] = t] ELSE deleter
  /\ UNCHANGED <<tables, linkPost, linkTag, trashed, inserter, pc, holds, subject,
                 asked, upto, crossed>>

Cleared(t) ==
  /\ pc[t] = "clearing"
  /\ todo[t] = {}
  /\ pc' = [pc EXCEPT ![t] = "inserting"]
  /\ UNCHANGED <<tables, links, scratch, crossed>>

\* The live links of a pair, committed or not: the index entries.
Pair(p, k) == {l \in Rows \ trashed : linkPost[l] = p /\ linkTag[l] = k}

\* Those this transaction has not deleted itself.
Standing(t, p, k) == {l \in Pair(p, k) : deleter[l] # t}

\* Whom a write of the pair waits for: the owners of unsettled entries.
PairBlockers(t, p, k) ==
  (UNION {{inserter[l], deleter[l]} \cup Holders(l) : l \in Standing(t, p, k)}) \ {None, t}

\* Fault: the look locks the tag row.
LockedFromLook(k) == {t \in Txs : pc[t] \in Untagging /\ subject[t] = k}

\* The tag row is locked by its DELETE; the look is a plain SELECT.
TagLocks(k) == {t \in Txs : pc[t] = "removed" /\ subject[t] = k}

\* Fault: no foreign key on post_tags.tag_id.
AnyTag(k) == TRUE

\* The foreign key takes a soft-deleted tag too.
TagThere(k) == tagRow[k] # "absent"

InsertLink(t) ==
  LET p == subject[t]
      k == asked[t][upto[t] + 1]
  IN /\ pc[t] \in Inserting
     /\ upto[t] < Len(asked[t])
     /\ PairBlockers(t, p, k) = {}
     /\ \/ /\ Standing(t, p, k) # {}
           /\ Rollback(t, "failed")
        \/ /\ Standing(t, p, k) = {}
           /\ TagLocks(k) = {}
           /\ ~TagThere(k)
           /\ Rollback(t, "failed")
        \/ /\ Standing(t, p, k) = {}
           /\ TagLocks(k) = {}
           /\ TagThere(k)
           /\ \E l \in Links :
                /\ Unused(l)
                /\ linkPost' = [linkPost EXCEPT ![l] = p]
                /\ linkTag' = [linkTag EXCEPT ![l] = k]
                /\ inserter' = [inserter EXCEPT ![l] = t]
           /\ upto' = [upto EXCEPT ![t] = @ + 1]
           /\ crossed' = crossed \cup (Setters(p) \ {t})
           /\ UNCHANGED <<trashed, deleter, pc, holds, subject, asked, todo>>
     /\ UNCHANGED tables

CommitSet(t) ==
  /\ pc[t] \in Inserting
  /\ upto[t] = Len(asked[t])
  /\ Commit(t)
  /\ UNCHANGED tables

-----------------------------------------------------------------------------
(* Delete a tag: look, DELETE its links, DELETE the row, commit *)

\* A tag that is not live is answered 404 and nothing is begun.
LookTag(t, k) ==
  /\ pc[t] \in Ended
  /\ tagRow[k] = "live"
  /\ pc' = [pc EXCEPT ![t] = "looked"]
  /\ subject' = [subject EXCEPT ![t] = k]
  /\ UNCHANGED <<tables, links, holds, asked, upto, todo, crossed>>

StartUntag(t) ==
  /\ pc[t] = "looked"
  /\ pc' = [pc EXCEPT ![t] = "untagging"]
  /\ todo' = [todo EXCEPT ![t] = {l \in Committed : linkTag[l] = subject[t]}]
  /\ UNCHANGED <<tables, links, holds, subject, asked, upto, crossed>>

\* Links the foreign key still finds once the verb's own deletes are out.
LeftBehind(t, k) == {l \in Committed : linkTag[l] = k /\ deleter[l] # t}

RemovalBlockers(t, k) ==
  (KeyShares(k) \cup TagLocks(k) \cup {deleter[l] : l \in LeftBehind(t, k)}) \ {None, t}

\* The DELETE of the tag row.  It waits for key shares and, in the foreign
\* key's check, for links someone else is deleting; a link that is being
\* updated it finds as it was.  A row that is gone by now is zero rows and
\* success.
RemoveTag(t) ==
  LET k == subject[t]
  IN /\ pc[t] = "untagging"
     /\ todo[t] = {}
     /\ RemovalBlockers(t, k) = {}
     /\ IF tagRow[k] # "absent" /\ LeftBehind(t, k) # {}
          THEN Rollback(t, "failed")
          ELSE /\ pc' = [pc EXCEPT ![t] = "removed"]
               /\ UNCHANGED <<links, scratch, crossed>>
     /\ UNCHANGED tables

CommitRemoval(t) ==
  /\ pc[t] = "removed"
  /\ tagRow' = [tagRow EXCEPT ![subject[t]] = "absent"]
  /\ category' = [category EXCEPT ![subject[t]] = None]
  /\ Commit(t)
  /\ UNCHANGED categoryRow

-----------------------------------------------------------------------------
(* Delete a category: look, count its tags, DELETE, commit *)

LookCategory(t, c) ==
  /\ pc[t] \in Ended
  /\ categoryRow[c] = "live"
  /\ pc' = [pc EXCEPT ![t] = "counting"]
  /\ subject' = [subject EXCEPT ![t] = c]
  /\ UNCHANGED <<tables, links, holds, asked, upto, todo, crossed>>

\* Soft-deleted tags count.
Grouped(c) == {k \in Tags : tagRow[k] # "absent" /\ category[k] = c}

CountTags(t) ==
  /\ pc[t] = "counting"
  /\ IF Grouped(subject[t]) = {}
       THEN pc' = [pc EXCEPT ![t] = "counted"] /\ UNCHANGED <<scratch, crossed>>
       ELSE Forget(t, "idle")
  /\ UNCHANGED <<tables, links>>

\* Fault: tags carry no foreign key to their category.
NoCategoryKey(c) == TRUE

\* The foreign key behind the count.
Ungrouped(c) == Grouped(c) = {}

RemoveCategory(t) ==
  LET c == subject[t]
  IN /\ pc[t] = "counted"
     /\ IF categoryRow[c] = "absent" \/ Ungrouped(c)
          THEN /\ categoryRow' = [categoryRow EXCEPT ![c] = "absent"]
               /\ Forget(t, "done")
          ELSE /\ Forget(t, "failed")
               /\ UNCHANGED categoryRow
     /\ UNCHANGED <<tagRow, category, links>>

-----------------------------------------------------------------------------
(* Verbs of one statement *)

\* A category that does not exist fails by the foreign key.
Known(c) == c \in {None} \cup {d \in Categories : categoryRow[d] # "absent"}

CreateTag(k, c) ==
  /\ tagRow[k] = "absent"
  /\ \A t \in Txs : subject[t] # k
  /\ \A t \in Txs : \A i \in (upto[t] + 1)..Len(asked[t]) : asked[t][i] # k
  /\ Known(c)
  /\ tagRow' = [tagRow EXCEPT ![k] = "live"]
  /\ category' = [category EXCEPT ![k] = c]
  /\ UNCHANGED <<categoryRow, links, pc, scratch, crossed>>

RecategorizeTag(k, c) ==
  /\ tagRow[k] = "live"
  /\ TagLocks(k) = {}
  /\ Known(c)
  /\ category' = [category EXCEPT ![k] = c]
  /\ UNCHANGED <<tagRow, categoryRow, links, pc, scratch, crossed>>

CreateCategory(c) ==
  /\ categoryRow[c] = "absent"
  /\ \A t \in Txs : subject[t] # c
  /\ categoryRow' = [categoryRow EXCEPT ![c] = "live"]
  /\ UNCHANGED <<tagRow, category, links, pc, scratch, crossed>>

-----------------------------------------------------------------------------
(* The generic CRUD of tags, links and categories, no verb in front *)

TurnTag(k) ==
  /\ tagRow[k] # "absent"
  /\ TagLocks(k) = {}
  /\ tagRow' = [tagRow EXCEPT ![k] = IF @ = "live" THEN "trashed" ELSE "live"]
  /\ UNCHANGED <<category, categoryRow, links, pc, scratch, crossed>>

\* The foreign key refuses while any link is left.
PurgeTag(k) ==
  /\ tagRow[k] = "trashed"
  /\ TagLocks(k) = {}
  /\ {l \in Rows : linkTag[l] = k} = {}
  /\ tagRow' = [tagRow EXCEPT ![k] = "absent"]
  /\ category' = [category EXCEPT ![k] = None]
  /\ UNCHANGED <<categoryRow, links, pc, scratch, crossed>>

TurnCategory(c) ==
  /\ categoryRow[c] # "absent"
  /\ categoryRow' = [categoryRow EXCEPT ![c] = IF @ = "live" THEN "trashed" ELSE "live"]
  /\ UNCHANGED <<tagRow, category, links, pc, scratch, crossed>>

PurgeCategory(c) ==
  /\ categoryRow[c] = "trashed"
  /\ Ungrouped(c)
  /\ categoryRow' = [categoryRow EXCEPT ![c] = "absent"]
  /\ UNCHANGED <<tagRow, category, links, pc, scratch, crossed>>

\* The pair's index and the tag's foreign key hold for it too.
CreateLink(p, k) ==
  /\ TagThere(k)
  /\ TagLocks(k) = {}
  /\ Pair(p, k) = {}
  /\ \E l \in Links :
       /\ Unused(l)
       /\ linkPost' = [linkPost EXCEPT ![l] = p]
       /\ linkTag' = [linkTag EXCEPT ![l] = k]
  /\ crossed' = crossed \cup Setters(p)
  /\ UNCHANGED <<tables, trashed, inserter, deleter, pc, scratch>>

TrashLink(l) ==
  /\ l \in Rows \ trashed
  /\ Free(l)
  /\ trashed' = trashed \cup {l}
  /\ UNCHANGED <<tables, linkPost, linkTag, inserter, deleter, pc, scratch, crossed>>

PurgeLink(l) ==
  /\ l \in trashed
  /\ Free(l)
  /\ linkPost' = [linkPost EXCEPT ![l] = None]
  /\ linkTag' = [linkTag EXCEPT ![l] = None]
  /\ trashed' = trashed \ {l}
  /\ UNCHANGED <<tables, inserter, deleter, pc, scratch, crossed>>

\* The trash is emptied by a DELETE of its own.
StartEmpty(t) ==
  /\ pc[t] \in Ended
  /\ pc' = [pc EXCEPT ![t] = "emptying"]
  /\ todo' = [todo EXCEPT ![t] = trashed \cap Committed]
  /\ UNCHANGED <<tables, links, holds, subject, asked, upto, crossed>>

Emptied(t) ==
  /\ pc[t] = "emptying"
  /\ todo[t] = {}
  /\ Commit(t)
  /\ UNCHANGED tables

\* A bulk create that is one transaction, here of links of one post; it
\* inserts like a set_tags that has cleared nothing.
StartLoad(t, p, ks) ==
  /\ pc[t] \in Ended
  /\ ks # <<>>
  /\ pc' = [pc EXCEPT ![t] = "loading"]
  /\ subject' = [subject EXCEPT ![t] = p]
  /\ asked' = [asked EXCEPT ![t] = ks]
  /\ UNCHANGED <<tables, links, holds, upto, todo, crossed>>

\* A PUT, PATCH, upsert or restore has found its row and writes a new version
\* of it, with any post and tag.  One that changes nothing waits for nobody.
TouchLink(t, l, p, k) ==
  /\ pc[t] \in Ended
  /\ l \in Rows
  /\ Free(l)
  /\ l \in trashed \/ <<linkPost[l], linkTag[l]>> # <<p, k>>
  /\ pc' = [pc EXCEPT ![t] = "touching"]
  /\ holds' = [holds EXCEPT ![t] = l]
  /\ subject' = [subject EXCEPT ![t] = p]
  /\ asked' = [asked EXCEPT ![t] = <<k>>]
  /\ UNCHANGED <<tables, links, upto, todo, crossed>>

\* Holding the row, a new version that is live waits in the pair's index, and
\* one with another tag waits for a delete of that tag.  Then the write fails
\* or is committed; a soft-deleted row may be live again by it.  (Who waits
\* for the new index entry while it waits for the tag waits for that too.)
WriteLink(t, live) ==
  LET l == holds[t]
      p == subject[t]
      k == asked[t][1]
  IN /\ pc[t] = "touching"
     /\ l \notin trashed => live
     /\ live => PairBlockers(t, p, k) = {}
     /\ k # linkTag[l] => TagLocks(k) = {}
     /\ IF (live /\ Standing(t, p, k) # {}) \/ (k # linkTag[l] /\ ~TagThere(k))
          THEN Rollback(t, "failed")
          ELSE /\ linkPost' = [linkPost EXCEPT ![l] = p]
               /\ linkTag' = [linkTag EXCEPT ![l] = k]
               /\ trashed' = IF live THEN trashed \ {l} ELSE trashed
               /\ Leave(t, "done")
               /\ crossed' = IF linkPost[l] = p THEN crossed ELSE crossed \cup Setters(p)
               /\ UNCHANGED <<inserter, deleter>>
     /\ UNCHANGED tables

-----------------------------------------------------------------------------

SetStep(t) ==
  \/ \E p \in Posts, ks \in Requests : StartSet(t, p, ks)
  \/ Cleared(t) \/ InsertLink(t) \/ CommitSet(t)

DeleteStep(t) ==
  \/ \E k \in Tags : LookTag(t, k)
  \/ StartUntag(t) \/ RemoveTag(t) \/ CommitRemoval(t)
  \/ \E c \in Categories : LookCategory(t, c)
  \/ CountTags(t) \/ RemoveCategory(t)

SingleVerb ==
  \/ \E k \in Tags, c \in Categories \cup {None} : CreateTag(k, c) \/ RecategorizeTag(k, c)
  \/ \E c \in Categories : CreateCategory(c)

GenericStep(t) ==
  \/ StartEmpty(t) \/ Emptied(t)
  \/ \E p \in Posts, ks \in Requests : StartLoad(t, p, ks)
  \/ \E l \in Links, p \in Posts, k \in Tags : TouchLink(t, l, p, k)
  \/ \E live \in BOOLEAN : WriteLink(t, live)

GenericWrite ==
  \/ \E k \in Tags : TurnTag(k) \/ PurgeTag(k)
  \/ \E c \in Categories : TurnCategory(c) \/ PurgeCategory(c)
  \/ \E p \in Posts, k \in Tags : CreateLink(p, k)
  \/ \E l \in Links : TrashLink(l) \/ PurgeLink(l)

Next ==
  \/ \E t \in Txs :
       \/ SetStep(t) \/ DeleteStep(t) \/ GenericStep(t) \/ Die(t)
       \/ \E l \in Links : DeleteLink(t, l)
  \/ SingleVerb
  \/ GenericWrite

Spec == Init /\ [][Next]_vars

-----------------------------------------------------------------------------
(* Properties *)

\* Types hold, and every link, soft-deleted and uncommitted ones included, has its tag, and
\* every tag its category, in whatever order deletes, retags and generic
\* writes run: the foreign keys and not the verbs' looks see to it.
ReferencesResolve ==
  /\ TypeOK
  /\ \A l \in Rows : tagRow[linkTag[l]] # "absent"
  /\ \A k \in Tags : category[k] # None => categoryRow[category[k]] # "absent"

\* A set_tags that commits leaves the post exactly the tags it was asked
\* for, and no soft-deleted link, unless another insert for the same post
\* was uncommitted or committed while it ran, or a link of another post was
\* moved to it.
SetStands ==
  [][\A t \in Txs : pc[t] = "inserting" /\ pc'[t] = "done" /\ t \notin crossed =>
       {linkTag'[l] : l \in {m \in Links : linkPost'[m] = subject[t]}}
         = {asked[t][i] : i \in DOMAIN asked[t]}]_vars

\* Whom a transaction may be waiting for.
Waits(t) ==
  CASE pc[t] \in Deleting /\ todo[t] # {} ->
         (UNION {{deleter[l]} \cup Holders(l) : l \in todo[t]}) \ {None, t}
    [] pc[t] = "untagging" /\ todo[t] = {} -> RemovalBlockers(t, subject[t])
    [] pc[t] \in Inserting \cup {"touching"} /\ upto[t] < Len(asked[t]) ->
         LET k == asked[t][upto[t] + 1]
         IN PairBlockers(t, subject[t], k) \cup TagLocks(k)
    [] OTHER -> {}

\* Requests never wait for each other in a circle, except while all of them are still at their
\* DELETE of links, whose rows it takes in an order of its own; around a set_tags whose post
\* another insert has touched; around a tag delete that finds a link put on its tag, or being
\* deleted by someone else, after it took the links it saw; around a bulk create; or around an
\* update or restore of a link that has its row and waits for a twin of what becomes of it.
CyclesExplained ==
  \A S \in SUBSET Txs \ {{}} :
    (\A t \in S : Waits(t) \cap S # {}) =>
      \/ \A t \in S : todo[t] # {}
      \/ \E t \in S : t \in crossed \/ pc[t] = "loading"
      \/ \E t \in S : pc[t] = "untagging" /\ todo[t] = {} /\ LeftBehind(t, subject[t]) # {}
      \/ \E t \in S : pc[t] = "touching" /\ PairBlockers(t, subject[t], asked[t][1]) \cap S # {}

-----------------------------------------------------------------------------
(* What the code's documentation says and its behaviour does not keep: TLC
   refutes it when it is added to the run *)

\* "The untag-first order makes the verb total."
DeleteTotal ==
  [][\A t \in Txs : pc[t] = "untagging" => pc'[t] # "failed"]_vars

=============================================================================
