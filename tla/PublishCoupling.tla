--------------------------- MODULE PublishCoupling ---------------------------
(***************************************************************************)
(* The publish verb under concurrency, on one post: each request is a      *)
(* transaction that locks the row, flips and stamps it, appends its audit  *)
(* row, calls the parent-blog notifier before it commits, and may die at   *)
(* any point.  Unpublish competes for the same row.                        *)
(*                                                                         *)
(* now() is the instant a transaction began, the application's own clock   *)
(* is the instant it looks: both read the one clock of the model, which    *)
(* moves between any two steps.  The flag, the stamp and the audit rows    *)
(* are the committed ones; what an open transaction has written is in its  *)
(* draft.                                                                  *)
(***************************************************************************)
EXTENDS Integers, FiniteSets

CONSTANTS
  Requests,  \* publish requests
  None,      \* SQL NULL, and "no request"
  MaxTime    \* the clock stops here

ASSUME MaxTimeAssumption == MaxTime \in Nat
ASSUME NoneAssumption == None \notin Requests \cup Int
ASSUME RequestsAssumption == IsFiniteSet(Requests)

VARIABLES
  clock,
  preset,         \* the published_date the draft row was loaded with
  published,      \* posts.is_published
  publishedDate,  \* posts.published_date
  lock,           \* the request holding the row lock
  pc,             \* where each request is
  start,          \* now() of each request's transaction
  draft,          \* the stamp the lock holder has written and not committed
  told,           \* requests whose notifier call was accepted
  refused,        \* requests whose notifier call was refused
  audit,          \* committed post_published rows
  parked,         \* requests with a committed notify_parked row
  withdrawn       \* committed post_unpublished rows

vars == <<clock, preset, published, publishedDate, lock, pc, start, draft,
          told, refused, audit, parked, withdrawn>>
calls == <<told, refused>>
row == <<published, publishedDate>>
ledger == <<audit, parked, withdrawn>>

Time == 0..MaxTime
Dates == Time \cup {None}
Facts == [by : Requests, date : Time]

TypeOK ==
  /\ clock \in Time
  /\ preset \in Dates
  /\ published \in BOOLEAN
  /\ publishedDate \in Dates
  /\ lock \in Requests \cup {None}
  /\ pc \in [Requests -> {"idle", "begun", "flipped", "notified", "changed",
                          "unchanged", "lost"}]
  /\ start \in [Requests -> Time]
  /\ draft \in Dates
  /\ told \subseteq Requests
  /\ refused \subseteq Requests
  /\ audit \subseteq Facts
  /\ parked \subseteq Requests
  /\ withdrawn \in 0..Cardinality(Requests)

\* A draft row may carry any published_date: create leaves it NULL, the
\* seeds and imports of the host do not.
Init ==
  /\ clock = 0
  /\ preset \in Dates
  /\ published = FALSE
  /\ publishedDate = preset
  /\ lock = None
  /\ pc = [r \in Requests |-> "idle"]
  /\ start = [r \in Requests |-> 0]
  /\ draft = None
  /\ told = {}
  /\ refused = {}
  /\ audit = {}
  /\ parked = {}
  /\ withdrawn = 0

-----------------------------------------------------------------------------
(* The publish transaction *)

Goto(r, place) == pc' = [pc EXCEPT ![r] = place]

Begin(r) ==
  /\ pc[r] = "idle"
  /\ Goto(r, "begun")
  /\ start' = [start EXCEPT ![r] = clock]
  /\ UNCHANGED <<clock, preset, row, lock, draft, calls, ledger>>

\* Fault: the flag is not looked at under the lock.
NeverAlready(r) == FALSE

\* SELECT ... FOR UPDATE answers once the row is free, with the committed
\* row: the pair is read under the lock.
Already(r) == published

\* Already published: no stamp, no audit row, no notifier call.
AnswerUnchanged(r) ==
  /\ pc[r] = "begun"
  /\ lock = None
  /\ Already(r)
  /\ Goto(r, "unchanged")
  /\ UNCHANGED <<clock, preset, row, lock, start, draft, calls, ledger>>

\* Fault: every publish stamps the row with its own now().
StampAlways(r) == start[r]

\* CASE WHEN published_date IS NULL OR published_date <= now() THEN now()
\* ELSE published_date END
Stamp(r) ==
  IF publishedDate = None \/ publishedDate <= start[r] THEN start[r]
                                                       ELSE publishedDate

Flip(r) ==
  /\ pc[r] = "begun"
  /\ lock = None
  /\ ~Already(r)
  /\ lock' = r
  /\ draft' = Stamp(r)
  /\ Goto(r, "flipped")
  /\ UNCHANGED <<clock, preset, row, start, calls, ledger>>

\* post_published is awaited inside the transaction; its adapter accepts or
\* answers a typed refusal.
Notify(r) ==
  /\ pc[r] = "flipped"
  /\ \/ told' = told \cup {r} /\ UNCHANGED refused
     \/ refused' = refused \cup {r} /\ UNCHANGED told
  /\ Goto(r, "notified")
  /\ UNCHANGED <<clock, preset, row, lock, start, draft, ledger>>

\* Fault: the park is forgotten.
ForgetPark(r) == {}

\* A refused call leaves a notify_parked row in the same transaction.
Parked(r) == IF r \in refused THEN {r} ELSE {}

\* Fault: the transaction is left open, its row lock with it.
LockLeaked == lock

\* COMMIT ends the transaction and frees the row.
LockAfterCommit == None

\* The commit; its answer may still be lost on the way to the caller.
Commit(r) ==
  /\ pc[r] = "notified"
  /\ published' = TRUE
  /\ publishedDate' = draft
  /\ audit' = audit \cup {[by |-> r, date |-> draft]}
  /\ parked' = parked \cup Parked(r)
  /\ lock' = LockAfterCommit
  /\ draft' = None
  /\ \E answer \in {"changed", "lost"} : Goto(r, answer)
  /\ UNCHANGED <<clock, preset, start, calls, withdrawn>>

\* The process, the connection or the database goes: everything rolls back
\* but the call that was already made.
Die(r) ==
  /\ pc[r] \in {"begun", "flipped", "notified"}
  /\ lock' = IF lock = r THEN None ELSE lock
  /\ draft' = IF lock = r THEN None ELSE draft
  /\ Goto(r, "lost")
  /\ UNCHANGED <<clock, preset, row, start, calls, ledger>>

-----------------------------------------------------------------------------
(* Unpublish, and time *)

\* Fault: unpublish clears the stamp with the flag.
ForgetStamp == None

\* The stamp stays as history.
RetainedStamp == publishedDate

\* Fault: the UPDATE does not ask for a published row.
UnpublishUnguarded == TRUE

\* AND is_published
Unpublishable == published

\* UPDATE ... WHERE id = $1 AND is_published, its audit row, its commit.  On
\* a row whose committed flag is false it matches nothing, waits for nobody
\* and changes nothing: that answer is a stuttering step.
Unpublish ==
  /\ Unpublishable
  /\ lock = None
  /\ published' = FALSE
  /\ publishedDate' = RetainedStamp
  /\ withdrawn' = withdrawn + 1
  /\ UNCHANGED <<clock, preset, lock, pc, start, draft, calls, audit, parked>>

Tick ==
  /\ clock < MaxTime
  /\ clock' = clock + 1
  /\ UNCHANGED <<preset, row, lock, pc, start, draft, calls, ledger>>

Serve(r) == AnswerUnchanged(r) \/ Flip(r) \/ Notify(r) \/ Commit(r)

Next ==
  \/ \E r \in Requests : Begin(r) \/ Serve(r) \/ Die(r)
  \/ Unpublish
  \/ Tick

Spec == Init /\ [][Next]_vars

\* What the database answers: the SELECT of a row it can lock, and the COMMIT.
\* Not Notify: the call is awaited without a timeout, so nothing promises
\* that it comes back.
Proceed(r) == AnswerUnchanged(r) \/ Flip(r) \/ Commit(r)

\* The database grants a row lock it can grant and commits what was asked of
\* it.  The notifier may never answer, and nobody has to publish, unpublish
\* or die.
FairSpec == Spec /\ \A r \in Requests : WF_vars(Proceed(r))

-----------------------------------------------------------------------------
(* Safety *)

Flips == {a.by : a \in audit}

\* The row lock belongs to the one request with an uncommitted flip, and
\* only a request that found the committed flag false can hold it.
LockIsFlip ==
  /\ \A r \in Requests : pc[r] \in {"flipped", "notified"} <=> lock = r
  /\ lock # None => ~published /\ draft # None

\* Types hold, one flip is uncommitted at a time, and the audit trail tells the
\* flag: the post is published exactly when one more flip than unpublish has
\* been audited, and no request audits two flips (publish_flip audits under
\* the row lock that guards its flip).
FlipsAudited ==
  /\ TypeOK
  /\ LockIsFlip
  /\ Cardinality(audit) - withdrawn = (IF published THEN 1 ELSE 0)
  /\ Cardinality(Flips) = Cardinality(audit)

\* Every audited flip was announced in its own transaction, accepted or
\* parked but never both; a parked row speaks of a flip that happened, and
\* a request that found the post published called nobody.
NotifierAccount ==
  /\ told \cap refused = {}
  /\ Flips \subseteq told \cup refused
  /\ parked = refused \cap Flips
  /\ \A r \in Requests : pc[r] = "unchanged" => r \notin told \cup refused

\* A published_date that is still ahead of the clock is the one the draft
\* was loaded with, and it outlives every publish, unpublish and crash: the
\* lazy schedule.
ScheduleSurvives ==
  /\ (preset # None /\ preset > clock) => publishedDate = preset
  /\ (publishedDate # None /\ publishedDate > clock) => publishedDate = preset

\* published_date never goes back or empties: not even when a request that
\* began early, and whose now() is old, gets the row after a later one.
StampsMonotone ==
  [][publishedDate # None
       => publishedDate' # None /\ publishedDate' >= publishedDate]_vars

-----------------------------------------------------------------------------
(* Liveness *)

\* Nothing but the notifier can hold a publish up for ever.  The call is
\* awaited under the row lock without a timeout, so a request that began may
\* never end; but then one request, it or the one it waits for, stays in its
\* call for good.  A call that is answered, refused or cut off by a crash
\* frees the row, and every request that waited goes on.
OnlyTheCallHangs ==
  \A r \in Requests :
    pc[r] = "begun" ~> \/ pc[r] \in {"changed", "unchanged", "lost"}
                      \/ \E q \in Requests : [](lock = q /\ pc[q] = "flipped")

-----------------------------------------------------------------------------
(* What the code's documentation says and its behaviour does not keep: TLC
   refutes it when it is added to the run *)

\* "Fired exactly once per false -> true publish transition": a call that
\* was accepted belongs to a flip that is, or still may be, committed.
NotifiedTransitionsOnly ==
  \A r \in told : pc[r] \in {"flipped", "notified"} \/ r \in Flips

=============================================================================
