---------------------------- MODULE VisitCounting ----------------------------
(***************************************************************************)
(* The visit verb under concurrency, on one post: each request resolves    *)
(* the post, inserts its receipt for the day, increments the counter with  *)
(* the visibility guard posed again, may prune old receipts and commits,   *)
(* while editors hide and show the post and processes die.                 *)
(*                                                                         *)
(* The database runs at READ COMMITTED.  A receipt that is inserted and    *)
(* not committed makes another insert of its key wait; an UPDATE waits for *)
(* the row's lock.  Requests reach this module with a verified or freshly  *)
(* minted token and within the throttle's budget.                          *)
(***************************************************************************)
EXTENDS Integers, FiniteSets

CONSTANTS
  Visits,     \* visit requests
  Tokens,     \* view tokens
  None,       \* no request
  MaxDay,     \* the calendar stops here
  Retention,  \* RECEIPT_RETENTION_DAYS
  Fenced      \* whether the role that serves visits is under row security

ASSUME MaxDayAssumption == MaxDay \in Nat
ASSUME RetentionAssumption == Retention \in Nat \ {0, 1}
ASSUME FencedAssumption == Fenced \in BOOLEAN
ASSUME NoneAssumption == None \notin Visits
ASSUME VisitsAssumption == IsFiniteSet(Visits)

VARIABLES
  day,       \* the day date_trunc('day', now()) answers
  visible,   \* the row-local predicate of the public tier
  count,     \* posts.visits
  receipts,  \* committed rows of post_view_receipts: token and window
  pc,        \* where each request is
  token,     \* the token each request carries
  start,     \* the day of each request's now()
  number,    \* the visits value each request read last
  rowLock,   \* the request whose increment is not committed
  counted    \* history: the counted visits, each with the number it was told

vars == <<day, visible, count, receipts, pc, token, start, number, rowLock,
          counted>>

Days == 0..MaxDay
Keys == Tokens \X Days
Open == {"resolved", "duplicate", "inserted", "incremented"}
Ended == {"missed", "repeated", "counted", "failed", "lost"}

TypeOK ==
  /\ day \in Days
  /\ visible \in BOOLEAN
  /\ count \in 0..Cardinality(Visits)
  /\ receipts \subseteq Keys
  /\ pc \in [Visits -> {"idle"} \cup Open \cup Ended]
  /\ token \in [Visits -> Tokens]
  /\ start \in [Visits -> Days]
  /\ number \in [Visits -> Nat]
  /\ rowLock \in Visits \cup {None}
  /\ counted \subseteq [by : Visits, key : Keys, number : Nat]

Init ==
  /\ day = 0
  /\ visible = TRUE
  /\ count = 0
  /\ receipts = {}
  /\ pc = [v \in Visits |-> "idle"]
  /\ token \in [Visits -> Tokens]
  /\ start = [v \in Visits |-> 0]
  /\ number = [v \in Visits |-> 0]
  /\ rowLock = None
  /\ counted = {}

-----------------------------------------------------------------------------
(* The visit transaction *)

Goto(v, place) == pc' = [pc EXCEPT ![v] = place]

\* Fault: the INSERT binds the window where the token belongs.
SwappedKey(v) == <<start[v], token[v]>>

\* The receipt wall's key; its window is the day the transaction began.
Key(v) == <<token[v], start[v]>>

\* The resolve: a miss is the uniform 404, a hit reads the counter.
Resolve(v) ==
  /\ pc[v] = "idle"
  /\ start' = [start EXCEPT ![v] = day]
  /\ number' = [number EXCEPT ![v] = count]
  /\ Goto(v, IF visible THEN "resolved" ELSE "missed")
  /\ UNCHANGED <<day, visible, count, receipts, token, rowLock, counted>>

\* Receipts inserted by open transactions.
Pending == {Key(w) : w \in {x \in Visits : pc[x] \in {"inserted", "incremented"}}}

\* Fault: a receipt in an open transaction is not waited for.
WallIgnoresOpen(v) == IF Key(v) \in receipts THEN "duplicate" ELSE "inserted"

\* ON CONFLICT (post_id, view_token, window_start) DO NOTHING: a committed
\* receipt is a duplicate, an open one is waited for.
Wall(v) ==
  IF Key(v) \in receipts THEN "duplicate"
  ELSE IF Key(v) \in Pending THEN "waiting"
  ELSE "inserted"

Insert(v) ==
  /\ pc[v] = "resolved"
  /\ Wall(v) # "waiting"
  /\ Goto(v, Wall(v))
  /\ UNCHANGED <<day, visible, count, receipts, token, start, number, rowLock,
                 counted>>

\* The duplicate arm reads the counter again and answers counted = false.
\* Under row security a post that was hidden meanwhile is no row at all, and
\* fetch_one's error is a database error to the caller.
AnswerRepeated(v) ==
  /\ pc[v] = "duplicate"
  /\ IF Fenced /\ ~visible
       THEN Goto(v, "failed") /\ UNCHANGED number
       ELSE Goto(v, "repeated") /\ number' = [number EXCEPT ![v] = count]
  /\ UNCHANGED <<day, visible, count, receipts, token, start, rowLock, counted>>

\* Fault: the increment trusts the resolve.
TrustResolve(v) == TRUE

\* The guard the increment poses again.
StillVisible(v) == visible

\* Fault: the counter is written from the value the resolve read.
ResolvedPlusOne(v) == number[v] + 1

\* visits = visits + 1
Incremented(v) == count + 1

\* The UPDATE under its row lock, and the read-back in the same transaction.
\* The new count is seen by others when the transaction commits.
Increment(v) ==
  /\ pc[v] = "inserted"
  /\ rowLock = None
  /\ StillVisible(v)
  /\ rowLock' = v
  /\ number' = [number EXCEPT ![v] = Incremented(v)]
  /\ Goto(v, "incremented")
  /\ UNCHANGED <<day, visible, count, receipts, token, start, counted>>

\* Fault: the miss commits, and its receipt stays behind.
ReceiptsKept(v) == receipts \cup {Key(v)}

\* The rollback takes the receipt with it.
ReceiptsRolledBack(v) == receipts

\* Zero rows: the uniform 404 and a full rollback.
MissAtIncrement(v) ==
  /\ pc[v] = "inserted"
  /\ ~StillVisible(v)
  /\ receipts' = ReceiptsRolledBack(v)
  /\ Goto(v, "missed")
  /\ UNCHANGED <<day, visible, count, token, start, number, rowLock, counted>>

\* Fault: the prune does not look at the window.
PruneAll(v) == receipts

\* window_start < now() - Retention days: now() is past midnight, so the
\* window Retention days back is expired too.  The statement sees committed
\* receipts, not the transaction's own.
Expired(v) == {k \in receipts : k[2] + Retention <= start[v]}

\* Fault: the transaction is left open, its row lock with it.
LockLeaked == rowLock

\* COMMIT ends the transaction and frees the post's row.
LockAfterCommit == None

\* The commit of a counted visit; about one in a hundred carries the prune.
\* The answer may be lost on the way to the visitor.
Commit(v) ==
  /\ pc[v] = "incremented"
  /\ count' = number[v]
  /\ \/ receipts' = receipts \cup {Key(v)}
     \/ receipts' = (receipts \ Expired(v)) \cup {Key(v)}
  /\ counted' = counted \cup {[by |-> v, key |-> Key(v), number |-> number[v]]}
  /\ rowLock' = LockAfterCommit
  /\ \E answer \in {"counted", "lost"} : Goto(v, answer)
  /\ UNCHANGED <<day, visible, token, start, number>>

\* A process or a connection goes: the open transaction rolls back.
Die(v) ==
  /\ pc[v] \in Open
  /\ rowLock' = IF rowLock = v THEN None ELSE rowLock
  /\ Goto(v, "lost")
  /\ UNCHANGED <<day, visible, count, receipts, token, start, number, counted>>

-----------------------------------------------------------------------------
(* Editors, and the calendar *)

\* Unpublish, archive and their opposites write the row, so they wait for an
\* increment that is not committed.
Hide ==
  /\ visible
  /\ rowLock = None
  /\ visible' = FALSE
  /\ UNCHANGED <<day, count, receipts, pc, token, start, number, rowLock,
                 counted>>

Show ==
  /\ ~visible
  /\ visible' = TRUE
  /\ UNCHANGED <<day, count, receipts, pc, token, start, number, rowLock,
                 counted>>

\* A transaction sees at most one midnight.
Midnight ==
  /\ day < MaxDay
  /\ \A v \in Visits : pc[v] \in Open => start[v] = day
  /\ day' = day + 1
  /\ UNCHANGED <<visible, count, receipts, pc, token, start, number, rowLock,
                 counted>>

Serve(v) ==
  Insert(v) \/ AnswerRepeated(v) \/ Increment(v) \/ MissAtIncrement(v) \/ Commit(v)

Next ==
  \/ \E v \in Visits : Resolve(v) \/ Serve(v) \/ Die(v)
  \/ Hide \/ Show
  \/ Midnight

Spec == Init /\ [][Next]_vars

\* An open transaction is carried on; nobody has to visit, hide or die.
FairSpec == Spec /\ \A v \in Visits : WF_vars(Serve(v))

-----------------------------------------------------------------------------
(* Properties *)

CountedKeys == {c.key : c \in counted}

\* The tally the visitors were told is the tally there is: the counted
\* visits carry the numbers 1 to visits, each once.  No two increments read
\* the same counter.
NumbersAreTally ==
  /\ {c.number : c \in counted} = 1..count
  /\ Cardinality(counted) = count

\* Types hold, and the wall remembers what it must and nothing else: every
\* receipt stands for a counted visit (a miss leaves no trace), and a counted visit keeps
\* its receipt as long as a request of its day can still arrive or run.
ReceiptsStandForCounts ==
  /\ TypeOK
  /\ receipts \subseteq CountedKeys
  /\ \A k \in CountedKeys : k[2] > day - Retention => k \in receipts

\* No visit is counted on a hidden post, however late the increment comes
\* after the resolve.
CountsOnlyVisible ==
  [][count' # count => visible]_vars

\* The verb keeps a ledger of (token, day) pairs, each counted once.
Ledger == INSTANCE VisitLedger WITH ledger <- CountedKeys, tally <- count
CountsEachPairOnce == Ledger!Spec

\* A request that resolved the post is answered, or lost.
EveryVisitEnds ==
  \A v \in Visits : pc[v] \in Open ~> pc[v] \in Ended

-----------------------------------------------------------------------------
(* What the code's documentation says and its behaviour does not keep: TLC
   refutes it when it is added to the run *)

\* A post that left the visible set is the uniform 404 to every request.
MissIsUniform == \A v \in Visits : pc[v] # "failed"

=============================================================================
