---------------------------- MODULE VisitThrottle ----------------------------
(***************************************************************************)
(* The in-memory throttle in front of the visit verb: one fixed window per *)
(* key, measured from the first hit inside it.  A visit asks its address's *)
(* window, then its token's, each under the map's lock; another visit may  *)
(* run between the two.                                                    *)
(*                                                                         *)
(* Time is a number of ticks since a window started rather than a date:    *)
(* ages stop at Old, from where a window is stale for good.  The wall      *)
(* clock may step back, which makes every window younger; the process may  *)
(* restart and forgets the map.                                            *)
(***************************************************************************)
EXTENDS Integers

CONSTANTS
  Workers,  \* visits being served at a time
  Ips,      \* client addresses
  Tokens,   \* view tokens
  Budget,   \* hits a window admits
  Window,   \* ticks in a window
  MaxBack,  \* how far the clock steps back in all
  MaxRestarts, \* restarts of the process
  None      \* a worker that serves nobody

ASSUME BudgetAssumption == Budget \in Nat \ {0} /\ Window \in Nat \ {0}
ASSUME FaultsAssumption == MaxBack \in Nat /\ MaxRestarts \in Nat
ASSUME KeysAssumption == Ips \cap Tokens = {} /\ None \notin Tokens

VARIABLES
  known,     \* keys of the map; none is ever dropped
  age,       \* of each key's window; Old stands for "that old, or absent",
             \*    below 0 the window starts in the future
  count,     \* of each key's window
  asking,    \* the token each worker has still to ask for
  recent,    \* history: hits admitted on a key in the last n ticks of real time,
             \*    the one that runs included
  stepped,   \* history: how far the clock has stepped back
  restarts   \* history

map == <<known, age, count>>
throttleVars == <<map, asking, recent, stepped, restarts>>

Keys == Ips \cup Tokens
Old == Window + MaxBack
Spans == 0..Old

ThrottleTypeOK ==
  /\ known \subseteq Keys
  /\ age \in [Keys -> (-MaxBack)..Old]
  /\ count \in [Keys -> 0..Budget]
  /\ asking \in [Workers -> Tokens \cup {None}]
  /\ recent \in [Keys -> [Spans -> Nat]]
  /\ stepped \in 0..MaxBack
  /\ restarts \in 0..MaxRestarts

ThrottleInit ==
  /\ known = {}
  /\ age = [k \in Keys |-> Old]
  /\ count = [k \in Keys |-> 0]
  /\ asking = [w \in Workers |-> None]
  /\ recent = [k \in Keys |-> [n \in Spans |-> 0]]
  /\ stepped = 0
  /\ restarts = 0

-----------------------------------------------------------------------------
(* FixedWindows::allow *)

\* Fault: a window outlives its length by one tick.
StaleLate(k) == age[k] > Window

\* now.saturating_sub(start) >= window_secs
Stale(k) == age[k] >= Window

\* The count the hit finds once a stale window was reset in place.
CountNow(k) == IF Stale(k) THEN 0 ELSE count[k]

\* Fault: the budget is compared after one hit too many.
OverBudgetByOne(k) == CountNow(k) > Budget

\* count >= max
OverBudget(k) == CountNow(k) >= Budget

\* Fault: a refused hit starts the window anew.
AgeRestarted(k) == 0

\* Fault: the reset clears the count and keeps the start.
AgeNotRestarted(k) == age[k]

\* A hit leaves a running window's start alone, refused hits too.
AgeAfterHit(k) == IF Stale(k) THEN 0 ELSE age[k]

Hit(k) ==
  /\ known' = known \cup {k}
  /\ age' = [age EXCEPT ![k] = AgeAfterHit(k)]
  /\ count' = [count EXCEPT ![k] = IF OverBudget(k) THEN CountNow(k)
                                                    ELSE CountNow(k) + 1]
  /\ recent' = IF OverBudget(k) THEN recent
               ELSE [recent EXCEPT ![k] = [n \in Spans |-> IF n = 0 THEN 0 ELSE @[n] + 1]]
  /\ UNCHANGED <<stepped, restarts>>

-----------------------------------------------------------------------------
(* The visit service's two arms, and time *)

\* Fault: the address's answer is not looked at.
AskBoth(w, ip, token) ==
  /\ asking[w] = None
  /\ asking' = [asking EXCEPT ![w] = token]
  /\ Hit(ip)

\* The address first; a refusal there leaves the token's window alone.
AskIp(w, ip, token) ==
  /\ asking[w] = None
  /\ asking' = [asking EXCEPT ![w] = IF OverBudget(ip) THEN None ELSE token]
  /\ Hit(ip)

\* A refusal here does not give the address its hit back.
AskToken(w) ==
  /\ asking[w] # None
  /\ asking' = [asking EXCEPT ![w] = None]
  /\ Hit(asking[w])

Tick ==
  /\ age' = [k \in Keys |-> IF age[k] = Old THEN Old ELSE age[k] + 1]
  /\ recent' = [k \in Keys |->
                  [n \in Spans |-> IF n = 0 THEN 0 ELSE recent[k][n - 1]]]
  /\ UNCHANGED <<known, count, asking, stepped, restarts>>

\* The clock steps back by one.
StepBack ==
  /\ stepped < MaxBack
  /\ stepped' = stepped + 1
  /\ age' = [k \in Keys |-> IF k \in known THEN age[k] - 1 ELSE Old]
  /\ UNCHANGED <<known, count, asking, recent, restarts>>

\* The map and the visits being served are gone.
Restart ==
  /\ restarts < MaxRestarts
  /\ restarts' = restarts + 1
  /\ known' = {}
  /\ age' = [k \in Keys |-> Old]
  /\ count' = [k \in Keys |-> 0]
  /\ asking' = [w \in Workers |-> None]
  /\ UNCHANGED <<recent, stepped>>

-----------------------------------------------------------------------------
(* Properties *)

\* In any Window ticks a key is admitted at most twice its budget, at the end
\* of one fixed window and the beginning of the next, and once more for each
\* restart; a clock that steps back admits nobody too many.
BurstBounded ==
  \A k \in Keys : recent[k][Window] <= (2 + restarts) * Budget

\* A key is refused only if it was admitted Budget times within the last
\* window, which a clock that stepped back prolongs by the step: Retry-After,
\* a full window, is too short only then.
RefusalEarned ==
  \A k \in Keys : OverBudget(k) => recent[k][Window + stepped] >= Budget

\* Hammering does not prolong a refusal: a key that is over budget comes
\* back into budget.
Readmitted == \A k \in Keys : OverBudget(k) ~> ~OverBudget(k)

=============================================================================
