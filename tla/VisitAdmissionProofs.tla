------------------------- MODULE VisitAdmissionProofs -------------------------
(***************************************************************************)
(* Theorems about VisitAdmission, for any finite number of workers and     *)
(* tokens, any clients, addresses and secrets, any budget, window, token   *)
(* life, clock steps and restarts.                                         *)
(***************************************************************************)
EXTENDS VisitAdmission, FiniteSetTheorems, TLAPS

-----------------------------------------------------------------------------
(* The inductive invariant *)

\* Windows and tokens are younger than they should be by the clock's steps at most.
Youngest ==
  /\ \A k \in Keys : age[k] >= -stepped
  /\ \A t \in Tokens : left[t] <= Life + stepped

\* The token of the visit a worker serves.
Ridden(w) == IF asking[w] # None THEN asking[w] ELSE verb[w]

\* A worker serves a client with a token or nobody with none; a token that is asked for, stored
\* or counted under was minted.
TokensMinted ==
  /\ \A w \in Workers : serving[w] # None <=> Ridden(w) # None
  /\ \A w \in Workers : Ridden(w) # None => Ridden(w) \notin Fresh
  /\ \A c \in Clients : wallet[c] # None => wallet[c] \notin Fresh
  /\ \A t \in Tokens : holder[t] # None => t \notin Fresh

\* All visits of a careful client ride on one token, the one it has stored if it has one, and
\* so is every good token it was counted under.
OneToken ==
  stepped = 0 =>
    \A c \in Clients \ excused :
      /\ \A w, u \in Workers : serving[w] = c /\ serving[u] = c => Ridden(w) = Ridden(u)
      /\ \A w \in Workers : serving[w] = c => wallet[c] \in {None, Ridden(w)}
      /\ \A t \in Tokens : holder[t] = c /\ left[t] > 0 => wallet[c] = t

Asking == {w \in Workers : asking[w] # None}

\* Address hits pay for the token keys of the map and of the visits between their two arms.
HitsPay ==
  entered = Cardinality(Tokens) \/ Cardinality(known \cap Tokens) + Cardinality(Asking) <= entered

IInv == TypeOK /\ Youngest /\ TokensMinted /\ OneToken /\ HitsPay

-----------------------------------------------------------------------------
(* The map *)

\* A hit keeps the map's types and ages.
LEMMA HitTypes ==
  ASSUME ThrottleTypeOK, Youngest, NEW k \in Keys, Hit(k)
  PROVE  /\ known' \subseteq Keys
         /\ age' \in [Keys -> (-MaxBack)..Old]
         /\ count' \in [Keys -> 0..Budget]
         /\ recent' \in [Keys -> [Spans -> Nat]]
         /\ \A j \in Keys : age'[j] >= -stepped
<1> USE BudgetAssumption, FaultsAssumption DEF ThrottleTypeOK, Hit
<1>1. Old \in Nat
  BY DEF Old
<1>2. known' \subseteq Keys
  OBVIOUS
<1>3. AgeAfterHit(k) \in (-MaxBack)..Old /\ AgeAfterHit(k) >= -stepped
  BY <1>1 DEF AgeAfterHit, Youngest
<1>4. age' \in [Keys -> (-MaxBack)..Old] /\ \A j \in Keys : age'[j] >= -stepped
  BY <1>1, <1>3 DEF Youngest
<1>5. CountNow(k) \in 0..Budget
  BY DEF CountNow
<1>6. count' \in [Keys -> 0..Budget]
  BY <1>5 DEF OverBudget
<1>7. recent' \in [Keys -> [Spans -> Nat]]
  <2>1. ASSUME NEW n \in Spans PROVE (IF n = 0 THEN 0 ELSE recent[k][n] + 1) \in Nat
    OBVIOUS
  <2>2. [n \in Spans |-> IF n = 0 THEN 0 ELSE recent[k][n] + 1] \in [Spans -> Nat]
    BY <2>1
  <2> QED
    BY <2>2
<1> QED
  BY <1>2, <1>4, <1>6, <1>7

\* The sets that are counted are finite.
LEMMA Finite ==
  ASSUME TypeOK
  PROVE  /\ IsFiniteSet(known \cap Tokens) /\ Cardinality(known \cap Tokens) \in Nat
         /\ Cardinality(known \cap Tokens) <= Cardinality(Tokens)
         /\ IsFiniteSet(Asking) /\ Cardinality(Asking) \in Nat
         /\ Cardinality(Tokens) \in Nat
         /\ entered \in Nat /\ entered <= Cardinality(Tokens)
<1>1. known \cap Tokens \subseteq Tokens /\ Asking \subseteq Workers
  BY DEF Asking
<1>2. IsFiniteSet(known \cap Tokens) /\ IsFiniteSet(Asking)
  BY <1>1, FiniteAssumption, FS_Subset
<1>3. Cardinality(known \cap Tokens) <= Cardinality(Tokens)
  BY <1>1, FiniteAssumption, FS_Subset
<1>4. /\ Cardinality(Tokens) \in Nat /\ Cardinality(Asking) \in Nat
      /\ Cardinality(known \cap Tokens) \in Nat
  BY <1>2, FiniteAssumption, FS_CardinalityType
<1> QED
  BY <1>2, <1>3, <1>4 DEF TypeOK

-----------------------------------------------------------------------------
(* Steps *)

\* The initial state satisfies it.
LEMMA InitIInv == Init => IInv
<1> SUFFICES ASSUME Init PROVE IInv
  OBVIOUS
<1> USE BudgetAssumption, FaultsAssumption, LifeAssumption, NoneAssumption, KeysAssumption
    DEF Init, ThrottleInit, Old
<1>1. ThrottleTypeOK
  BY DEF ThrottleTypeOK, Spans
<1>2. Cardinality(Tokens) \in Nat
  BY FiniteAssumption, FS_CardinalityType
<1>3. TypeOK
  <2>1. left \in [Tokens -> (-MaxBack)..(Life + MaxBack)]
    OBVIOUS
  <2> QED
    BY <1>1, <1>2, <2>1 DEF TypeOK
<1>4. Youngest /\ TokensMinted /\ OneToken
  BY DEF Youngest, TokensMinted, OneToken, Ridden
<1>5. HitsPay
  <2>1. known \cap Tokens = {} /\ Asking = {}
    BY DEF Asking
  <2> QED
    BY <2>1, FS_EmptySet DEF HitsPay
<1> QED
  BY <1>3, <1>4, <1>5 DEF IInv

\* What a visit begins with: the stored token, or one that nobody has had.
LEMMA CarriedToken ==
  ASSUME IInv, NEW c \in Clients, NEW t \in Carried(c)
  PROVE  /\ t \in Tokens /\ secret \in Secrets
         /\ \/ wallet[c] = t /\ t \notin Fresh
            \/ wallet[c] = None /\ t \in Fresh
<1>1. secret # None /\ secret \in Secrets
  BY DEF IInv, TypeOK, Carried
<1>2. CASE wallet[c] # None
  BY <1>1, <1>2 DEF IInv, TypeOK, TokensMinted, Carried
<1>3. CASE wallet[c] = None
  BY <1>1, <1>3 DEF Carried, Minted, Fresh
<1> QED
  BY <1>1, <1>2, <1>3

\* Every step keeps it.
LEMMA NextIInv == IInv /\ [Next]_vars => IInv'
<1> SUFFICES ASSUME IInv, [Next]_vars PROVE IInv'
  OBVIOUS
<1> USE BudgetAssumption, FaultsAssumption, LifeAssumption, NoneAssumption, KeysAssumption
    DEF IInv, TypeOK, Youngest, TokensMinted, tokenVars, Keys, Asking
<1>1. ASSUME NEW w \in Workers, NEW c \in Clients, NEW ip \in Ips, Present(w, c, ip) PROVE IInv'
  <2> PICK t \in Carried(c) :
        /\ AskIp(w, ip, t)
        /\ IF OverBudget(ip)
           THEN UNCHANGED <<tokenVars, serving, excused, entered>>
           ELSE /\ serving' = [serving EXCEPT ![w] = c]
                /\ entered' = IF entered = Cardinality(Tokens) THEN entered ELSE entered + 1
                /\ IF t \in Fresh
                   THEN /\ signedBy' = [signedBy EXCEPT ![t] = secret]
                        /\ left' = [left EXCEPT ![t] = Life]
                        /\ excused' = IF \E other \in Workers : serving[other] = c
                                      THEN excused \cup {c} ELSE excused
                   ELSE UNCHANGED <<signedBy, left, excused>>
                /\ UNCHANGED secret
    BY <1>1 DEF Present
  <2>1. /\ serving[w] = None /\ asking[w] = None /\ verb[w] = None
        /\ UNCHANGED <<wallet, verb, holder, stepped, restarts>>
        /\ known' = known \cup {ip}
    BY <1>1 DEF Present, AskIp, Hit, Ridden
  <2>2. /\ t \in Tokens /\ secret \in Secrets /\ t # None
        /\ \/ wallet[c] = t /\ t \notin Fresh
           \/ wallet[c] = None /\ t \in Fresh
    BY CarriedToken
  <2>3. /\ known' \subseteq Keys
        /\ age' \in [Keys -> (-MaxBack)..Old]
        /\ count' \in [Keys -> 0..Budget]
        /\ recent' \in [Keys -> [Spans -> Nat]]
        /\ \A j \in Keys : age'[j] >= -stepped
    BY HitTypes DEF AskIp
  <2>4. known' \cap Tokens = known \cap Tokens
    BY <2>1
  <2>5. CASE OverBudget(ip)
    <3>1. UNCHANGED <<tokenVars, serving, excused, entered, asking>>
      BY <2>1, <2>5 DEF AskIp, ThrottleTypeOK
    <3>2. TypeOK'
      BY <2>1, <2>3, <3>1 DEF ThrottleTypeOK
    <3>3. Youngest' /\ TokensMinted' /\ OneToken'
      BY <2>1, <2>3, <3>1 DEF Ridden, Fresh, OneToken
    <3>4. HitsPay'
      BY <2>4, <3>1 DEF HitsPay
    <3> QED
      BY <3>2, <3>3, <3>4
  <2>6. CASE ~OverBudget(ip)
    <3>1. /\ asking' = [asking EXCEPT ![w] = t]
          /\ serving' = [serving EXCEPT ![w] = c]
          /\ entered' = IF entered = Cardinality(Tokens) THEN entered ELSE entered + 1
          /\ excused \subseteq excused' /\ excused' \subseteq excused \cup {c}
          /\ UNCHANGED secret
      BY <2>6 DEF AskIp
    <3>2. /\ signedBy' \in [Tokens -> Secrets \cup {None}]
          /\ left' \in [Tokens -> (-MaxBack)..(Life + MaxBack)]
          /\ \A s \in Tokens : left'[s] <= Life + stepped
          /\ Fresh' = Fresh \ {t}
          /\ \A s \in Tokens \ {t} : left'[s] = left[s]
      <4>1. stepped \in Nat /\ stepped <= MaxBack
        BY DEF ThrottleTypeOK
      <4>2. CASE t \in Fresh
        BY <2>2, <2>6, <4>1, <4>2 DEF Fresh
      <4>3. CASE t \notin Fresh
        BY <2>2, <2>6, <4>1, <4>3 DEF Fresh
      <4> QED
        BY <4>2, <4>3
    <3>3. TypeOK'
      <4>1. entered' \in 0..Cardinality(Tokens)
        BY <3>1, Finite
      <4>2. ThrottleTypeOK'
        BY <2>1, <2>2, <2>3, <3>1 DEF ThrottleTypeOK
      <4>3. \A u \in Workers : asking'[u] # None => serving'[u] # None /\ verb'[u] = None
        BY <2>1, <2>2, <3>1 DEF ThrottleTypeOK
      <4> QED
        BY <2>1, <3>1, <3>2, <4>1, <4>2, <4>3
    <3>4. Youngest'
      BY <2>1, <2>3, <3>2
    <3>5. /\ Ridden(w)' = t
          /\ \A u \in Workers \ {w} : serving'[u] = serving[u] /\ Ridden(u)' = Ridden(u)
      BY <2>1, <2>2, <3>1 DEF Ridden, ThrottleTypeOK
    <3>6. TokensMinted'
      BY <2>1, <2>2, <3>1, <3>2, <3>5
    <3>7. OneToken'
      <4>1. CASE wallet[c] = t
        BY <2>1, <2>2, <2>6, <3>1, <3>5, <4>1 DEF OneToken
      <4>2. CASE wallet[c] = None /\ t \in Fresh
        <5>1. holder[t] = None
          BY <4>2, <2>2
        <5>2. c \notin excused' => \A u \in Workers : serving[u] # c
          BY <2>6, <4>2
        <5> QED
          BY <2>1, <2>2, <3>1, <3>2, <3>5, <4>2, <5>1, <5>2 DEF OneToken
      <4> QED
        BY <2>2, <4>1, <4>2
    <3>8. HitsPay'
      <4>1. Asking' = Asking \cup {w} /\ w \notin Asking
        BY <2>1, <2>2, <3>1 DEF ThrottleTypeOK
      <4>2. Cardinality(Asking') = Cardinality(Asking) + 1
        <5>1. IsFiniteSet(Asking)
          BY Finite
        <5> HIDE DEF Asking
        <5> QED
          BY ONLY <4>1, <5>1, FS_AddElement
      <4>3. /\ Cardinality(known \cap Tokens) \in Nat /\ Cardinality(Asking) \in Nat
            /\ Cardinality(Tokens) \in Nat /\ entered \in Nat
        BY Finite
      <4>4. entered' = IF entered = Cardinality(Tokens) THEN entered ELSE entered + 1
        BY <3>1
      <4> QED
        BY ONLY <2>4, <4>2, <4>3, <4>4, HitsPay DEF HitsPay
    <3> QED
      BY <3>3, <3>4, <3>6, <3>7, <3>8
  <2> QED
    BY <2>5, <2>6
<1>2. ASSUME NEW w \in Workers, PassToken(w) PROVE IInv'
  <2> DEFINE t == asking[w]
  <2>1. /\ t \in Tokens
        /\ Hit(t)
        /\ asking' = [asking EXCEPT ![w] = None]
        /\ serving[w] # None /\ verb[w] = None
        /\ UNCHANGED <<tokenVars, wallet, holder, excused, entered, stepped, restarts>>
    BY <1>2 DEF PassToken, AskToken, Hit, ThrottleTypeOK
  <2>2. \/ verb' = [verb EXCEPT ![w] = t] /\ UNCHANGED serving
        \/ serving' = [serving EXCEPT ![w] = None] /\ UNCHANGED verb
    BY <1>2 DEF PassToken
  <2>3. /\ known' \subseteq Keys
        /\ age' \in [Keys -> (-MaxBack)..Old]
        /\ count' \in [Keys -> 0..Budget]
        /\ recent' \in [Keys -> [Spans -> Nat]]
        /\ \A j \in Keys : age'[j] >= -stepped
    BY <2>1, HitTypes
  <2>4. TypeOK'
    <3>1. ThrottleTypeOK'
      BY <2>1, <2>3 DEF ThrottleTypeOK
    <3>2. /\ serving' \in [Workers -> Clients \cup {None}]
          /\ verb' \in [Workers -> Tokens \cup {None}]
      BY <2>1, <2>2
    <3>3. \A u \in Workers : asking'[u] # None => serving'[u] # None /\ verb'[u] = None
      BY <2>1, <2>2 DEF ThrottleTypeOK
    <3> QED
      BY <2>1, <3>1, <3>2, <3>3
  <2>5. Youngest'
    BY <2>1, <2>3
  <2>6. /\ \/ serving'[w] = serving[w] /\ Ridden(w)' = Ridden(w)
           \/ serving'[w] = None /\ Ridden(w)' = None
        /\ \A u \in Workers \ {w} : serving'[u] = serving[u] /\ Ridden(u)' = Ridden(u)
    BY <2>1, <2>2 DEF Ridden, ThrottleTypeOK
  <2>7. TokensMinted'
    BY <2>1, <2>6 DEF Fresh
  <2>8. OneToken'
    BY <2>1, <2>6 DEF OneToken
  <2>9. HitsPay'
    <3>1. Asking' = Asking \ {w} /\ w \in Asking
      BY <2>1 DEF ThrottleTypeOK
    <3>2. Cardinality(Asking') = Cardinality(Asking) - 1
      <4>1. IsFiniteSet(Asking)
        BY Finite
      <4> HIDE DEF Asking
      <4> QED
        BY ONLY <3>1, <4>1, FS_RemoveElement
    <3> DEFINE keys == known \cap Tokens
               keysAfter == known' \cap Tokens
    <3>3. keysAfter = keys \cup {t}
      BY <2>1 DEF Hit
    <3>4. /\ IsFiniteSet(keys) /\ Cardinality(keys) \in Nat
          /\ Cardinality(Asking) \in Nat /\ Cardinality(Tokens) \in Nat /\ entered \in Nat
      BY Finite
    <3>5. Cardinality(keysAfter) \in Nat /\ Cardinality(keysAfter) <= Cardinality(keys) + 1
      <4> HIDE DEF keys, keysAfter
      <4>1. Cardinality(keysAfter) \in {Cardinality(keys), Cardinality(keys) + 1}
        BY ONLY <3>3, <3>4, FS_AddElement
      <4> QED
        BY ONLY <3>4, <4>1
    <3>6. entered' = entered
      BY <2>1
    <3> QED
      BY ONLY <3>2, <3>4, <3>5, <3>6, HitsPay DEF HitsPay
  <2> QED
    BY <2>4, <2>5, <2>7, <2>8, <2>9
<1>3. ASSUME NEW w \in Workers, Answer(w) \/ AnswerLost(w) \/ Missed(w) PROVE IInv'
  <2>1. /\ verb[w] \in Tokens /\ verb[w] # None /\ asking[w] = None /\ serving[w] \in Clients
        /\ serving' = [serving EXCEPT ![w] = None]
        /\ verb' = [verb EXCEPT ![w] = None]
        /\ UNCHANGED <<throttleVars, tokenVars, entered>>
    BY <1>3 DEF Answer, AnswerLost, Missed, Served, Ridden
  <2>2. \/ /\ holder' = [holder EXCEPT ![verb[w]] = serving[w]]
           /\ wallet' = [wallet EXCEPT ![serving[w]] = verb[w]]
           /\ UNCHANGED excused
        \/ /\ holder' = [holder EXCEPT ![verb[w]] = serving[w]]
           /\ excused' = IF wallet[serving[w]] = verb[w] THEN excused
                                                         ELSE excused \cup {serving[w]}
           /\ UNCHANGED wallet
        \/ UNCHANGED <<holder, wallet, excused>>
    BY <1>3 DEF Answer, AnswerLost, Missed
  <2>3. TypeOK'
    <3>1. ThrottleTypeOK'
      BY <2>1 DEF throttleVars, map, ThrottleTypeOK
    <3>2. /\ wallet' \in [Clients -> Tokens \cup {None}]
          /\ holder' \in [Tokens -> Clients \cup {None}]
          /\ excused' \subseteq Clients
      BY <2>1, <2>2
    <3>3. \A u \in Workers : asking'[u] # None => serving'[u] # None /\ verb'[u] = None
      BY <2>1 DEF throttleVars
    <3> QED
      BY <2>1, <3>1, <3>2, <3>3
  <2>4. Youngest'
    BY <2>1 DEF throttleVars, map
  <2>5. /\ Ridden(w) = verb[w] /\ Ridden(w)' = None /\ serving'[w] = None
        /\ \A u \in Workers \ {w} : serving'[u] = serving[u] /\ Ridden(u)' = Ridden(u)
    BY <2>1 DEF Ridden, throttleVars
  <2>6. TokensMinted'
    BY <2>1, <2>2, <2>5 DEF Fresh
  <2>7. OneToken'
    <3>1. stepped' = stepped /\ left' = left
      BY <2>1 DEF throttleVars
    <3> QED
      BY <2>1, <2>2, <2>5, <3>1 DEF OneToken
  <2>8. HitsPay'
    BY <2>1 DEF HitsPay, throttleVars, map
  <2> QED
    BY <2>3, <2>4, <2>6, <2>7, <2>8
<1>4. ASSUME NEW c \in Clients, Forget(c) PROVE IInv'
  <2> USE <1>4 DEF Forget, throttleVars, map
  <2>1. TypeOK'
    BY DEF ThrottleTypeOK
  <2>2. Youngest' /\ TokensMinted' /\ HitsPay'
    BY DEF Ridden, Fresh, HitsPay
  <2>3. OneToken'
    BY DEF OneToken, Ridden
  <2> QED
    BY <2>1, <2>2, <2>3
<1>5. CASE TimePasses
  <2> USE <1>5 DEF TimePasses, Tick
  <2>1. ThrottleTypeOK'
    <3>1. age' \in [Keys -> (-MaxBack)..Old]
      <4>1. Old \in Nat
        BY DEF Old
      <4>2. ASSUME NEW k \in Keys
            PROVE  (IF age[k] = Old THEN Old ELSE age[k] + 1) \in (-MaxBack)..Old
        <5>1. age[k] \in (-MaxBack)..Old
          BY DEF ThrottleTypeOK
        <5> QED
          BY ONLY <4>1, <5>1, FaultsAssumption
      <4> QED
        BY <4>2
    <3>2. recent' \in [Keys -> [Spans -> Nat]]
      <4>1. ASSUME NEW k \in Keys, NEW n \in Spans
            PROVE  (IF n = 0 THEN 0 ELSE recent[k][n - 1]) \in Nat
        BY DEF ThrottleTypeOK, Old, Spans
      <4> QED
        BY <4>1
    <3> QED
      BY <3>1, <3>2 DEF ThrottleTypeOK
  <2>2. /\ left' \in [Tokens -> (-MaxBack)..(Life + MaxBack)]
        /\ \A t \in Tokens : left'[t] <= left[t]
    <3>1. ASSUME NEW t \in Tokens
          PROVE  LET after == IF left[t] = -MaxBack THEN -MaxBack ELSE left[t] - 1
                 IN after \in (-MaxBack)..(Life + MaxBack) /\ after <= left[t]
      <4>1. left[t] \in (-MaxBack)..(Life + MaxBack)
        OBVIOUS
      <4> QED
        BY ONLY <4>1, FaultsAssumption, LifeAssumption
    <3> QED
      BY <3>1
  <2>3. TypeOK'
    BY <2>1, <2>2
  <2>4. Youngest'
    BY <2>2 DEF ThrottleTypeOK, Old
  <2>5. TokensMinted' /\ HitsPay'
    BY DEF Ridden, Fresh, HitsPay
  <2>6. OneToken'
    BY <2>2 DEF OneToken, Ridden
  <2> QED
    BY <2>3, <2>4, <2>5, <2>6
<1>6. CASE ClockBack
  <2> USE <1>6 DEF ClockBack, StepBack
  <2>1. ThrottleTypeOK'
    BY DEF ThrottleTypeOK, Old
  <2>2. /\ left' \in [Tokens -> (-MaxBack)..(Life + MaxBack)]
        /\ \A t \in Tokens : left'[t] <= Life + stepped'
    BY DEF ThrottleTypeOK
  <2>3. TypeOK'
    BY <2>1, <2>2
  <2>4. Youngest'
    BY <2>2 DEF ThrottleTypeOK, Old
  <2>5. TokensMinted' /\ HitsPay'
    BY DEF Ridden, Fresh, HitsPay
  <2>6. OneToken'
    BY DEF OneToken, ThrottleTypeOK
  <2> QED
    BY <2>3, <2>4, <2>5, <2>6
<1>7. CASE ProcessRestart
  <2> USE <1>7 DEF ProcessRestart, Restart
  <2>1. ThrottleTypeOK'
    BY DEF ThrottleTypeOK, Old
  <2>2. TypeOK'
    BY <2>1, Finite
  <2>3. Youngest'
    BY DEF ThrottleTypeOK, Old
  <2>4. TokensMinted' /\ OneToken'
    BY DEF Ridden, Fresh, OneToken
  <2>5. HitsPay'
    <3>1. known' \cap Tokens = {} /\ Asking' = {}
      OBVIOUS
    <3>2. Cardinality(known' \cap Tokens) = 0 /\ Cardinality(Asking') = 0
      BY <3>1, FS_EmptySet
    <3> QED
      BY ONLY <3>2, entered' = 0 DEF HitsPay
  <2> QED
    BY <2>2, <2>3, <2>4, <2>5
<1>8. CASE UNCHANGED vars
  <2> USE <1>8 DEF vars, throttleVars, map
  <2>1. TypeOK'
    BY DEF ThrottleTypeOK
  <2>2. Youngest' /\ TokensMinted' /\ OneToken' /\ HitsPay'
    BY DEF Ridden, Fresh, OneToken, HitsPay
  <2> QED
    BY <2>1, <2>2
<1> QED
  BY <1>1, <1>2, <1>3, <1>4, <1>5, <1>6, <1>7, <1>8 DEF Next

-----------------------------------------------------------------------------
(* The windows' counts *)

\* A window's count was admitted since the window began, which is at most its age and the
\* clock's steps ago.
CountsEarned ==
  \A k \in Keys, n \in Spans : n > age[k] + stepped => recent[k][n] >= count[k]

\* Of a key the map holds, nothing but its window's count was admitted since the window began,
\* and nothing but one budget more, and one for each restart, in any Window ticks; a key the map
\* does not hold has no count and one budget less to answer for.
CountsComplete ==
  \A k \in Keys :
    /\ k \notin known => age[k] = Old /\ count[k] = 0
    /\ \A n \in Spans :
         /\ k \in known /\ n <= age[k] => recent[k][n] <= count[k]
         /\ k \in known /\ n <= Window => recent[k][n] <= count[k] + (1 + restarts) * Budget
         /\ k \notin known /\ n <= Window => recent[k][n] <= (1 + restarts) * Budget

Counts == CountsEarned /\ CountsComplete

\* A restart adds a budget.
LEMMA Allowance ==
  ASSUME ThrottleTypeOK
  PROVE  /\ (1 + restarts) * Budget \in Nat
         /\ (1 + restarts) * Budget >= Budget
         /\ (2 + restarts) * Budget = (1 + restarts) * Budget + Budget
<1>1. restarts \in Nat /\ Budget \in Nat
  BY BudgetAssumption, FaultsAssumption DEF ThrottleTypeOK
<1>2. restarts * Budget \in Nat
  BY <1>1
<1>3. (1 + restarts) * Budget = Budget + restarts * Budget
  BY <1>1
<1>4. (2 + restarts) * Budget = 2 * Budget + restarts * Budget
  BY <1>1
<1> HIDE <1>1
<1> QED
  BY <1>1, <1>2, <1>3, <1>4

\* A hit keeps the counts.
LEMMA HitCounts ==
  ASSUME ThrottleTypeOK, Youngest, Counts, NEW k \in Keys, Hit(k)
  PROVE  Counts'
<1> USE BudgetAssumption, FaultsAssumption
<1> DEFINE A == (1 + restarts) * Budget
<1>1. /\ A \in Nat
      /\ stepped \in Nat /\ stepped' = stepped /\ restarts' = restarts
      /\ age[k] \in Int /\ age[k] >= -stepped /\ count[k] \in 0..Budget
      /\ Window \in Nat /\ Window <= Old
  BY Allowance DEF Hit, ThrottleTypeOK, Youngest, Old
<1>2. /\ known' = known \cup {k}
      /\ age'[k] = AgeAfterHit(k)
      /\ count'[k] = IF OverBudget(k) THEN CountNow(k) ELSE CountNow(k) + 1
      /\ \A j \in Keys \ {k} :
           /\ age'[j] = age[j] /\ count'[j] = count[j] /\ recent'[j] = recent[j]
           /\ j \in known' <=> j \in known
      /\ \A n \in Spans :
           recent'[k][n] = IF OverBudget(k) THEN recent[k][n]
                           ELSE IF n = 0 THEN 0 ELSE recent[k][n] + 1
  BY DEF Hit, ThrottleTypeOK
<1>3. A' = A
  BY <1>1
<1> HIDE DEF A
<1>4. ASSUME NEW n \in Spans
      PROVE  /\ n \in Nat /\ n <= Old /\ recent[k][n] \in Nat
             /\ n > age[k] + stepped => recent[k][n] >= count[k]
             /\ k \notin known => age[k] = Old /\ count[k] = 0
             /\ k \in known /\ n <= age[k] => recent[k][n] <= count[k]
             /\ k \in known /\ n <= Window => recent[k][n] <= count[k] + A
             /\ k \notin known /\ n <= Window => recent[k][n] <= A
  BY DEF Counts, CountsEarned, CountsComplete, Spans, ThrottleTypeOK, Old, A
<1>5. ASSUME NEW n \in Spans
      PROVE  /\ n > age'[k] + stepped => recent'[k][n] >= count'[k]
             /\ n <= age'[k] => recent'[k][n] <= count'[k]
             /\ n <= Window => recent'[k][n] <= count'[k] + A
  <2>1. CASE Stale(k)
    <3>1. /\ age'[k] = 0 /\ count'[k] = 1 /\ age[k] >= Window
          /\ recent'[k][n] = IF n = 0 THEN 0 ELSE recent[k][n] + 1
      BY <1>2, <2>1 DEF AgeAfterHit, OverBudget, CountNow, Stale
    <3>2. Budget <= A
      BY Allowance DEF A
    <3> QED
      BY ONLY <1>1, <1>4, <3>1, <3>2, BudgetAssumption
  <2>2. CASE ~Stale(k)
    <3>1. /\ age'[k] = age[k] /\ age[k] < Window
          /\ \/ count'[k] = count[k] /\ recent'[k][n] = recent[k][n]
             \/ count'[k] = count[k] + 1
                /\ recent'[k][n] = IF n = 0 THEN 0 ELSE recent[k][n] + 1
      BY <1>1, <1>2, <2>2 DEF AgeAfterHit, OverBudget, CountNow, Stale
    <3> QED
      BY ONLY <1>1, <1>4, <3>1, BudgetAssumption
  <2> QED
    BY <2>1, <2>2
<1>6. CountsEarned'
  BY <1>1, <1>2, <1>5 DEF Counts, CountsEarned, Spans
<1>7. CountsComplete'
  BY <1>1, <1>2, <1>3, <1>5 DEF Counts, CountsComplete, Spans, A
<1> QED
  BY <1>6, <1>7 DEF Counts

\* Time keeps them.
LEMMA TickCounts == ThrottleTypeOK /\ Youngest /\ Counts /\ Tick => Counts'
<1> SUFFICES ASSUME ThrottleTypeOK, Youngest, Counts, Tick PROVE Counts'
  OBVIOUS
<1> USE BudgetAssumption, FaultsAssumption
<1> DEFINE A == (1 + restarts) * Budget
<1>1. A \in Nat /\ A' = A /\ Window \in Nat /\ Window <= Old /\ Old \in Nat /\ stepped \in Nat
  BY Allowance DEF Tick, ThrottleTypeOK, Old
<1> HIDE DEF A
<1>2. ASSUME NEW k \in Keys, NEW n \in Spans
      PROVE  /\ n \in Nat /\ n <= Old /\ recent[k][n] \in Nat /\ age[k] \in Int /\ count[k] \in Nat
             /\ age[k] >= -stepped
             /\ age'[k] = IF age[k] = Old THEN Old ELSE age[k] + 1
             /\ recent'[k][n] = IF n = 0 THEN 0 ELSE recent[k][n - 1]
             /\ n # 0 => n - 1 \in Spans
             /\ k \notin known => age[k] = Old /\ count[k] = 0
             /\ n > age[k] + stepped => recent[k][n] >= count[k]
             /\ k \in known /\ n <= age[k] => recent[k][n] <= count[k]
             /\ k \in known /\ n <= Window => recent[k][n] <= count[k] + A
             /\ k \notin known /\ n <= Window => recent[k][n] <= A
  BY DEF Counts, CountsEarned, CountsComplete, Spans, ThrottleTypeOK, Old, A, Tick,
         Youngest
<1>3. UNCHANGED <<known, count, stepped, restarts>>
  BY DEF Tick
<1>4. ASSUME NEW k \in Keys, NEW n \in Spans
      PROVE  /\ n > age'[k] + stepped => recent'[k][n] >= count[k]
             /\ k \notin known => age'[k] = Old
             /\ k \in known /\ n <= age'[k] => recent'[k][n] <= count[k]
             /\ k \in known /\ n <= Window => recent'[k][n] <= count[k] + A
             /\ k \notin known /\ n <= Window => recent'[k][n] <= A
  <2>1. CASE n = 0
    BY ONLY <2>1, <1>1, <1>2
  <2>2. CASE n # 0
    <3> DEFINE m == n - 1
    <3>1. m \in Spans /\ n = m + 1 /\ recent'[k][n] = recent[k][m]
      BY ONLY <2>2, <1>2
    <3> HIDE DEF m
    <3>2. /\ m \in Nat /\ m <= Old /\ recent[k][m] \in Nat
          /\ age[k] \in Int /\ count[k] \in Nat
          /\ age'[k] = IF age[k] = Old THEN Old ELSE age[k] + 1
          /\ k \notin known => age[k] = Old
          /\ m > age[k] + stepped => recent[k][m] >= count[k]
          /\ k \in known /\ m <= age[k] => recent[k][m] <= count[k]
          /\ k \in known /\ m <= Window => recent[k][m] <= count[k] + A
          /\ k \notin known /\ m <= Window => recent[k][m] <= A
      BY ONLY <3>1, <1>2
    <3>3. n <= Old /\ n \in Nat
      BY ONLY <1>2
    <3> QED
      BY ONLY <3>1, <3>2, <3>3, <1>1
  <2> QED
    BY <2>1, <2>2
<1>5. CountsEarned'
  BY <1>3, <1>4 DEF CountsEarned, Spans
<1>6. CountsComplete'
  BY <1>1, <1>2, <1>3, <1>4 DEF CountsComplete, Spans, A
<1> QED
  BY <1>5, <1>6 DEF Counts

\* So does a clock that steps back: windows get younger as the steps get more.
LEMMA StepBackCounts == ThrottleTypeOK /\ Counts /\ StepBack => Counts'
<1> SUFFICES ASSUME ThrottleTypeOK, Counts, StepBack PROVE Counts'
  OBVIOUS
<1>1. CountsEarned'
  BY FaultsAssumption, BudgetAssumption
  DEF Counts, CountsEarned, CountsComplete, StepBack, ThrottleTypeOK, Spans, Old
<1>2. CountsComplete'
  BY FaultsAssumption, BudgetAssumption
  DEF Counts, CountsComplete, StepBack, ThrottleTypeOK, Spans, Old
<1> QED
  BY <1>1, <1>2 DEF Counts

\* And a restart, which turns what a window admitted into the allowance.
LEMMA RestartCounts == ThrottleTypeOK /\ Counts /\ Restart => Counts'
<1> SUFFICES ASSUME ThrottleTypeOK, Counts, Restart PROVE Counts'
  OBVIOUS
<1> DEFINE A == (1 + restarts) * Budget
<1>1. /\ A \in Nat /\ A' = A + Budget /\ A >= Budget
      /\ Window \in Nat /\ Budget \in Nat
  BY Allowance, BudgetAssumption DEF Restart, ThrottleTypeOK
<1>2. ASSUME NEW k \in Keys, NEW n \in Spans
      PROVE  /\ recent[k][n] \in Nat /\ count[k] \in 0..Budget
             /\ n <= Window => recent[k][n] <= count[k] + A \/ recent[k][n] <= A
  BY DEF Counts, CountsComplete, ThrottleTypeOK
<1> HIDE DEF A
<1>3. ASSUME NEW k \in Keys, NEW n \in Spans
      PROVE  n <= Window => recent[k][n] <= A'
  BY ONLY <1>1, <1>2
<1>4. CountsEarned'
  BY <1>2 DEF CountsEarned, Restart, Spans
<1>5. CountsComplete'
  BY <1>3 DEF CountsComplete, Restart, Spans, A
<1> QED
  BY <1>4, <1>5 DEF Counts

\* Every step keeps the counts.
LEMMA NextCounts == IInv /\ Counts /\ [Next]_vars => Counts'
<1> SUFFICES ASSUME IInv, Counts, [Next]_vars PROVE Counts'
  OBVIOUS
<1>1. ThrottleTypeOK /\ Youngest
  BY DEF IInv, TypeOK
<1>2. ASSUME UNCHANGED throttleVars PROVE Counts'
  BY <1>2 DEF throttleVars, map, Counts, CountsEarned, CountsComplete, Spans
<1>3. ASSUME NEW w \in Workers, NEW c \in Clients, NEW ip \in Ips, Present(w, c, ip) PROVE Counts'
  BY <1>1, <1>3, HitCounts DEF Present, AskIp, Keys
<1>4. ASSUME NEW w \in Workers, PassToken(w) PROVE Counts'
  BY <1>1, <1>4, HitCounts DEF PassToken, AskToken, ThrottleTypeOK, Keys
<1>5. ASSUME NEW w \in Workers, Answer(w) \/ AnswerLost(w) \/ Missed(w) PROVE Counts'
  BY <1>2, <1>5 DEF Answer, AnswerLost, Missed, Served
<1>6. ASSUME NEW c \in Clients, Forget(c) PROVE Counts'
  BY <1>2, <1>6 DEF Forget
<1>7. CASE TimePasses
  BY <1>1, <1>7, TickCounts DEF TimePasses
<1>8. CASE ClockBack
  BY <1>1, <1>8, StepBackCounts DEF ClockBack
<1>9. CASE ProcessRestart
  BY <1>1, <1>9, RestartCounts DEF ProcessRestart
<1>10. CASE UNCHANGED vars
  BY <1>2, <1>10 DEF vars
<1> QED
  BY <1>3, <1>4, <1>5, <1>6, <1>7, <1>8, <1>9, <1>10 DEF Next

-----------------------------------------------------------------------------
(* The theorems *)

\* The invariant holds of every reachable state.
THEOREM AdmissionInvariance == Spec => []IInv
  BY InitIInv, NextIInv, PTL DEF Spec

\* A careful client is one viewer: no two tokens it was counted under are good at once,
\* whatever is throttled, expires, is lost or restarts.
THEOREM IdentitiesKept == Spec => []IdentityKept
<1>1. ASSUME IInv, stepped = 0, NEW c \in Clients \ excused
      PROVE  Cardinality({t \in Tokens : holder[t] = c /\ Verifies(t)}) <= 1
  <2>1. {t \in Tokens : holder[t] = c /\ Verifies(t)} \subseteq {wallet[c]}
    BY <1>1 DEF IInv, OneToken, Verifies
  <2>2. IsFiniteSet({wallet[c]}) /\ Cardinality({wallet[c]}) = 1
    BY FS_Singleton
  <2> QED
    BY <2>1, <2>2, FS_Subset
<1>2. IInv => IdentityKept
  BY <1>1 DEF IInv, IdentityKept
<1> QED
  BY AdmissionInvariance, <1>2, PTL

\* The map holds a token's key only for an address hit this process admitted.
THEOREM KeysAlwaysEarned == Spec => []KeysEarned
<1>1. IInv => KeysEarned
  BY Finite DEF IInv, HitsPay, KeysEarned
<1> QED
  BY AdmissionInvariance, <1>1, PTL

\* The counts hold of every reachable state.
THEOREM CountsInvariance == Spec => []Counts
<1>1. Init => Counts
  <2> SUFFICES ASSUME Init PROVE Counts
    OBVIOUS
  <2>1. (1 + restarts) * Budget \in Nat
    BY InitIInv, Allowance DEF IInv, TypeOK
  <2> QED
    BY <2>1 DEF Init, ThrottleInit, Counts, CountsEarned, CountsComplete
<1> QED
  BY <1>1, AdmissionInvariance, NextCounts, PTL DEF Spec

\* No key is admitted more than twice its budget in any Window ticks, and once more for each
\* restart, whatever the clock does.
THEOREM BurstsBounded == Spec => []BurstBounded
<1>1. ASSUME IInv, Counts, NEW k \in Keys
      PROVE  recent[k][Window] <= (2 + restarts) * Budget
  <2>1. Window \in Spans /\ Window \in Nat /\ Budget \in Nat
    BY BudgetAssumption, FaultsAssumption DEF Spans, Old
  <2>2. recent[k][Window] \in Nat /\ count[k] \in 0..Budget
    BY <1>1, <2>1 DEF IInv, TypeOK, ThrottleTypeOK
  <2>3. \/ recent[k][Window] <= count[k] + (1 + restarts) * Budget
        \/ recent[k][Window] <= (1 + restarts) * Budget
    BY <1>1, <2>1 DEF Counts, CountsComplete
  <2>4. /\ (1 + restarts) * Budget \in Nat
        /\ (2 + restarts) * Budget = (1 + restarts) * Budget + Budget
    BY <1>1, Allowance DEF IInv, TypeOK
  <2> DEFINE A == (1 + restarts) * Budget
             B == (2 + restarts) * Budget
  <2> HIDE DEF A, B
  <2>5. recent[k][Window] <= B
    BY ONLY <2>1, <2>2, <2>3, <2>4 DEF A, B
  <2> QED
    BY <2>5 DEF B
<1>2. IInv /\ Counts => BurstBounded
  BY <1>1 DEF BurstBounded
<1> QED
  BY AdmissionInvariance, CountsInvariance, <1>2, PTL

\* A key that is refused was admitted its budget within the last window, prolonged by the
\* clock's steps back.
THEOREM RefusalsEarned == Spec => []RefusalEarned
<1>1. ASSUME IInv, Counts, NEW k \in Keys, OverBudget(k)
      PROVE  recent[k][Window + stepped] >= Budget
  <2>1. age[k] \in Int /\ count[k] \in Nat /\ stepped \in 0..MaxBack
    BY <1>1, BudgetAssumption, FaultsAssumption DEF IInv, TypeOK, ThrottleTypeOK
  <2>2. age[k] < Window /\ count[k] >= Budget
    BY <1>1, <2>1, BudgetAssumption DEF OverBudget, CountNow, Stale
  <2>3. Window + stepped \in Spans
    BY <2>1, BudgetAssumption, FaultsAssumption DEF Spans, Old
  <2>4. recent[k][Window + stepped] >= count[k]
    BY <1>1, <2>1, <2>2, <2>3, BudgetAssumption, FaultsAssumption DEF Counts, CountsEarned
  <2>5. recent[k][Window + stepped] \in Nat
    BY <1>1, <2>3 DEF IInv, TypeOK, ThrottleTypeOK
  <2> QED
    BY <2>1, <2>2, <2>4, <2>5, BudgetAssumption
<1>2. IInv /\ Counts => RefusalEarned
  BY <1>1 DEF RefusalEarned
<1> QED
  BY AdmissionInvariance, CountsInvariance, <1>2, PTL

=============================================================================
