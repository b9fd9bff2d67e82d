--------------------------- MODULE VisitAdmission ---------------------------
(***************************************************************************)
(* How a visit is admitted: the token arm (a presented view token is       *)
(* verified, an absent one minted), the two throttle windows, and the      *)
(* verb's transaction, whose answer carries the token back.  Nothing is    *)
(* kept of a token but its signature and expiry: the client stores it, and *)
(* a client that keeps it is one viewer for the token's life.              *)
(*                                                                         *)
(* A token is a member of Tokens; its random nonce makes it unlike every   *)
(* other.  Its expiry is the number of ticks it has left.                  *)
(***************************************************************************)
EXTENDS VisitThrottle, FiniteSets

CONSTANTS
  Clients,  \* viewers, each of them with at most one token stored
  Secrets,  \* values BLOG_CAPABILITY_SECRET may have; None when unset
  Life      \* ticks a token lives

ASSUME LifeAssumption == Life \in Nat \ {0}
ASSUME NoneAssumption == None \notin Clients \cup Secrets
ASSUME FiniteAssumption == IsFiniteSet(Workers) /\ IsFiniteSet(Tokens)

VARIABLES
  secret,    \* of the running process
  signedBy,  \* the secret a token was signed with; None before it is minted
  left,      \* ticks to a token's expiry; -MaxBack: expired for good
  wallet,    \* the token a client has stored
  serving,   \* the client a worker serves
  verb,      \* the token a worker's transaction counts under
  holder,    \* history: the client a visit was counted for under a token
  excused,   \* history: clients that may be counted under two tokens
  entered    \* history: address hits this process admitted, up to |Tokens|

tokenVars == <<secret, signedBy, left>>
vars == <<throttleVars, tokenVars, wallet, serving, verb, holder, excused, entered>>

TypeOK ==
  /\ ThrottleTypeOK
  /\ secret \in Secrets \cup {None}
  /\ signedBy \in [Tokens -> Secrets \cup {None}]
  /\ left \in [Tokens -> (-MaxBack)..(Life + MaxBack)]
  /\ wallet \in [Clients -> Tokens \cup {None}]
  /\ serving \in [Workers -> Clients \cup {None}]
  /\ verb \in [Workers -> Tokens \cup {None}]
  /\ holder \in [Tokens -> Clients \cup {None}]
  /\ excused \subseteq Clients
  /\ entered \in 0..Cardinality(Tokens)
  /\ \A w \in Workers : asking[w] # None => serving[w] # None /\ verb[w] = None

Init ==
  /\ ThrottleInit
  /\ secret \in Secrets \cup {None}
  /\ signedBy = [t \in Tokens |-> None]
  /\ left = [t \in Tokens |-> -MaxBack]
  /\ wallet = [c \in Clients |-> None]
  /\ serving = [w \in Workers |-> None]
  /\ verb = [w \in Workers |-> None]
  /\ holder = [t \in Tokens |-> None]
  /\ excused = {}
  /\ entered = 0

-----------------------------------------------------------------------------
(* The token arm *)

Fresh == {t \in Tokens : signedBy[t] = None}

\* The signature first, then the expiry.
Verifies(t) == signedBy[t] = secret /\ left[t] > 0

\* A token that nobody has had, when there is one left.
Minted == IF Fresh = {} THEN {} ELSE {CHOOSE t \in Fresh : TRUE}

\* Fault: every visit is given a token of its own.
AlwaysMinted(c) == IF secret = None THEN {} ELSE Minted

\* The token the visit goes on with.  None is minted under an empty secret,
\* and a stored token that does not verify is refused.
Carried(c) ==
  IF secret = None THEN {}
  ELSE IF wallet[c] = None THEN Minted
  ELSE {t \in {wallet[c]} : Verifies(t)}

\* The address's window; a refusal there gives the client no token, so a
\* token that was minted for it has never been.
Present(w, c, ip) ==
  /\ serving[w] = None
  /\ \E t \in Carried(c) :
       /\ AskIp(w, ip, t)
       /\ IF OverBudget(ip)
          THEN UNCHANGED <<tokenVars, serving, excused, entered>>
          ELSE /\ serving' = [serving EXCEPT ![w] = c]
               /\ entered' = IF entered = Cardinality(Tokens) THEN entered ELSE entered + 1
               /\ IF t \in Fresh
                  THEN /\ signedBy' = [signedBy EXCEPT ![t] = secret]
                       /\ left' = [left EXCEPT ![t] = Life]
                       /\ excused' = IF \E other \in Workers : serving[other] = c
                                     THEN excused \cup {c} ELSE excused
                  ELSE UNCHANGED <<signedBy, left, excused>>
               /\ UNCHANGED secret
  /\ UNCHANGED <<wallet, verb, holder>>

\* The token's window.
PassToken(w) ==
  /\ AskToken(w)
  /\ IF OverBudget(asking[w])
     THEN serving' = [serving EXCEPT ![w] = None] /\ UNCHANGED verb
     ELSE verb' = [verb EXCEPT ![w] = asking[w]] /\ UNCHANGED serving
  /\ UNCHANGED <<tokenVars, wallet, holder, excused, entered>>

-----------------------------------------------------------------------------
(* The spelling of a token: v1.<payload>.<signature> *)

\* Base64 without padding.
B64Length(bytes) == (4 * bytes + 2) \div 3

\* 32 random bytes.
NonceLength == B64Length(32)

\* {"purpose":"blog-view-token","exp":<10 digits>,"data":["<nonce>"]}
PayloadLength == 58 + NonceLength

\* The signature has 32 bytes.
TokenLength == 3 + B64Length(PayloadLength) + 1 + B64Length(32)

\* The whole token is bound into the receipt, not its nonce.
StoredLength(t) == TokenLength

-----------------------------------------------------------------------------
(* The transaction's answer, and the client *)

Served(w) ==
  /\ serving' = [serving EXCEPT ![w] = None]
  /\ verb' = [verb EXCEPT ![w] = None]
  /\ UNCHANGED <<throttleVars, tokenVars, entered>>

\* Counted, or a duplicate: the client stores the token of the answer.
Answer(w) ==
  /\ verb[w] # None
  /\ Served(w)
  /\ holder' = [holder EXCEPT ![verb[w]] = serving[w]]
  /\ wallet' = [wallet EXCEPT ![serving[w]] = verb[w]]
  /\ UNCHANGED excused

\* The transaction committed and its answer is lost.
AnswerLost(w) ==
  /\ verb[w] # None
  /\ Served(w)
  /\ holder' = [holder EXCEPT ![verb[w]] = serving[w]]
  /\ excused' = IF wallet[serving[w]] = verb[w] THEN excused ELSE excused \cup {serving[w]}
  /\ UNCHANGED wallet

\* No post of this slug, or an error: the answer carries no token, and the
\* client never sees one that was minted for it.
Missed(w) ==
  /\ verb[w] # None
  /\ Served(w)
  /\ UNCHANGED <<holder, wallet, excused>>

\* A client drops its token: it was refused, or the client was cleared.
Forget(c) ==
  /\ wallet[c] # None
  /\ wallet' = [wallet EXCEPT ![c] = None]
  /\ excused' = IF left[wallet[c]] <= 0 THEN excused ELSE excused \cup {c}
  /\ UNCHANGED <<throttleVars, tokenVars, serving, verb, holder, entered>>

-----------------------------------------------------------------------------
(* Time and the process *)

TimePasses ==
  /\ Tick
  /\ left' = [t \in Tokens |-> IF left[t] = -MaxBack THEN -MaxBack ELSE left[t] - 1]
  /\ UNCHANGED <<secret, signedBy, wallet, serving, verb, holder, excused, entered>>

\* A token that had just expired is good again.
ClockBack ==
  /\ StepBack
  /\ left' = [t \in Tokens |-> IF t \in Fresh THEN -MaxBack ELSE left[t] + 1]
  /\ UNCHANGED <<secret, signedBy, wallet, serving, verb, holder, excused, entered>>

\* The secret is read at the start of a process.
ProcessRestart ==
  /\ Restart
  /\ secret' \in Secrets \cup {None}
  /\ serving' = [w \in Workers |-> None]
  /\ verb' = [w \in Workers |-> None]
  /\ entered' = 0
  /\ UNCHANGED <<signedBy, left, wallet, holder, excused>>

Next ==
  \/ \E w \in Workers, c \in Clients, ip \in Ips : Present(w, c, ip)
  \/ \E w \in Workers : PassToken(w) \/ Answer(w) \/ AnswerLost(w) \/ Missed(w)
  \/ \E c \in Clients : Forget(c)
  \/ TimePasses \/ ClockBack \/ ProcessRestart

\* Time goes on, whatever the visitors do.
Spec == Init /\ [][Next]_vars /\ WF_vars(TimePasses)

-----------------------------------------------------------------------------
(* Properties *)

\* The map never forgets a key, so its growth is what the address arm lets
\* through: it holds a token's key only for an address hit this process
\* admitted.  A refused visit adds none.
KeysEarned == Cardinality(known \cap Tokens) <= entered

\* Types hold, and a client that stores the token it is given, and keeps one first visit
\* running at a time, is one viewer: no two tokens it was counted under are
\* good at once, whatever expires, is throttled or restarts.  (A clock that
\* steps back may revive the token before.)
IdentityKept ==
  /\ TypeOK
  /\ stepped = 0 =>
       \A c \in Clients \ excused :
         Cardinality({t \in Tokens : holder[t] = c /\ Verifies(t)}) <= 1

\* What a transaction stores as view_token is the token's nonce ("the nonce
\* IS the dedup identity") and keeps the column's limit of 64 characters.
ViewTokenFits == \A w \in Workers : verb[w] # None => StoredLength(verb[w]) <= 64

=============================================================================
