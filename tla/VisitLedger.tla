----------------------------- MODULE VisitLedger -----------------------------
(***************************************************************************)
(* What visit counting promises: a tally of the (token, day) pairs that    *)
(* visited a post, each pair once, whatever the number of requests.        *)
(***************************************************************************)
EXTENDS Naturals

CONSTANTS Tokens, Days

VARIABLES
  ledger,  \* the pairs counted so far
  tally    \* the number the post shows

vars == <<ledger, tally>>

Init ==
  /\ ledger = {}
  /\ tally = 0

Count(token, day) ==
  /\ <<token, day>> \notin ledger
  /\ ledger' = ledger \cup {<<token, day>>}
  /\ tally' = tally + 1

Next == \E token \in Tokens, day \in Days : Count(token, day)

Spec == Init /\ [][Next]_vars

=============================================================================
