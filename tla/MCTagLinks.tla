------------------------------ MODULE MCTagLinks ------------------------------
(* TagLinks for TLC: connections, tags and link rows are interchangeable. *)
EXTENDS TagLinks, TLC

CONSTANT MaxTrashed  \* soft-deleted rows at a time, over the three tables

FewTrashed ==
  Cardinality(trashed)
    + Cardinality({k \in Tags : tagRow[k] = "trashed"})
    + Cardinality({c \in Categories : categoryRow[c] = "trashed"}) <= MaxTrashed

\* No statement touches links and categories: those are looked at with no link about.
CategoriesOrLinks ==
  (\E c \in Categories : categoryRow[c] # "absent") =>
    Rows = {} /\ \A t \in Txs : pc[t] \notin Setting \cup {"loading", "touching", "emptying"}

\* The third link is one that a transaction inserts.
TwoCommitted == Cardinality(Committed) <= 2

\* A transaction that fails leaves what one that dies leaves.
FailingIsDying == \A t \in Txs : pc[t] # "failed"

Symmetry == Permutations(Txs) \cup Permutations(Tags) \cup Permutations(Links) \cup Permutations(Posts)
  \cup Permutations(Categories)

=============================================================================
