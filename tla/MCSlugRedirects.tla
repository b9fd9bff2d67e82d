--------------------------- MODULE MCSlugRedirects ---------------------------
(* SlugRedirects for TLC: editors, rows, slugs and names are interchangeable. *)
EXTENDS SlugRedirects, TLC

CONSTANT MaxLost  \* lost redirects at a time; a path is excused through them

CONSTANT MaxRedirects  \* rows of the website layer's table

FewRedirects == Cardinality({p \in Paths : redirect[p] # None}) <= MaxRedirects

FewLost == Cardinality(lost) <= MaxLost

Symmetry == Permutations(Editors) \cup Permutations(Rows) \cup Permutations(Slugs)
              \cup Permutations(Names)

=============================================================================
