---------------------------- MODULE MCContentRaces ----------------------------
(* ContentRaces for TLC: connections, posts and websites are interchangeable. *)
EXTENDS ContentRaces, TLC

Symmetry == Permutations(Txs) \cup Permutations(Posts) \cup Permutations(Sites)

=============================================================================
