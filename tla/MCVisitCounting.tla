---------------------------- MODULE MCVisitCounting ----------------------------
(* VisitCounting for TLC: requests, and tokens, are interchangeable in the   *)
(* runs that check no liveness.                                              *)
EXTENDS VisitCounting, TLC

Symmetry == Permutations(Visits) \cup Permutations(Tokens)

=============================================================================
