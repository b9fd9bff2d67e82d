--------------------------- MODULE MCPublishCoupling ---------------------------
(* PublishCoupling for TLC: requests are interchangeable in the runs that    *)
(* check no liveness.                                                        *)
EXTENDS PublishCoupling, TLC

Symmetry == Permutations(Requests)

=============================================================================
