---------------------------- MODULE MCPublicReads ----------------------------
(* PublicReads for TLC: a deleted tag's slug that is in use again, one post *)
(* twice under the old tag, one under the new and one under none.           *)
EXTENDS PublicReads

MCLinkPost == <<1, 1, 2>>
MCLinkTag == <<"old", "old", "new">>

=============================================================================
