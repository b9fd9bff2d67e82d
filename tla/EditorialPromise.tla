--------------------------- MODULE EditorialPromise ---------------------------
(***************************************************************************)
(* What the blog promises its editors, without saying how: a post is shown *)
(* only while an editor's approval of it is in force.  An approval is      *)
(* given to one post at a time, it can be withdrawn from any number of     *)
(* posts at once, and a withdrawn post disappears in the same step.  A     *)
(* post that is hidden although it is approved may come back into view,    *)
(* but nothing except a withdrawal takes a shown post away.                *)
(***************************************************************************)
CONSTANT Posts

VARIABLES
  approved,   \* the posts whose approval is in force
  shown       \* the posts the public tier can see

vars == <<approved, shown>>

Init ==
  /\ approved = {}
  /\ shown = {}

\* One post is approved; it may or may not come into view at once.
Approve(p) ==
  /\ p \notin approved
  /\ approved' = approved \cup {p}
  /\ shown' \in {shown, shown \cup {p}}

\* A set of posts loses its approval and leaves the view with it.
Withdraw(S) ==
  /\ approved' = approved \ S
  /\ shown' = shown \ S

\* Approved posts that were hidden come into view.
Reveal(S) ==
  /\ S \subseteq approved
  /\ shown' = shown \cup S
  /\ UNCHANGED approved

Next ==
  \/ \E p \in Posts : Approve(p)
  \/ \E S \in SUBSET Posts : Withdraw(S) \/ Reveal(S)

Spec == Init /\ [][Next]_vars

=============================================================================
