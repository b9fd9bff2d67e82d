---------------------------- MODULE MCBlogContent ----------------------------
(***************************************************************************)
(* BlogContent on two blogs, two websites and two or three posts.          *)
(***************************************************************************)
EXTENDS BlogContent, TLC

\* Blogs, posts and websites are interchangeable in every action and property.
Symmetry == Permutations(Blogs) \cup Permutations(Posts) \cup Permutations(Sites)
=============================================================================
