----------------------------- MODULE MCCounters -----------------------------
(* A small instance of Counters: two authors, posts that name two hashtags  *)
(* in opposite orders and one that names the first; likes and a comment on  *)
(* the first post.                                                          *)
EXTENDS Counters, TLC

CONSTANTS X1, X2, X3, U1, U2, T1, T2

MCAuthor == (X1 :> U1) @@ (X2 :> U2) @@ (X3 :> U1)
MCTagsOf == (X1 :> <<T1, T2>>) @@ (X2 :> <<T2, T1>>) @@ (X3 :> <<T1>>)
MCOn == [m \in Marks |-> X1]
MCSymmetry == Permutations(Requests) \cup Permutations(Likes) \cup Permutations(Followers)
=============================================================================
