------------------------------ MODULE MCSearch ------------------------------
(* Small instances of Search. *)
EXTENDS Search

CONSTANTS qAll, qTwo, qPosts, qRows

MCSearches == {qAll, qTwo, qPosts}
MCQueries == MCSearches \cup {qRows}
MCKind ==
  [q \in MCQueries |-> IF q = qRows THEN "rows" ELSE IF q = qPosts THEN "posts" ELSE "all"]
MCFirstLimit == [q \in MCQueries |-> IF q = qAll THEN 6 ELSE IF q = qRows THEN 1 ELSE 2]
MCMoreLimit == [q \in MCQueries |-> IF q = qTwo THEN 2 ELSE IF q = qRows THEN 1 ELSE 3]
MCHits == [q \in MCQueries |->
  CASE q = qAll -> [users |-> 3, posts |-> 5, hashtags |-> 0]
    [] q = qTwo -> [users |-> 1, posts |-> 0, hashtags |-> 2]
    [] q = qPosts -> [users |-> 0, posts |-> 4, hashtags |-> 0]
    [] OTHER -> Start]
MCFollowed == {3}
=============================================================================
