-------------------------------- MODULE MCFeed --------------------------------
(* Small instances of Feed: one author, whom the other users follow. *)
EXTENDS Feed, TLC

CONSTANT Star

(* A run spends its fault budget on one failure of any kind. *)
OneFault == aborts + mishaps + drops <= 1

(* Who follows anybody else has no bearing on the author's posts. *)
FollowTheStar == \A f \in follows : f[2] = Star

MCAuthor == [p \in Posts |-> Star]
MCSymmetry == Permutations(Users \ {Star})
==============================================================================
