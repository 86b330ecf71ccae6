----------------------------- MODULE MCSessions -----------------------------
(* Small instances of Sessions. *)
EXTENDS Sessions, TLC

MCSymmetry == Permutations(Requests) \cup Permutations(Ids)
=============================================================================
