------------------------------- MODULE MCMedia -------------------------------
(* Small instances of Media: one user, whose requests are served together. *)
EXTENDS Media, TLC

CONSTANT User

MCUploader == [f \in Files |-> User]
MCSymmetry == Permutations(Requests) \cup Permutations(Files)
==============================================================================
