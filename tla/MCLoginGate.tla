---------------------------- MODULE MCLoginGate ----------------------------
(* Small instances of LoginGate. *)
EXTENDS LoginGate, TLC

MCLimit == [ip |-> 1, email |-> 2]
MCKeys == {"ip", "email"}

MCSymmetry == Permutations(Callers)
=============================================================================
