--------------------------- MODULE MCEventPipeline ---------------------------
(* Small instances of EventPipeline: opaque events of each topic. *)
EXTENDS EventPipeline, TLC

MCEvents == [topic : Topics]

(* Replicas are interchangeable; only the safety run uses the symmetry. *)
MCSymmetry == Permutations(Relays) \cup Permutations(Consumers) \cup Permutations(Topics)
==============================================================================
