----------------------------- MODULE AtLeastOnce -----------------------------
(***************************************************************************)
(* What the event pipeline promises to the domain code that writes to the  *)
(* outbox and to the consumers that act on events, with no relay, broker   *)
(* or consumer group in sight: an event that was accepted is recorded in   *)
(* the broker's log, its sender forgets it only afterwards, and a recorded *)
(* event is delivered, possibly many times, but never without having been  *)
(* accepted.                                                               *)
(***************************************************************************)
CONSTANT Ids            \* the identities an event can have

VARIABLES
  accepted,             \* events whose domain transaction committed
  recorded,             \* events the broker holds
  forgotten,            \* events the sender will never send again
  delivered             \* events some consumer has handled

aloVars == <<accepted, recorded, forgotten, delivered>>

Init ==
  /\ accepted = {}
  /\ recorded = {}
  /\ forgotten = {}
  /\ delivered = {}

Accept(id) ==
  /\ accepted' = accepted \cup {id}
  /\ UNCHANGED <<recorded, forgotten, delivered>>

Record(id) ==
  /\ id \in accepted \ forgotten
  /\ recorded' = recorded \cup {id}
  /\ UNCHANGED <<accepted, forgotten, delivered>>

Forget(S) ==
  /\ S \subseteq recorded
  /\ forgotten' = forgotten \cup S
  /\ UNCHANGED <<accepted, recorded, delivered>>

Deliver(id) ==
  /\ id \in recorded
  /\ delivered' = delivered \cup {id}
  /\ UNCHANGED <<accepted, recorded, forgotten>>

Next ==
  \/ \E id \in Ids : Accept(id) \/ Record(id) \/ Deliver(id)
  \/ \E S \in SUBSET Ids : Forget(S)

Spec == Init /\ [][Next]_aloVars
==============================================================================
