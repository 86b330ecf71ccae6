---------------------------- MODULE ConsumerGroup ----------------------------
(***************************************************************************)
(* The consumer loop the notifications and the feed consumer share         *)
(* (Consumer.Run and handleRecordSafely of internal/notifications and      *)
(* internal/feed), one consumer per backend replica in one consumer group. *)
(*                                                                         *)
(* A consumer polls records of the topics it owns, handles them one by one *)
(* and then commits its offsets, whatever the handlers reported.  A        *)
(* consumer can die, the group can move a topic to another consumer while  *)
(* its former owner is still handling what it polled, and a commit can     *)
(* fail: the records after the committed offset are then handled again.    *)
(*                                                                         *)
(* The broker side (group membership, assignment, committed offsets) is    *)
(* external: it is modelled by what the loop relies on.                    *)
(***************************************************************************)
EXTENDS Outbox

CONSTANTS
  Consumers,            \* the consumer of each backend replica
  Nobody,               \* owner of a topic that no consumer is assigned
  MaxMishaps            \* bound: crashes, reassignments and failed commits

ASSUME NobodyAssumption == Nobody \notin Consumers

VARIABLES
  owner,                \* owner[t]: the consumer topic t is assigned to
  committed,            \* committed[t]: the group's committed offset
  position,             \* position[t]: how far the owner of t has polled
  batch,                \* batch[c][t]: polled offsets c has yet to handle
  phase,                \* phase[c]: "poll" or "work"
  handled,              \* handled[t]: offsets that some consumer has handled
  mishaps               \* crashes, reassignments and failed commits so far

groupVars == <<owner, committed, position, batch, phase, handled, mishaps>>

NoRecords == [t \in Topics |-> {}]

GroupTypeOK ==
  /\ owner \in [Topics -> Consumers \cup {Nobody}]
  /\ committed \in [Topics -> Nat]
  /\ position \in [Topics -> Nat]
  /\ batch \in [Consumers -> [Topics -> SUBSET Nat]]
  /\ phase \in [Consumers -> {"poll", "work"}]
  /\ handled \in [Topics -> SUBSET Nat]
  /\ mishaps \in Nat

GroupInit ==
  /\ owner = [t \in Topics |-> Nobody]
  /\ committed = [t \in Topics |-> 0]
  /\ position = [t \in Topics |-> 0]
  /\ batch = [c \in Consumers |-> NoRecords]
  /\ phase = [c \in Consumers |-> "poll"]
  /\ handled = [t \in Topics |-> {}]
  /\ mishaps = 0

-----------------------------------------------------------------------------
(* Fault: a new owner starts at the end of the topic. *)
AssignAtEnd(t, c) ==
  /\ owner[t] # c
  /\ owner[t] # Nobody => mishaps < MaxMishaps
  /\ mishaps' = IF owner[t] = Nobody THEN mishaps ELSE mishaps + 1
  /\ owner' = [owner EXCEPT ![t] = c]
  /\ position' = [position EXCEPT ![t] = Len(log[t])]
  /\ UNCHANGED <<committed, batch, phase, handled>>

(* The group assigns a topic: the new owner starts at the committed offset. *)
(* The former owner, if it is alive, keeps the records it has polled.       *)
Assign(t, c) ==
  /\ owner[t] # c
  /\ owner[t] # Nobody => mishaps < MaxMishaps
  /\ mishaps' = IF owner[t] = Nobody THEN mishaps ELSE mishaps + 1
  /\ owner' = [owner EXCEPT ![t] = c]
  /\ position' = [position EXCEPT ![t] = committed[t]]
  /\ UNCHANGED <<committed, batch, phase, handled>>

(* After a failed commit c has polled offsets left to commit. *)
Uncommitted(c) == \E t \in Topics : owner[t] = c /\ committed[t] # position[t]

(* Fault: polling does not advance the position. *)
PollFetchesAgain(c) ==
  /\ phase[c] = "poll"
  /\ \E upto \in [Topics -> 0..MaxRecords] :
       /\ \A t \in Topics :
            /\ position[t] <= upto[t] /\ upto[t] <= Len(log[t])
            /\ owner[t] # c => upto[t] = position[t]
       /\ upto # position \/ Uncommitted(c)
       /\ batch' = [batch EXCEPT ![c] = [t \in Topics |-> (position[t] + 1)..upto[t]]]
       /\ position' = position
  /\ phase' = [phase EXCEPT ![c] = "work"]
  /\ UNCHANGED <<owner, committed, handled, mishaps>>

(* Fault: the loop polls on while records of the last poll are unhandled. *)
PollFetchesEarly(c) ==
  /\ \E upto \in [Topics -> 0..MaxRecords] :
       /\ \A t \in Topics :
            /\ position[t] <= upto[t] /\ upto[t] <= Len(log[t])
            /\ owner[t] # c => upto[t] = position[t]
       /\ upto # position \/ Uncommitted(c)
       /\ batch' = [batch EXCEPT ![c] = [t \in Topics |-> (position[t] + 1)..upto[t]]]
       /\ position' = upto
  /\ phase' = [phase EXCEPT ![c] = "work"]
  /\ UNCHANGED <<owner, committed, handled, mishaps>>

(* PollFetches: some new records of the topics that c owns.  A poll that    *)
(* brings none matters only where there is something left to commit.        *)
PollFetches(c) ==
  /\ phase[c] = "poll"
  /\ \E upto \in [Topics -> 0..MaxRecords] :
       /\ \A t \in Topics :
            /\ position[t] <= upto[t] /\ upto[t] <= Len(log[t])
            /\ owner[t] # c => upto[t] = position[t]
       /\ upto # position \/ Uncommitted(c)
       /\ batch' = [batch EXCEPT ![c] = [t \in Topics |-> (position[t] + 1)..upto[t]]]
       /\ position' = upto
  /\ phase' = [phase EXCEPT ![c] = "work"]
  /\ UNCHANGED <<owner, committed, handled, mishaps>>

(* handleRecordSafely: the next record of a topic is handed to the handler. *)
(* A handler that fails or panics is logged and the record counts as        *)
(* handled all the same.                                                    *)
HandleRecord(c, t, o) ==
  /\ phase[c] = "work"
  /\ o \in batch[c][t]
  /\ \A other \in batch[c][t] : o <= other
  /\ batch' = [batch EXCEPT ![c][t] = @ \ {o}]
  /\ handled' = [handled EXCEPT ![t] = @ \cup {o}]
  /\ UNCHANGED <<owner, committed, position, phase, mishaps>>

(* Fault: a former owner commits the end of the topics it has lost. *)
CommitOffsetsOfAnyTopic(c) ==
  /\ phase[c] = "work"
  /\ batch[c] = NoRecords
  /\ committed' = position
  /\ phase' = [phase EXCEPT ![c] = "poll"]
  /\ UNCHANGED <<owner, position, batch, handled, mishaps>>

(* CommitUncommittedOffsets, once the batch is done: the polled offsets of  *)
(* the topics that c still owns.                                            *)
CommitOffsets(c) ==
  /\ phase[c] = "work"
  /\ batch[c] = NoRecords
  /\ committed' = [t \in Topics |-> IF owner[t] = c THEN position[t] ELSE committed[t]]
  /\ phase' = [phase EXCEPT ![c] = "poll"]
  /\ UNCHANGED <<owner, position, batch, handled, mishaps>>

(* The commit is refused or times out: the loop logs it and polls on. *)
CommitFails(c) ==
  /\ phase[c] = "work"
  /\ batch[c] = NoRecords
  /\ mishaps < MaxMishaps
  /\ mishaps' = mishaps + 1
  /\ phase' = [phase EXCEPT ![c] = "poll"]
  /\ UNCHANGED <<owner, committed, position, batch, handled>>

(* The replica dies: its polled records are gone and its topics wait for an *)
(* owner.  It comes back as a consumer that owns nothing.                   *)
Crash(c) ==
  /\ mishaps < MaxMishaps
  /\ mishaps' = mishaps + 1
  /\ owner' = [t \in Topics |-> IF owner[t] = c THEN Nobody ELSE owner[t]]
  /\ batch' = [batch EXCEPT ![c] = NoRecords]
  /\ phase' = [phase EXCEPT ![c] = "poll"]
  /\ UNCHANGED <<committed, position, handled>>

-----------------------------------------------------------------------------
(* Every step of the group that hands no record to a handler. *)
GroupControl ==
  \/ \E t \in Topics, c \in Consumers : Assign(t, c)
  \/ \E c \in Consumers :
       PollFetches(c) \/ CommitOffsets(c) \/ CommitFails(c) \/ Crash(c)

HandleNext == \E c \in Consumers, t \in Topics : \E o \in batch[c][t] : HandleRecord(c, t, o)

(* Nothing is on its way and nothing will be handed over again. *)
Settled ==
  /\ \A id \in Ids : status[id] # "pending"
  /\ \A t \in Topics : committed[t] = Len(log[t])
  /\ \A c \in Consumers : batch[c] = NoRecords

GroupNext == (GroupControl \/ HandleNext) /\ UNCHANGED outboxVars
=============================================================================
