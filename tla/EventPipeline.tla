---------------------------- MODULE EventPipeline ----------------------------
(***************************************************************************)
(* Outbox, broker and one consumer group put together: the way an event    *)
(* takes from the transaction that wrote it to the consumer that acts on   *)
(* it.  The outbox and the group share the broker's log and nothing else.  *)
(***************************************************************************)
EXTENDS ConsumerGroup

pipelineVars == <<outboxVars, groupVars>>

PipelineInit == OutboxInit /\ GroupInit

OutboxStep == OutboxNext /\ UNCHANGED groupVars

PipelineNext == OutboxStep \/ GroupNext

PipelineSpec == PipelineInit /\ [][PipelineNext]_pipelineVars

(* Relays tick, an unowned topic finds an owner, and every consumer's loop  *)
(* keeps running: poll, handle, commit.  Failures are never owed.           *)
GroupFairness ==
  /\ \A t \in Topics : WF_pipelineVars(owner[t] = Nobody /\ \E c \in Consumers : Assign(t, c) /\ UNCHANGED outboxVars)
  /\ \A c \in Consumers :
       /\ WF_pipelineVars(PollFetches(c) /\ UNCHANGED outboxVars)
       /\ WF_pipelineVars((\E t \in Topics : \E o \in batch[c][t] : HandleRecord(c, t, o)) /\ UNCHANGED outboxVars)
       /\ WF_pipelineVars(CommitOffsets(c) /\ UNCHANGED outboxVars)

RelayFairness ==
  \A r \in Relays :
    /\ WF_pipelineVars(SelectUnpublished(r) /\ UNCHANGED groupVars)
    /\ WF_pipelineVars((\E id \in relay[r].batch : ProduceRecord(r, id)) /\ UNCHANGED groupVars)
    /\ WF_pipelineVars(MarkPublished(r) /\ UNCHANGED groupVars)

FairSpec == PipelineSpec /\ RelayFairness /\ GroupFairness

-----------------------------------------------------------------------------
PipelineTypes == OutboxTypeOK /\ GroupTypeOK

(* A row is marked published, and so becomes fit for the sweep, only when   *)
(* the broker holds its event: "marks published_at only after Kafka accepts *)
(* the message".                                                            *)
NoEventLost == \A id \in Ids : status[id] \in {"published", "swept"} => Recorded(id)

(* The relays of the replicas never publish an event twice on their own:    *)
(* each further copy in the log is paid for by a relay transaction that     *)
(* rolled back after producing.                                             *)
Copies(id) == {c \in Topics \X (1..MaxRecords) : c[2] <= Len(log[c[1]]) /\ log[c[1]][c[2]].key = id}
DuplicatesArePaid == \A id \in Ids : Cardinality(Copies(id)) <= 1 + aborts

(* The group's offset never passes a record no consumer has handled,        *)
(* whoever owned the topic when the record was polled and when the offset   *)
(* was committed.                                                           *)
CommittedMeansHandled == \A t \in Topics : 1..committed[t] \subseteq handled[t]

(* Without a crash, a reassignment or a failed commit no record is handed   *)
(* to a handler a second time.                                              *)
ReplayOnlyAfterMishap ==
  mishaps = 0 => \A c \in Consumers, t \in Topics : batch[c][t] \cap handled[t] = {}

(* Why the properties above hold.  A relay's rows are locked by it alone,   *)
(* are unpublished and still hold their events, and what it has sent is in  *)
(* the log.                                                                 *)
LocksHeld ==
  /\ \A r, q \in Relays : r # q => relay[r].batch \cap relay[q].batch = {}
  /\ \A r \in Relays : \A id \in relay[r].batch : status[id] = "pending"
RowsHeld == \A id \in Ids : status[id] \in {"pending", "published"} => outbox[id] \in Events
SentRecorded == \A r \in Relays : \A id \in relay[r].sent : Recorded(id)

(* Offsets are those of records; a consumer that polls has nothing left to  *)
(* handle; and of what the owner of a topic has polled, all that is not     *)
(* handled is in the owner's hands.                                         *)
OffsetsInLog ==
  /\ \A t \in Topics : position[t] <= Len(log[t]) /\ handled[t] \subseteq 1..Len(log[t])
  /\ \A c \in Consumers, t \in Topics : batch[c][t] \subseteq 1..Len(log[t])
PollEmptyHanded == \A c \in Consumers : phase[c] = "poll" => batch[c] = NoRecords
OwnerHoldsRest ==
  \A t \in Topics : owner[t] \in Consumers =>
    \A o \in 1..position[t] : o \in handled[t] \cup batch[owner[t]][t]

(* Everything the exactness of the relay and of the consumer loop rests on:   *)
(* locked rows belong to one relay, what was produced is in the log, and what *)
(* was polled and not handled is in the hands of the owner.                   *)
IInv ==
  /\ PipelineTypes
  /\ LocksHeld
  /\ RowsHeld
  /\ SentRecorded
  /\ NoEventLost
  /\ OffsetsInLog
  /\ PollEmptyHanded
  /\ OwnerHoldsRest
  /\ CommittedMeansHandled

(* The pipeline keeps the promise of AtLeastOnce. *)
Accepted == {id \in Ids : status[id] # "none"}
OnRecord == {id \in Ids : Recorded(id)}
Forgotten == {id \in Ids : status[id] \in {"published", "swept"}}
Delivered == {id \in Ids : \E t \in Topics : \E o \in handled[t] : log[t][o].key = id}

Promise ==
  INSTANCE AtLeastOnce WITH
    accepted <- Accepted, recorded <- OnRecord, forgotten <- Forgotten, delivered <- Delivered

KeepsPromise == Promise!Spec

(* An event whose transaction committed is eventually handled, even when    *)
(* relays roll back, consumers die and topics change owner (finitely often).*)
EventuallyHandled == \A id \in Ids : (status[id] = "pending") ~> (id \in Delivered)

(* ... and its row eventually leaves the relays' working set. *)
EventuallyPublished == \A id \in Ids : (status[id] = "pending") ~> (id \in Forgotten)
=============================================================================
