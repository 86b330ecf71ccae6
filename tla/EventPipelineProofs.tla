------------------------- MODULE EventPipelineProofs -------------------------
(***************************************************************************)
(* Theorems about EventPipeline, for any number of topics, rows, relays    *)
(* and consumers and any bounds on failures.                               *)
(*                                                                         *)
(* The inductive invariant is IInv.  It is proved in three layers, each    *)
(* using the ones below: the outbox table and its row locks, then what the *)
(* broker holds, then what the consumer group has done with it.            *)
(*                                                                         *)
(* The second half is about the order of the log.  It serves the proofs of *)
(* the consumers, whose tables settle on what the events say: an event     *)
(* that was superseded has the superseding one behind it, and that one is  *)
(* on its way as long as it is unhandled.                                  *)
(***************************************************************************)
EXTENDS EventPipeline, SequenceTheorems, FiniteSetTheorems, TLAPS

TableInv == OutboxTypeOK /\ LocksHeld /\ RowsHeld

(* The bound on the length of a topic is a number.                          *)
LEMMA MaxRecordsIsNat == MaxRecords \in Nat
  BY MaxIdAssumption, MaxAbortsAssumption DEF MaxRecords

(* A step of the outbox keeps the types, the locks and the rows: a relay    *)
(* takes only rows that nobody has locked, so no other relay's rows change  *)
(* status under it.                                                         *)
LEMMA TableStep == TableInv /\ OutboxNext => TableInv'
<1> SUFFICES ASSUME TableInv, OutboxNext
             PROVE  TableInv'
  OBVIOUS
<1> USE DEF TableInv, OutboxTypeOK
<1>1. ASSUME NEW id \in Ids, NEW e \in Events, InsertEvent(id, e)
      PROVE  TableInv'
  BY <1>1 DEF InsertEvent, LocksHeld, RowsHeld
<1>2. ASSUME NEW r \in Relays, SelectUnpublished(r)
      PROVE  TableInv'
  <2>1. PICK S \in SUBSET Unlocked : relay' = [relay EXCEPT ![r].batch = S]
    BY <1>2 DEF SelectUnpublished
  <2>2. \A id \in S : id \in Ids /\ status[id] = "pending" /\ \A q \in Relays : id \notin relay[q].batch
    BY <2>1 DEF Unlocked
  <2>3. relay' \in [Relays -> [batch : SUBSET Ids, sent : SUBSET Ids]]
    BY <2>1, <2>2
  <2>4. relay'[r].batch = S /\ \A q \in Relays : q # r => relay'[q] = relay[q]
    BY <2>1
  <2>5. UNCHANGED <<log, outbox, status, aborts>>
    BY <1>2 DEF SelectUnpublished
  <2>6. LocksHeld'
    BY <2>2, <2>3, <2>4, <2>5 DEF LocksHeld
  <2> QED
    BY <2>3, <2>5, <2>6 DEF RowsHeld
<1>3. ASSUME NEW r \in Relays, NEW id \in relay[r].batch, ProduceRecord(r, id)
      PROVE  TableInv'
  <2>1. id \in Ids /\ outbox[id] \in Events /\ outbox[id].topic \in Topics
    BY EventsAssumption DEF LocksHeld, RowsHeld
  <2>2. log' = [log EXCEPT ![outbox[id].topic] = Append(@, [key |-> id, value |-> outbox[id]])]
    BY <1>3 DEF ProduceRecord
  <2>3. log' \in [Topics -> Seq([key : Ids, value : Events])]
    <3>1. [key |-> id, value |-> outbox[id]] \in [key : Ids, value : Events]
      BY <2>1
    <3>2. \A s \in Seq([key : Ids, value : Events]) :
            Append(s, [key |-> id, value |-> outbox[id]]) \in Seq([key : Ids, value : Events])
      BY <3>1
    <3> QED
      BY <2>1, <2>2, <3>2
  <2>4. relay' = [relay EXCEPT ![r].sent = @ \cup {id}] /\ UNCHANGED <<outbox, status, aborts>>
    BY <1>3 DEF ProduceRecord
  <2>5. relay' \in [Relays -> [batch : SUBSET Ids, sent : SUBSET Ids]]
    BY <2>1, <2>4
  <2>6. \A q \in Relays : relay'[q].batch = relay[q].batch
    BY <2>4
  <2>7. LocksHeld' /\ RowsHeld'
    BY <2>4, <2>6 DEF LocksHeld, RowsHeld
  <2> QED
    BY <2>3, <2>4, <2>5, <2>7
<1>4. ASSUME NEW r \in Relays, MarkPublished(r)
      PROVE  TableInv'
  <2>1. status' = [id \in Ids |-> IF id \in relay[r].batch THEN "published" ELSE status[id]]
    BY <1>4 DEF MarkPublished
  <2>2. relay' = [relay EXCEPT ![r] = Idle] /\ UNCHANGED <<log, outbox, aborts>>
    BY <1>4 DEF MarkPublished
  <2>3. relay' \in [Relays -> [batch : SUBSET Ids, sent : SUBSET Ids]]
    BY <2>2 DEF Idle
  <2>4. \A q \in Relays : relay'[q].batch = IF q = r THEN {} ELSE relay[q].batch
    BY <2>2 DEF Idle
  <2>5. LocksHeld'
    BY <2>1, <2>3, <2>4 DEF LocksHeld
  <2>6. RowsHeld'
    BY <2>1, <2>2 DEF LocksHeld, RowsHeld
  <2> QED
    BY <2>1, <2>2, <2>3, <2>5, <2>6
<1>5. ASSUME NEW r \in Relays, AbortBatch(r)
      PROVE  TableInv'
  <2>1. relay' = [relay EXCEPT ![r] = Idle] /\ aborts' = aborts + 1 /\ UNCHANGED <<log, outbox, status>>
    BY <1>5 DEF AbortBatch
  <2>2. relay' \in [Relays -> [batch : SUBSET Ids, sent : SUBSET Ids]]
    BY <2>1 DEF Idle
  <2>3. \A q \in Relays : relay'[q].batch = IF q = r THEN {} ELSE relay[q].batch
    BY <2>1 DEF Idle
  <2>4. LocksHeld'
    BY <2>1, <2>2, <2>3 DEF LocksHeld
  <2>5. RowsHeld'
    BY <2>1 DEF RowsHeld
  <2>6. aborts' \in Nat /\ UNCHANGED <<log, outbox, status>>
    BY <2>1
  <2> QED
    BY <2>2, <2>4, <2>5, <2>6
<1>6. ASSUME SweepExpiredOutbox
      PROVE  TableInv'
  BY <1>6 DEF SweepExpiredOutbox, LocksHeld, RowsHeld
<1> QED
  BY <1>1, <1>2, <1>3, <1>4, <1>5, <1>6 DEF OutboxNext, OutboxMaintenance, RelayNext

(* The types of the consumer group's variables. *)
LEMMA GroupTypeStep == GroupTypeOK /\ (GroupControl \/ HandleNext) => GroupTypeOK'
<1> SUFFICES ASSUME GroupTypeOK, GroupControl \/ HandleNext
             PROVE  GroupTypeOK'
  OBVIOUS
<1> USE DEF GroupTypeOK
<1>1. ASSUME NEW t \in Topics, NEW c \in Consumers, Assign(t, c)
      PROVE  GroupTypeOK'
  BY <1>1 DEF Assign
<1>2. ASSUME NEW c \in Consumers, PollFetches(c)
      PROVE  GroupTypeOK'
  <2>1. PICK upto \in [Topics -> 0..MaxRecords] :
          /\ batch' = [batch EXCEPT ![c] = [t \in Topics |-> (position[t] + 1)..upto[t]]]
          /\ position' = upto
    BY <1>2 DEF PollFetches
  <2>2. [t \in Topics |-> (position[t] + 1)..upto[t]] \in [Topics -> SUBSET Nat]
    BY MaxRecordsIsNat
  <2> QED
    BY <1>2, <2>1, <2>2, MaxRecordsIsNat DEF PollFetches
<1>3. ASSUME NEW c \in Consumers, CommitOffsets(c)
      PROVE  GroupTypeOK'
  BY <1>3 DEF CommitOffsets
<1>4. ASSUME NEW c \in Consumers, CommitFails(c)
      PROVE  GroupTypeOK'
  BY <1>4 DEF CommitFails
<1>5. ASSUME NEW c \in Consumers, Crash(c)
      PROVE  GroupTypeOK'
  BY <1>5 DEF Crash, NoRecords
<1>6. ASSUME NEW c \in Consumers, NEW t \in Topics, NEW o \in batch[c][t], HandleRecord(c, t, o)
      PROVE  GroupTypeOK'
  BY <1>6 DEF HandleRecord
<1> QED
  BY <1>1, <1>2, <1>3, <1>4, <1>5, <1>6 DEF GroupControl, HandleNext

(* Table and group start with their shape ...                               *)
LEMMA ShapeInit == PipelineInit => TableInv /\ GroupTypeOK
<1>1. OutboxInit => TableInv
  BY NoEventAssumption DEF OutboxInit, TableInv, OutboxTypeOK, LocksHeld, RowsHeld, Idle
<1>2. GroupInit => GroupTypeOK
  BY DEF GroupInit, GroupTypeOK, NoRecords
<1> QED
  BY <1>1, <1>2 DEF PipelineInit

(* ... and every step of the pipeline keeps it.                             *)
LEMMA ShapeStep == TableInv /\ GroupTypeOK /\ [PipelineNext]_pipelineVars => TableInv' /\ GroupTypeOK'
<1> SUFFICES ASSUME TableInv, GroupTypeOK, [PipelineNext]_pipelineVars
             PROVE  TableInv' /\ GroupTypeOK'
  OBVIOUS
<1>1. UNCHANGED outboxVars => TableInv'
  BY DEF outboxVars, TableInv, OutboxTypeOK, LocksHeld, RowsHeld
<1>2. UNCHANGED groupVars => GroupTypeOK'
  BY DEF groupVars, GroupTypeOK
<1> QED
  BY <1>1, <1>2, TableStep, GroupTypeStep DEF PipelineNext, OutboxStep, GroupNext, pipelineVars

(* Every variable keeps its type, whatever the number of replicas, rows and *)
(* failures.                                                                *)
THEOREM PipelineTypeOK == PipelineSpec => []PipelineTypes
<1>1. TableInv /\ GroupTypeOK => PipelineTypes
  BY DEF TableInv, PipelineTypes
<1> QED
  BY <1>1, ShapeInit, ShapeStep, PTL DEF PipelineSpec

-----------------------------------------------------------------------------
(* The log only grows: what is in it stays where it is. *)
LogGrows ==
  \A t \in Topics :
    /\ 1..Len(log[t]) \subseteq 1..Len(log'[t])
    /\ \A i \in 1..Len(log[t]) : log'[t][i] = log[t][i]

(* A step that leaves the log alone makes it grow by nothing.               *)
LEMMA LogUnchanged == TableInv /\ UNCHANGED log => LogGrows
  BY DEF TableInv, OutboxTypeOK, LogGrows

(* ProduceRecord appends the record of its row and changes nothing before it. *)
LEMMA ProduceAppends ==
  ASSUME TableInv, NEW r \in Relays, NEW id \in relay[r].batch, ProduceRecord(r, id)
  PROVE  LogGrows /\ Recorded(id)'
<1> DEFINE topic == outbox[id].topic
           record == [key |-> id, value |-> outbox[id]]
<1>1. id \in Ids /\ outbox[id] \in Events /\ topic \in Topics
  BY EventsAssumption DEF TableInv, OutboxTypeOK, LocksHeld, RowsHeld
<1>2. record \in [key : Ids, value : Events] /\ record.key = id
  BY <1>1
<1>3. log \in [Topics -> Seq([key : Ids, value : Events])]
  BY DEF TableInv, OutboxTypeOK
<1>4. log' = [log EXCEPT ![topic] = Append(@, record)]
  BY DEF ProduceRecord
<1> HIDE DEF topic, record
<1>5. \A t \in Topics : log'[t] = IF t = topic THEN Append(log[t], record) ELSE log[t]
  BY <1>1, <1>3, <1>4
<1>6. \A s \in Seq([key : Ids, value : Events]) :
        /\ Len(Append(s, record)) = Len(s) + 1
        /\ Append(s, record)[Len(s) + 1] = record
        /\ \A i \in 1..Len(s) : Append(s, record)[i] = s[i]
        /\ Len(s) \in Nat
  BY <1>2
<1>7. LogGrows
  <2> SUFFICES ASSUME NEW t \in Topics
               PROVE  /\ 1..Len(log[t]) \subseteq 1..Len(log'[t])
                      /\ \A i \in 1..Len(log[t]) : log'[t][i] = log[t][i]
    BY DEF LogGrows
  <2>1. CASE t = topic
    <3>1. log[t] \in Seq([key : Ids, value : Events]) /\ log'[t] = Append(log[t], record)
      BY <1>3, <1>5, <2>1
    <3> QED
      BY <1>6, <3>1
  <2>2. CASE t # topic
    BY <1>5, <2>2
  <2> QED
    BY <2>1, <2>2
<1>8. Recorded(id)'
  <2>1. log'[topic][Len(log[topic]) + 1] = record /\ Len(log'[topic]) = Len(log[topic]) + 1
    BY <1>1, <1>3, <1>5, <1>6
  <2>2. Len(log[topic]) + 1 \in 1..Len(log'[topic])
    BY <1>1, <1>3, <1>6, <2>1
  <2> QED
    BY <1>1, <1>2, <2>1, <2>2 DEF Recorded
<1> QED
  BY <1>7, <1>8

(* No step of the outbox takes a record out of the log.                     *)
LEMMA OutboxGrowsLog == TableInv /\ OutboxNext => LogGrows
<1> SUFFICES ASSUME TableInv, OutboxNext
             PROVE  LogGrows
  OBVIOUS
<1>1. ASSUME NEW r \in Relays, NEW id \in relay[r].batch, ProduceRecord(r, id)
      PROVE  LogGrows
  BY <1>1, ProduceAppends
<1> QED
  BY <1>1, LogUnchanged
  DEF OutboxNext, OutboxMaintenance, RelayNext, InsertEvent, SelectUnpublished, MarkPublished,
      AbortBatch, SweepExpiredOutbox

(* What is in the log stays in it.                                          *)
LEMMA RecordedStays ==
  ASSUME LogGrows, NEW id, Recorded(id)
  PROVE  Recorded(id)'
<1>1. PICK t \in Topics : \E i \in 1..Len(log[t]) : log[t][i].key = id
  BY DEF Recorded
<1>2. PICK i \in 1..Len(log[t]) : log[t][i].key = id
  BY <1>1
<1>3. i \in 1..Len(log'[t]) /\ log'[t][i] = log[t][i]
  BY <1>1, <1>2 DEF LogGrows
<1> QED
  BY <1>1, <1>2, <1>3 DEF Recorded

-----------------------------------------------------------------------------
(* What the broker holds: whatever a relay has sent, and whatever is marked *)
(* published.                                                               *)
BrokerInv == SentRecorded /\ NoEventLost

(* Every step of the outbox keeps the promise that what was sent is in the log. *)
LEMMA BrokerStep == TableInv /\ BrokerInv /\ OutboxNext => BrokerInv'
<1> SUFFICES ASSUME TableInv, BrokerInv, OutboxNext
             PROVE  BrokerInv'
  OBVIOUS
<1>1. \A id : Recorded(id) => Recorded(id)'
  BY OutboxGrowsLog, RecordedStays
<1> USE DEF BrokerInv, SentRecorded, NoEventLost
<1>2. ASSUME NEW id \in Ids, NEW e \in Events, InsertEvent(id, e)
      PROVE  BrokerInv'
  BY <1>1, <1>2 DEF InsertEvent, TableInv, OutboxTypeOK
<1>3. ASSUME NEW r \in Relays, SelectUnpublished(r)
      PROVE  BrokerInv'
  <2>1. \A q \in Relays : relay'[q].sent = relay[q].sent
    BY <1>3 DEF SelectUnpublished, TableInv, OutboxTypeOK
  <2> QED
    BY <1>1, <1>3, <2>1 DEF SelectUnpublished
<1>4. ASSUME NEW r \in Relays, NEW id \in relay[r].batch, ProduceRecord(r, id)
      PROVE  BrokerInv'
  <2>1. Recorded(id)'
    BY <1>4, ProduceAppends
  <2>2. \A q \in Relays : relay'[q].sent \subseteq relay[q].sent \cup {id}
    BY <1>4 DEF ProduceRecord, TableInv, OutboxTypeOK
  <2>3. UNCHANGED status
    BY <1>4 DEF ProduceRecord
  <2> QED
    BY <1>1, <2>1, <2>2, <2>3
<1>5. ASSUME NEW r \in Relays, MarkPublished(r)
      PROVE  BrokerInv'
  <2>1. \A q \in Relays : relay'[q].sent \subseteq relay[q].sent
    BY <1>5 DEF MarkPublished, Idle, TableInv, OutboxTypeOK
  <2>2. \A id \in relay[r].batch : Recorded(id)
    BY <1>5 DEF MarkPublished
  <2>3. \A id \in Ids : status'[id] = IF id \in relay[r].batch THEN "published" ELSE status[id]
    BY <1>5 DEF MarkPublished
  <2> QED
    BY <1>1, <2>1, <2>2, <2>3
<1>6. ASSUME NEW r \in Relays, AbortBatch(r)
      PROVE  BrokerInv'
  <2>1. \A q \in Relays : relay'[q].sent \subseteq relay[q].sent
    BY <1>6 DEF AbortBatch, Idle, TableInv, OutboxTypeOK
  <2> QED
    BY <1>1, <1>6, <2>1 DEF AbortBatch
<1>7. ASSUME SweepExpiredOutbox
      PROVE  BrokerInv'
  BY <1>1, <1>7 DEF SweepExpiredOutbox
<1> QED
  BY <1>2, <1>3, <1>4, <1>5, <1>6, <1>7 DEF OutboxNext, OutboxMaintenance, RelayNext

-----------------------------------------------------------------------------
(* What the group has done with it. *)
HandlingInv == OffsetsInLog /\ PollEmptyHanded /\ OwnerHoldsRest /\ CommittedMeansHandled

(* The outbox does not touch the group, and the log it shares only grows.   *)
LEMMA HandlingOutbox ==
  TableInv /\ GroupTypeOK /\ HandlingInv /\ LogGrows /\ TableInv' /\ UNCHANGED groupVars => HandlingInv'
<1> SUFFICES ASSUME TableInv, TableInv', GroupTypeOK, HandlingInv, LogGrows, UNCHANGED groupVars
             PROVE  HandlingInv'
  OBVIOUS
<1>1. OffsetsInLog'
  <2>1. \A t \in Topics : position[t] <= Len(log'[t])
    <3> SUFFICES ASSUME NEW t \in Topics
                 PROVE  position[t] <= Len(log'[t])
      OBVIOUS
    <3>1. /\ position[t] \in Nat /\ position[t] <= Len(log[t])
          /\ Len(log[t]) \in Nat /\ Len(log'[t]) \in Nat
          /\ 1..Len(log[t]) \subseteq 1..Len(log'[t])
      BY DEF HandlingInv, OffsetsInLog, LogGrows, TableInv, OutboxTypeOK, GroupTypeOK
    <3>2. Len(log[t]) <= Len(log'[t])
      <4>1. CASE Len(log[t]) = 0
        BY <3>1, <4>1
      <4>2. CASE Len(log[t]) \in 1..Len(log[t])
        BY <3>1, <4>2
      <4> QED
        BY <3>1, <4>1, <4>2
    <3> QED
      BY <3>1, <3>2
  <2>2. \A t \in Topics : handled[t] \subseteq 1..Len(log'[t])
    BY DEF HandlingInv, OffsetsInLog, LogGrows
  <2>3. \A c \in Consumers, t \in Topics : batch[c][t] \subseteq 1..Len(log'[t])
    BY DEF HandlingInv, OffsetsInLog, LogGrows
  <2> QED
    BY <2>1, <2>2, <2>3 DEF OffsetsInLog, groupVars
<1>2. PollEmptyHanded' /\ OwnerHoldsRest' /\ CommittedMeansHandled'
  BY DEF HandlingInv, PollEmptyHanded, OwnerHoldsRest, CommittedMeansHandled, groupVars
<1> QED
  BY <1>1, <1>2 DEF HandlingInv

(* Every step of the consumer group keeps the relation of offsets, batches and owners. *)
LEMMA HandlingGroup ==
  TableInv /\ GroupTypeOK /\ HandlingInv /\ (GroupControl \/ HandleNext) /\ UNCHANGED log => HandlingInv'
<1> SUFFICES ASSUME TableInv, GroupTypeOK, HandlingInv, GroupControl \/ HandleNext, UNCHANGED log
             PROVE  HandlingInv'
  OBVIOUS
<1> USE DEF HandlingInv, OffsetsInLog, PollEmptyHanded, OwnerHoldsRest, CommittedMeansHandled
<1>0. \A t \in Topics : Len(log[t]) \in Nat
  BY DEF TableInv, OutboxTypeOK
<1>1. ASSUME NEW t \in Topics, NEW c \in Consumers, Assign(t, c)
      PROVE  HandlingInv'
  <2>1. /\ position' = [position EXCEPT ![t] = committed[t]] /\ owner' = [owner EXCEPT ![t] = c]
        /\ UNCHANGED <<committed, batch, phase, handled>>
    BY <1>1 DEF Assign
  <2>2. 1..committed[t] \subseteq handled[t] /\ committed[t] \in Nat
    BY DEF GroupTypeOK
  <2>3. committed[t] <= Len(log[t])
    <3>1. CASE committed[t] = 0
      BY <1>0, <3>1
    <3>2. CASE committed[t] \in 1..committed[t]
      BY <1>0, <2>2, <3>2
    <3> QED
      BY <2>2, <3>1, <3>2
  <2>4. \A u \in Topics : position'[u] = IF u = t THEN committed[t] ELSE position[u]
    BY <2>1 DEF GroupTypeOK
  <2>5. \A u \in Topics : owner'[u] = IF u = t THEN c ELSE owner[u]
    BY <2>1 DEF GroupTypeOK
  <2>6. OffsetsInLog'
    BY <2>1, <2>3, <2>4
  <2>7. OwnerHoldsRest'
    BY <2>1, <2>2, <2>4, <2>5
  <2> QED
    BY <2>1, <2>6, <2>7
<1>2. ASSUME NEW c \in Consumers, PollFetches(c)
      PROVE  HandlingInv'
  <2>1. PICK upto \in [Topics -> 0..MaxRecords] :
          /\ \A t \in Topics :
               /\ position[t] <= upto[t] /\ upto[t] <= Len(log[t])
               /\ owner[t] # c => upto[t] = position[t]
          /\ batch' = [batch EXCEPT ![c] = [t \in Topics |-> (position[t] + 1)..upto[t]]]
          /\ position' = upto
    BY <1>2 DEF PollFetches
  <2>2. /\ phase[c] = "poll" /\ phase' = [phase EXCEPT ![c] = "work"]
        /\ UNCHANGED <<owner, committed, handled, mishaps>>
    BY <1>2 DEF PollFetches
  <2>3. \A t \in Topics : position[t] \in Nat /\ upto[t] \in Nat
    BY <2>1, MaxRecordsIsNat DEF GroupTypeOK
  <2>4. \A d \in Consumers, t \in Topics :
          batch'[d][t] = IF d = c THEN (position[t] + 1)..upto[t] ELSE batch[d][t]
    BY <2>1 DEF GroupTypeOK
  <2>5. OffsetsInLog'
    BY <1>0, <2>1, <2>2, <2>3, <2>4
  <2>6. PollEmptyHanded'
    <3>1. \A d \in Consumers : phase'[d] = "poll" => d # c /\ phase[d] = "poll" /\ batch'[d] = batch[d]
      BY <2>1, <2>2 DEF GroupTypeOK
    <3> QED
      BY <3>1
  <2>7. OwnerHoldsRest'
    <3> SUFFICES ASSUME NEW t \in Topics, owner[t] \in Consumers, NEW o \in 1..upto[t]
                 PROVE  o \in handled[t] \cup batch'[owner[t]][t]
      BY <2>1, <2>2
    <3>1. CASE o \in 1..position[t]
      <4>1. o \in handled[t] \cup batch[owner[t]][t]
        BY <3>1
      <4>2. batch[c][t] = {}
        BY <2>2 DEF NoRecords
      <4> QED
        BY <2>4, <4>1, <4>2
    <3>2. CASE o \in (position[t] + 1)..upto[t]
      <4>1. owner[t] = c
        BY <2>1, <2>3, <3>2
      <4> QED
        BY <2>4, <3>2, <4>1
    <3> QED
      BY <2>3, <3>1, <3>2
  <2> QED
    BY <2>2, <2>5, <2>6, <2>7
<1>3. ASSUME NEW c \in Consumers, CommitOffsets(c)
      PROVE  HandlingInv'
  <2>1. /\ batch[c] = NoRecords
        /\ committed' = [t \in Topics |-> IF owner[t] = c THEN position[t] ELSE committed[t]]
        /\ phase' = [phase EXCEPT ![c] = "poll"]
        /\ UNCHANGED <<owner, position, batch, handled, mishaps>>
    BY <1>3 DEF CommitOffsets
  <2>2. OffsetsInLog' /\ OwnerHoldsRest'
    BY <2>1
  <2>3. PollEmptyHanded'
    BY <2>1 DEF GroupTypeOK
  <2>4. CommittedMeansHandled'
    <3> SUFFICES ASSUME NEW t \in Topics
                 PROVE  1..committed'[t] \subseteq handled[t]
      BY <2>1
    <3>1. CASE owner[t] = c
      <4>1. committed'[t] = position[t] /\ batch[c][t] = {}
        BY <2>1, <3>1 DEF NoRecords
      <4> QED
        BY <3>1, <4>1
    <3>2. CASE owner[t] # c
      BY <2>1, <3>2
    <3> QED
      BY <3>1, <3>2
  <2> QED
    BY <2>2, <2>3, <2>4
<1>4. ASSUME NEW c \in Consumers, CommitFails(c)
      PROVE  HandlingInv'
  BY <1>4 DEF CommitFails, GroupTypeOK
<1>5. ASSUME NEW c \in Consumers, Crash(c)
      PROVE  HandlingInv'
  <2>1. /\ owner' = [t \in Topics |-> IF owner[t] = c THEN Nobody ELSE owner[t]]
        /\ batch' = [batch EXCEPT ![c] = NoRecords]
        /\ phase' = [phase EXCEPT ![c] = "poll"]
        /\ UNCHANGED <<committed, position, handled>>
    BY <1>5 DEF Crash
  <2>2. \A d \in Consumers : batch'[d] = IF d = c THEN NoRecords ELSE batch[d]
    BY <2>1 DEF GroupTypeOK
  <2>3. OffsetsInLog'
    BY <2>1, <2>2 DEF NoRecords
  <2>4. PollEmptyHanded'
    BY <2>1, <2>2 DEF GroupTypeOK
  <2>5. OwnerHoldsRest'
    <3>1. \A t \in Topics : owner'[t] \in Consumers => owner'[t] = owner[t] /\ owner[t] # c
      BY <2>1, NobodyAssumption
    <3> QED
      BY <2>1, <2>2, <3>1
  <2> QED
    BY <2>1, <2>3, <2>4, <2>5
<1>6. ASSUME NEW c \in Consumers, NEW t \in Topics, NEW o \in batch[c][t], HandleRecord(c, t, o)
      PROVE  HandlingInv'
  <2>1. /\ phase[c] = "work"
        /\ batch' = [batch EXCEPT ![c][t] = @ \ {o}]
        /\ handled' = [handled EXCEPT ![t] = @ \cup {o}]
        /\ UNCHANGED <<owner, committed, position, phase, mishaps>>
    BY <1>6 DEF HandleRecord
  <2>2. \A d \in Consumers, u \in Topics :
          batch'[d][u] = IF d = c /\ u = t THEN batch[d][u] \ {o} ELSE batch[d][u]
    BY <2>1 DEF GroupTypeOK
  <2>3. \A u \in Topics : handled'[u] = IF u = t THEN handled[u] \cup {o} ELSE handled[u]
    BY <2>1 DEF GroupTypeOK
  <2>4. OffsetsInLog'
    BY <2>1, <2>2, <2>3
  <2>5. PollEmptyHanded'
    <3>1. \A d \in Consumers : phase'[d] = "poll" => d # c /\ batch'[d] = batch[d]
      BY <2>1 DEF GroupTypeOK
    <3> QED
      BY <2>1, <3>1
  <2>6. OwnerHoldsRest'
    <3> SUFFICES ASSUME NEW u \in Topics, owner[u] \in Consumers, NEW p \in 1..position[u]
                 PROVE  p \in handled'[u] \cup batch'[owner[u]][u]
      BY <2>1
    <3>1. p \in handled[u] \cup batch[owner[u]][u]
      OBVIOUS
    <3> QED
      BY <2>2, <2>3, <3>1
  <2>7. CommittedMeansHandled'
    BY <2>1, <2>3
  <2> QED
    BY <2>4, <2>5, <2>6, <2>7
<1> QED
  BY <1>1, <1>2, <1>3, <1>4, <1>5, <1>6 DEF GroupControl, HandleNext

-----------------------------------------------------------------------------

(* The inductive invariant holds at first ...                               *)
LEMMA IInvInit == PipelineInit => IInv
<1> SUFFICES ASSUME PipelineInit
             PROVE  IInv
  OBVIOUS
<1>1. TableInv /\ GroupTypeOK
  BY ShapeInit
<1>2. BrokerInv
  BY DEF PipelineInit, OutboxInit, Idle, BrokerInv, SentRecorded, NoEventLost
<1>3. HandlingInv
  BY NobodyAssumption
  DEF PipelineInit, OutboxInit, GroupInit, NoRecords, HandlingInv, OffsetsInLog, PollEmptyHanded, OwnerHoldsRest,
      CommittedMeansHandled
<1> QED
  BY <1>1, <1>2, <1>3 DEF IInv, PipelineTypes, TableInv, BrokerInv, HandlingInv

(* ... and every step of the pipeline keeps it.                             *)
LEMMA IInvStep == IInv /\ [PipelineNext]_pipelineVars => IInv'
<1> SUFFICES ASSUME TableInv, GroupTypeOK, BrokerInv, HandlingInv, [PipelineNext]_pipelineVars
             PROVE  BrokerInv' /\ HandlingInv'
  BY ShapeStep DEF IInv, PipelineTypes, TableInv, BrokerInv, HandlingInv
<1>1. TableInv'
  BY ShapeStep
<1>2. CASE OutboxStep
  BY <1>1, <1>2, BrokerStep, OutboxGrowsLog, HandlingOutbox DEF OutboxStep
<1>3. CASE GroupNext
  <2>1. BrokerInv'
    BY <1>3 DEF GroupNext, outboxVars, BrokerInv, SentRecorded, NoEventLost, Recorded
  <2>2. HandlingInv'
    BY <1>3, HandlingGroup DEF GroupNext, outboxVars
  <2> QED
    BY <2>1, <2>2
<1>4. CASE UNCHANGED pipelineVars
  <2>1. BrokerInv'
    BY <1>4 DEF pipelineVars, outboxVars, BrokerInv, SentRecorded, NoEventLost, Recorded
  <2>2. HandlingInv'
    BY <1>1, <1>4, LogUnchanged, HandlingOutbox DEF pipelineVars, outboxVars
  <2> QED
    BY <2>1, <2>2
<1> QED
  BY <1>2, <1>3, <1>4 DEF PipelineNext

(* The invariant behind the theorems below. *)
THEOREM PipelineInvariant == PipelineSpec => []IInv
  BY IInvInit, IInvStep, PTL DEF PipelineSpec

(* A row is marked published or swept only if the broker holds its event,   *)
(* however the relays of the replicas interleave and roll back.             *)
THEOREM PublishedIsRecorded == PipelineSpec => []NoEventLost
<1>1. IInv => NoEventLost
  BY DEF IInv
<1> QED
  BY <1>1, PipelineInvariant, PTL

(* The committed offset never passes an unhandled record, whatever crashes, *)
(* reassignments and failed commits the group goes through.                 *)
THEOREM CommitNeverSkips == PipelineSpec => []CommittedMeansHandled
<1>1. IInv => CommittedMeansHandled
  BY DEF IInv
<1> QED
  BY <1>1, PipelineInvariant, PTL

-----------------------------------------------------------------------------
(* The refinement of AtLeastOnce, step by step. *)
abstraction == <<Accepted, OnRecord, Forgotten, Delivered>>

(* A growing log changes nothing in what has been delivered.                *)
LEMMA DeliveredStays ==
  ASSUME OffsetsInLog, LogGrows, UNCHANGED handled
  PROVE  UNCHANGED Delivered
  BY DEF OffsetsInLog, LogGrows, Delivered

(* The commit of an outbox row is the acceptance of an event.               *)
LEMMA InsertRefines ==
  ASSUME IInv, NEW id \in Ids, NEW e \in Events, InsertEvent(id, e), UNCHANGED groupVars
  PROVE  Promise!Accept(id)
<1>1. Accepted' = Accepted \cup {id}
  BY DEF IInv, PipelineTypes, OutboxTypeOK, InsertEvent, Accepted
<1>2. UNCHANGED OnRecord
  BY DEF InsertEvent, OnRecord, Recorded
<1>3. UNCHANGED Forgotten
  BY DEF IInv, PipelineTypes, OutboxTypeOK, InsertEvent, Forgotten
<1>4. UNCHANGED Delivered
  BY DEF InsertEvent, groupVars, Delivered
<1> QED
  BY <1>1, <1>2, <1>3, <1>4 DEF Promise!Accept

(* A produced record is recorded by the broker.                             *)
LEMMA ProduceRefines ==
  ASSUME IInv, NEW r \in Relays, NEW id \in relay[r].batch, ProduceRecord(r, id), UNCHANGED groupVars
  PROVE  Promise!Record(id)
<1>1. TableInv
  BY DEF IInv, PipelineTypes, TableInv
<1>2. LogGrows /\ Recorded(id)'
  BY <1>1, ProduceAppends
<1>3. UNCHANGED <<outbox, status, handled>>
  BY DEF ProduceRecord, groupVars
<1>4. id \in Ids /\ status[id] = "pending" /\ outbox[id] \in Events /\ outbox[id].topic \in Topics
  BY <1>1, EventsAssumption DEF TableInv, OutboxTypeOK, LocksHeld, RowsHeld
<1>5. id \in Accepted \ Forgotten
  BY <1>4 DEF Accepted, Forgotten
<1>6. OnRecord' = OnRecord \cup {id}
  <2>1. ASSUME NEW x \in Ids, Recorded(x)', x # id
        PROVE  Recorded(x)
    <3>0. PICK t \in Topics : \E i \in 1..Len(log'[t]) : log'[t][i].key = x
      BY <2>1 DEF Recorded
    <3>1. PICK i \in 1..Len(log'[t]) : log'[t][i].key = x
      BY <3>0
    <3>2. log' = [log EXCEPT ![outbox[id].topic] = Append(@, [key |-> id, value |-> outbox[id]])]
      BY DEF ProduceRecord
    <3>3. log[t] \in Seq([key : Ids, value : Events])
      BY <1>1 DEF TableInv, OutboxTypeOK
    <3>4. CASE t # outbox[id].topic
      <4>1. log'[t] = log[t]
        BY <1>1, <3>2, <3>4 DEF TableInv, OutboxTypeOK
      <4> QED
        BY <3>1, <4>1 DEF Recorded
    <3>5. CASE t = outbox[id].topic
      <4>1. log'[t] = Append(log[t], [key |-> id, value |-> outbox[id]])
        BY <1>1, <3>2, <3>5 DEF TableInv, OutboxTypeOK
      <4>2. [key |-> id, value |-> outbox[id]] \in [key : Ids, value : Events]
        BY <1>4
      <4>3. i \in 1..Len(log[t]) \/ i = Len(log[t]) + 1
        BY <3>1, <3>3, <4>1, <4>2
      <4>4. CASE i = Len(log[t]) + 1
        BY <2>1, <3>1, <3>3, <4>1, <4>2, <4>4
      <4>5. CASE i \in 1..Len(log[t])
        <5>1. log'[t][i] = log[t][i]
          BY <3>3, <4>1, <4>2, <4>5
        <5> QED
          BY <3>1, <4>5, <5>1 DEF Recorded
      <4> QED
        BY <4>3, <4>4, <4>5
    <3> QED
      BY <3>4, <3>5
  <2>2. \A x \in Ids : Recorded(x) => Recorded(x)'
    BY <1>2, RecordedStays
  <2> QED
    BY <1>2, <1>4, <2>1, <2>2 DEF OnRecord
<1>7. UNCHANGED Delivered
  BY <1>2, <1>3, DeliveredStays DEF IInv
<1>8. UNCHANGED <<Accepted, Forgotten>>
  BY <1>3 DEF Accepted, Forgotten
<1> QED
  BY <1>5, <1>6, <1>7, <1>8 DEF Promise!Record

(* Marking a batch forgets its rows, all of them recorded.                  *)
LEMMA MarkRefines ==
  ASSUME IInv, NEW r \in Relays, MarkPublished(r), UNCHANGED groupVars
  PROVE  Promise!Forget(relay[r].batch) /\ relay[r].batch \subseteq Ids
<1>1. status' = [id \in Ids |-> IF id \in relay[r].batch THEN "published" ELSE status[id]]
  BY DEF MarkPublished
<1>2. relay[r].batch \subseteq Ids /\ \A id \in relay[r].batch : status[id] = "pending"
  BY DEF IInv, PipelineTypes, OutboxTypeOK, LocksHeld
<1>3. relay[r].batch \subseteq OnRecord
  BY <1>2 DEF IInv, SentRecorded, MarkPublished, OnRecord
<1>4. Forgotten' = Forgotten \cup relay[r].batch
  BY <1>1, <1>2 DEF Forgotten
<1>5. UNCHANGED Accepted
  BY <1>1, <1>2 DEF Accepted
<1>6. UNCHANGED OnRecord
  BY DEF MarkPublished, OnRecord, Recorded
<1>7. UNCHANGED Delivered
  BY DEF MarkPublished, groupVars, Delivered
<1> QED
  BY <1>2, <1>3, <1>4, <1>5, <1>6, <1>7 DEF Promise!Forget

(* A handled record is a delivered event.                                   *)
LEMMA HandleRefines ==
  ASSUME IInv, NEW c \in Consumers, NEW t \in Topics, NEW o \in batch[c][t], HandleRecord(c, t, o),
         UNCHANGED outboxVars
  PROVE  Promise!Deliver(log[t][o].key) /\ log[t][o].key \in Ids
<1>1. o \in 1..Len(log[t]) /\ log[t] \in Seq([key : Ids, value : Events])
  BY DEF IInv, PipelineTypes, OutboxTypeOK, OffsetsInLog
<1>2. log[t][o].key \in Ids
  <2>1. log[t][o] \in [key : Ids, value : Events]
    BY <1>1, ElementOfSeq
  <2> QED
    BY <2>1
<1>3. log[t][o].key \in OnRecord
  BY <1>1, <1>2 DEF OnRecord, Recorded
<1>4. \A u \in Topics : handled'[u] = IF u = t THEN handled[u] \cup {o} ELSE handled[u]
  BY DEF HandleRecord, IInv, PipelineTypes, GroupTypeOK
<1>5. UNCHANGED <<log, status>>
  BY DEF outboxVars
<1>6. Delivered' = Delivered \cup {log[t][o].key}
  BY <1>2, <1>4, <1>5 DEF Delivered
<1>7. UNCHANGED <<Accepted, OnRecord, Forgotten>>
  BY <1>5 DEF Accepted, OnRecord, Recorded, Forgotten
<1> QED
  BY <1>2, <1>3, <1>6, <1>7 DEF Promise!Deliver

(* An empty pipeline has promised nothing.                                  *)
LEMMA PromiseInit == PipelineInit => Promise!Init
<1> SUFFICES ASSUME PipelineInit
             PROVE  Promise!Init
  OBVIOUS
<1>1. Accepted = {} /\ Forgotten = {}
  BY DEF PipelineInit, OutboxInit, Accepted, Forgotten
<1>2. OnRecord = {}
  BY DEF PipelineInit, OutboxInit, OnRecord, Recorded
<1>3. Delivered = {}
  BY DEF PipelineInit, GroupInit, Delivered
<1> QED
  BY <1>1, <1>2, <1>3 DEF Promise!Init

(* Every step of the pipeline is one of the promise, or a stutter.          *)
LEMMA PromiseStep == IInv /\ [PipelineNext]_pipelineVars => [Promise!Next]_abstraction
<1> SUFFICES ASSUME IInv, [PipelineNext]_pipelineVars
             PROVE  Promise!Next \/ UNCHANGED abstraction
  OBVIOUS
<1>1. UNCHANGED <<log, status, handled>> => UNCHANGED abstraction
  BY DEF abstraction, Accepted, OnRecord, Recorded, Forgotten, Delivered
<1>2. CASE OutboxStep
  <2>1. UNCHANGED groupVars
    BY <1>2 DEF OutboxStep
  <2>2. ASSUME NEW id \in Ids, NEW e \in Events, InsertEvent(id, e)
        PROVE  Promise!Next
    BY <2>1, <2>2, InsertRefines DEF Promise!Next
  <2>3. ASSUME NEW r \in Relays, NEW id \in relay[r].batch, ProduceRecord(r, id)
        PROVE  Promise!Next
    <3>1. id \in Ids
      BY DEF IInv, PipelineTypes, OutboxTypeOK
    <3> QED
      BY <2>1, <2>3, <3>1, ProduceRefines DEF Promise!Next
  <2>4. ASSUME NEW r \in Relays, MarkPublished(r)
        PROVE  Promise!Next
    BY <2>1, <2>4, MarkRefines DEF Promise!Next
  <2>5. ASSUME NEW r \in Relays, SelectUnpublished(r) \/ AbortBatch(r)
        PROVE  UNCHANGED abstraction
    BY <1>1, <2>1, <2>5 DEF SelectUnpublished, AbortBatch, groupVars
  <2>6. ASSUME SweepExpiredOutbox
        PROVE  UNCHANGED abstraction
    <3>1. \A id \in Ids : status'[id] = status[id] \/ (status[id] = "published" /\ status'[id] = "swept")
      BY <2>6 DEF SweepExpiredOutbox
    <3>2. UNCHANGED <<log, handled>>
      BY <2>1, <2>6 DEF SweepExpiredOutbox, groupVars
    <3> QED
      BY <3>1, <3>2 DEF abstraction, Accepted, OnRecord, Recorded, Forgotten, Delivered
  <2> QED
    BY <1>2, <2>2, <2>3, <2>4, <2>5, <2>6 DEF OutboxStep, OutboxNext, OutboxMaintenance, RelayNext
<1>3. CASE GroupNext
  <2>1. UNCHANGED outboxVars
    BY <1>3 DEF GroupNext
  <2>2. CASE GroupControl
    <3>1. UNCHANGED handled
      BY <2>2 DEF GroupControl, Assign, PollFetches, CommitOffsets, CommitFails, Crash
    <3> QED
      BY <1>1, <2>1, <3>1 DEF outboxVars
  <2>3. CASE HandleNext
    <3>1. PICK c \in Consumers, t \in Topics : \E o \in batch[c][t] : HandleRecord(c, t, o)
      BY <2>3 DEF HandleNext
    <3>2. PICK o \in batch[c][t] : HandleRecord(c, t, o)
      BY <3>1
    <3> QED
      BY <2>1, <3>2, HandleRefines DEF Promise!Next
  <2> QED
    BY <1>3, <2>2, <2>3 DEF GroupNext
<1>4. CASE UNCHANGED pipelineVars
  BY <1>1, <1>4 DEF pipelineVars, outboxVars, groupVars
<1> QED
  BY <1>2, <1>3, <1>4 DEF PipelineNext

(* Outbox, relays, broker and consumer group together implement AtLeastOnce:*)
(* an accepted event is recorded before it is forgotten, and only recorded  *)
(* events are delivered.                                                    *)
THEOREM PipelineKeepsPromise == PipelineSpec => KeepsPromise
  BY PipelineInvariant, PromiseInit, PromiseStep, PTL
  DEF PipelineSpec, KeepsPromise, Promise!Spec, Promise!aloVars, abstraction

-----------------------------------------------------------------------------
(* Duplicates.  A copy in the log is the one its row's relay has produced,  *)
(* or the one it was published with, or was produced in a transaction that  *)
(* rolled back.                                                             *)
Produced(id) ==
  IF status[id] \in {"published", "swept"} \/ \E r \in Relays : id \in relay[r].sent THEN 1 ELSE 0
SentIsHeld == \A r \in Relays : relay[r].sent \subseteq relay[r].batch
CopiesPaid ==
  \A id \in Ids : IsFiniteSet(Copies(id)) /\ Cardinality(Copies(id)) <= aborts + Produced(id)
CopiesInv == SentIsHeld /\ CopiesPaid

(* Steps that produce nothing leave the copies and what pays for them.      *)
LEMMA CopiesStay ==
  ASSUME TableInv, CopiesPaid, UNCHANGED log, aborts' \in Nat,
         \A id \in Ids : aborts + Produced(id) <= aborts' + Produced(id)'
  PROVE  CopiesPaid'
<1> SUFFICES ASSUME NEW id \in Ids
             PROVE  IsFiniteSet(Copies(id)') /\ Cardinality(Copies(id)') <= aborts' + Produced(id)'
  BY DEF CopiesPaid
<1>1. Copies(id)' = Copies(id)
  BY DEF Copies
<1>2. Cardinality(Copies(id)) \in Nat /\ Cardinality(Copies(id)) <= aborts + Produced(id) /\ IsFiniteSet(Copies(id))
  BY FS_CardinalityType DEF CopiesPaid
<1>3. Produced(id) \in Nat /\ Produced(id)' \in Nat /\ aborts \in Nat
  BY DEF Produced, TableInv, OutboxTypeOK
<1> QED
  BY <1>1, <1>2, <1>3

(* A relay produces a row that it holds and has not produced, and so nobody *)
(* else: the copy it adds is the first that no roll-back pays for.          *)
LEMMA ProducePays ==
  ASSUME TableInv, CopiesInv, NEW r \in Relays, NEW id \in relay[r].batch, ProduceRecord(r, id)
  PROVE  CopiesInv'
<1> DEFINE topic == outbox[id].topic
           record == [key |-> id, value |-> outbox[id]]
           place == <<topic, Len(log[topic]) + 1>>
<1>1. /\ id \in Ids /\ outbox[id] \in Events /\ topic \in Topics /\ status[id] = "pending"
      /\ log \in [Topics -> Seq([key : Ids, value : Events])]
      /\ relay \in [Relays -> [batch : SUBSET Ids, sent : SUBSET Ids]] /\ aborts \in Nat
  BY EventsAssumption DEF TableInv, OutboxTypeOK, LocksHeld, RowsHeld
<1>2. /\ log' = [log EXCEPT ![topic] = Append(@, record)]
      /\ relay' = [relay EXCEPT ![r].sent = @ \cup {id}] /\ UNCHANGED <<outbox, status, aborts>>
      /\ id \notin relay[r].sent
  BY DEF ProduceRecord
<1>3. /\ relay'[r].sent = relay[r].sent \cup {id} /\ relay'[r].batch = relay[r].batch
      /\ \A q \in Relays : q # r => relay'[q] = relay[q]
  BY <1>1, <1>2
<1>4. SentIsHeld'
  BY <1>3 DEF CopiesInv, SentIsHeld
<1>5. Produced(id) = 0 /\ Produced(id)' = 1
  <2>1. \A q \in Relays : id \notin relay[q].sent
    BY <1>2 DEF TableInv, LocksHeld, CopiesInv, SentIsHeld
  <2> QED
    BY <1>1, <1>3, <2>1 DEF Produced
<1>6. \A x \in Ids : x # id => Produced(x)' = Produced(x)
  BY <1>2, <1>3 DEF Produced
<1>7. \A t \in Topics : t # topic => log'[t] = log[t]
  BY <1>1, <1>2
<1>8. record \in [key : Ids, value : Events] /\ record.key = id
  BY <1>1
<1> HIDE DEF topic, record
<1>a. \A s \in Seq([key : Ids, value : Events]) :
        /\ Len(Append(s, record)) = Len(s) + 1 /\ Len(s) \in Nat
        /\ Append(s, record)[Len(s) + 1] = record
        /\ \A i \in 1..Len(s) : Append(s, record)[i] = s[i]
  BY <1>8
<1>b. log[topic] \in Seq([key : Ids, value : Events]) /\ log'[topic] = Append(log[topic], record)
  BY <1>1, <1>2
<1>9. /\ Len(log'[topic]) = Len(log[topic]) + 1 /\ Len(log[topic]) \in Nat
      /\ log'[topic][Len(log[topic]) + 1] = record
      /\ \A i \in 1..Len(log[topic]) : log'[topic][i] = log[topic][i]
  BY <1>a, <1>b
<1>10. ASSUME NEW x \in Ids PROVE Copies(x)' \subseteq Copies(x) \cup (IF x = id THEN {place} ELSE {})
  <2> SUFFICES ASSUME NEW t \in Topics, NEW i \in 1..MaxRecords, i <= Len(log'[t]), log'[t][i].key = x
               PROVE  <<t, i>> \in Copies(x) \/ (x = id /\ <<t, i>> = place)
    BY DEF Copies
  <2>1. CASE t # topic
    BY <1>7, <2>1 DEF Copies
  <2>2. CASE t = topic /\ i = Len(log[topic]) + 1
    BY <1>8, <1>9, <2>2
  <2>3. CASE t = topic /\ i # Len(log[topic]) + 1
    <3>1. i \in Nat /\ i >= 1
      BY MaxRecordsIsNat
    <3>2. i <= Len(log[topic])
      BY <1>9, <2>3, <3>1
    <3>3. log[topic][i].key = x
      BY <1>9, <2>3, <3>1, <3>2
    <3> QED
      BY <2>3, <3>2, <3>3 DEF Copies
  <2> QED
    BY <2>1, <2>2, <2>3
<1> HIDE DEF place
<1>11. CopiesPaid'
  <2> SUFFICES ASSUME NEW x \in Ids
               PROVE  IsFiniteSet(Copies(x)') /\ Cardinality(Copies(x)') <= aborts + Produced(x)'
    BY <1>2 DEF CopiesPaid
  <2>1. IsFiniteSet(Copies(x)) /\ Cardinality(Copies(x)) \in Nat /\ Cardinality(Copies(x)) <= aborts + Produced(x)
    BY FS_CardinalityType DEF CopiesInv, CopiesPaid
  <2>2. IsFiniteSet(Copies(x) \cup {place}) /\ Cardinality(Copies(x) \cup {place}) <= Cardinality(Copies(x)) + 1
        /\ Cardinality(Copies(x) \cup {place}) \in Nat
    <3>1. \A C : IsFiniteSet(C) => /\ IsFiniteSet(C \cup {place})
                                   /\ Cardinality(C \cup {place}) \in {Cardinality(C), Cardinality(C) + 1}
      BY FS_AddElement
    <3>2. Cardinality(Copies(x) \cup {place}) \in {Cardinality(Copies(x)), Cardinality(Copies(x)) + 1}
          /\ IsFiniteSet(Copies(x) \cup {place})
      BY <2>1, <3>1
    <3> QED
      BY <2>1, <3>2
  <2>3. CASE x = id
    <3>1. IsFiniteSet(Copies(x)') /\ Cardinality(Copies(x)') <= Cardinality(Copies(x) \cup {place})
          /\ Cardinality(Copies(x)') \in Nat
      BY <1>10, <2>2, <2>3, FS_Subset, FS_CardinalityType
    <3> QED
      BY <1>1, <1>5, <2>1, <2>2, <2>3, <3>1
  <2>4. CASE x # id
    <3>1. IsFiniteSet(Copies(x)') /\ Cardinality(Copies(x)') <= Cardinality(Copies(x))
          /\ Cardinality(Copies(x)') \in Nat
      BY <1>10, <2>1, <2>4, FS_Subset, FS_CardinalityType
    <3>2. Produced(x)' = Produced(x) /\ Produced(x) \in Nat
      BY <1>6, <2>4 DEF Produced
    <3> QED
      BY <1>1, <2>1, <3>1, <3>2
  <2> QED
    BY <2>3, <2>4
<1> QED
  BY <1>4, <1>11 DEF CopiesInv

(* Every step of the outbox keeps the account of the copies.                *)
LEMMA CopiesStep == TableInv /\ CopiesInv /\ OutboxNext => CopiesInv'
<1> SUFFICES ASSUME TableInv, CopiesInv, OutboxNext
             PROVE  CopiesInv'
  OBVIOUS
<1>0. /\ relay \in [Relays -> [batch : SUBSET Ids, sent : SUBSET Ids]] /\ aborts \in Nat
      /\ status \in [Ids -> {"none", "pending", "published", "swept"}]
      /\ SentIsHeld /\ CopiesPaid
  BY DEF TableInv, OutboxTypeOK, CopiesInv
<1>1. ASSUME NEW id \in Ids, NEW e \in Events, InsertEvent(id, e)
      PROVE  CopiesInv'
  <2>1. \A x \in Ids : Produced(x)' = Produced(x)
    BY <1>0, <1>1 DEF InsertEvent, Produced
  <2>2. SentIsHeld'
    BY <1>0, <1>1 DEF InsertEvent, SentIsHeld
  <2>3. aborts' = aborts /\ log' = log /\ \A x \in Ids : Produced(x) \in Nat
    BY <1>1 DEF InsertEvent, Produced
  <2>4. \A x \in Ids : aborts + Produced(x) <= aborts' + Produced(x)'
    BY <1>0, <2>1, <2>3
  <2> QED
    BY <1>0, <2>2, <2>3, <2>4, CopiesStay DEF CopiesInv
<1>2. ASSUME NEW r \in Relays, SelectUnpublished(r)
      PROVE  CopiesInv'
  <2>1. PICK S \in SUBSET Unlocked : relay' = [relay EXCEPT ![r].batch = S]
    BY <1>2 DEF SelectUnpublished
  <2>2. /\ relay'[r].sent = relay[r].sent /\ relay[r].sent = {}
        /\ \A q \in Relays : q # r => relay'[q] = relay[q]
    BY <1>0, <1>2, <2>1 DEF SelectUnpublished, Idle
  <2>3. SentIsHeld'
    BY <1>0, <2>2 DEF SentIsHeld
  <2>4. aborts' = aborts /\ log' = log /\ status' = status
    BY <1>2 DEF SelectUnpublished
  <2>5. \A x \in Ids : Produced(x)' = Produced(x) /\ Produced(x) \in Nat
    BY <2>2, <2>4 DEF Produced
  <2>6. \A x \in Ids : aborts + Produced(x) <= aborts' + Produced(x)'
    BY <1>0, <2>4, <2>5
  <2> QED
    BY <1>0, <2>3, <2>4, <2>6, CopiesStay DEF CopiesInv
<1>3. ASSUME NEW r \in Relays, NEW id \in relay[r].batch, ProduceRecord(r, id)
      PROVE  CopiesInv'
  BY <1>3, ProducePays
<1>4. ASSUME NEW r \in Relays, MarkPublished(r)
      PROVE  CopiesInv'
  <2>1. /\ relay'[r] = Idle /\ \A q \in Relays : q # r => relay'[q] = relay[q]
        /\ aborts' = aborts /\ log' = log /\ relay[r].sent = relay[r].batch
    BY <1>0, <1>4 DEF MarkPublished
  <2>2. \A x \in Ids : status'[x] = IF x \in relay[r].batch THEN "published" ELSE status[x]
    BY <1>4 DEF MarkPublished
  <2>3. SentIsHeld'
    BY <1>0, <2>1 DEF SentIsHeld, Idle
  <2>4. \A x \in Ids : Produced(x) \in Nat /\ Produced(x)' \in Nat /\ Produced(x) <= Produced(x)'
    BY <2>1, <2>2 DEF Produced
  <2>5. \A x \in Ids : aborts + Produced(x) <= aborts' + Produced(x)'
    BY <1>0, <2>1, <2>4
  <2> QED
    BY <1>0, <2>1, <2>3, <2>5, CopiesStay DEF CopiesInv
<1>5. ASSUME NEW r \in Relays, AbortBatch(r)
      PROVE  CopiesInv'
  <2>1. /\ relay'[r] = Idle /\ \A q \in Relays : q # r => relay'[q] = relay[q]
        /\ aborts' = aborts + 1 /\ log' = log
    BY <1>0, <1>5 DEF AbortBatch
  <2>2. SentIsHeld'
    BY <1>0, <2>1 DEF SentIsHeld, Idle
  <2>3. \A x \in Ids : Produced(x) \in {0, 1} /\ Produced(x)' \in {0, 1}
    BY DEF Produced
  <2>4. \A x \in Ids : aborts + Produced(x) <= aborts' + Produced(x)'
    BY <1>0, <2>1, <2>3
  <2> QED
    BY <1>0, <2>1, <2>2, <2>4, CopiesStay DEF CopiesInv
<1>6. CASE SweepExpiredOutbox
  <2>1. PICK Expired \in SUBSET {id \in Ids : status[id] = "published"} :
          status' = [id \in Ids |-> IF id \in Expired THEN "swept" ELSE status[id]]
    BY <1>6 DEF SweepExpiredOutbox
  <2>2. relay' = relay /\ aborts' = aborts /\ log' = log
    BY <1>6 DEF SweepExpiredOutbox
  <2>3. \A x \in Ids : Produced(x)' = Produced(x) /\ Produced(x) \in Nat
    BY <2>1, <2>2 DEF Produced
  <2>4. \A x \in Ids : aborts + Produced(x) <= aborts' + Produced(x)'
    BY <1>0, <2>2, <2>3
  <2>5. SentIsHeld'
    BY <1>0, <2>2 DEF SentIsHeld
  <2> QED
    BY <1>0, <2>2, <2>4, <2>5, CopiesStay DEF CopiesInv
<1> QED
  BY <1>1, <1>2, <1>3, <1>4, <1>5, <1>6 DEF OutboxNext, OutboxMaintenance, RelayNext

(* However the relays of the replicas interleave, an event is in the log    *)
(* once, and once more for each relay transaction that rolled back.         *)
THEOREM RelaysAddNoCopies == PipelineSpec => []DuplicatesArePaid
<1>1. PipelineInit => CopiesInv
  <2> SUFFICES ASSUME PipelineInit PROVE CopiesInv
    OBVIOUS
  <2>1. \A id \in Ids : Copies(id) = {}
    BY MaxRecordsIsNat DEF PipelineInit, OutboxInit, Copies
  <2>2. SentIsHeld /\ aborts = 0 /\ \A id \in Ids : Produced(id) = 0
    BY DEF PipelineInit, OutboxInit, Idle, SentIsHeld, Produced
  <2> QED
    BY <2>1, <2>2, FS_EmptySet DEF CopiesInv, CopiesPaid
<1>2. IInv /\ CopiesInv /\ [PipelineNext]_pipelineVars => CopiesInv'
  <2> SUFFICES ASSUME IInv, CopiesInv, [PipelineNext]_pipelineVars PROVE CopiesInv'
    OBVIOUS
  <2>1. CASE OutboxStep
    BY <2>1, CopiesStep DEF OutboxStep, IInv, PipelineTypes, TableInv
  <2>2. CASE UNCHANGED outboxVars
    BY <2>2 DEF outboxVars, CopiesInv, SentIsHeld, CopiesPaid, Copies, Produced
  <2> QED
    BY <2>1, <2>2 DEF PipelineNext, GroupNext, pipelineVars
<1>3. IInv /\ CopiesInv => DuplicatesArePaid
  <2> SUFFICES ASSUME IInv, CopiesInv, NEW id \in Ids PROVE Cardinality(Copies(id)) <= 1 + aborts
    BY DEF DuplicatesArePaid
  <2>1. Cardinality(Copies(id)) \in Nat /\ Cardinality(Copies(id)) <= aborts + Produced(id)
    BY FS_CardinalityType DEF CopiesInv, CopiesPaid
  <2>2. Produced(id) \in {0, 1} /\ aborts \in Nat
    BY DEF Produced, IInv, PipelineTypes, OutboxTypeOK
  <2> QED
    BY <2>1, <2>2
<1> QED
  BY <1>1, <1>2, <1>3, PipelineInvariant, PTL DEF PipelineSpec

-----------------------------------------------------------------------------
(* Replays.  Until the first mishap a topic has the one owner it was given, *)
(* which polls on from where it is: what was handled lies behind it.        *)
HandledBehind ==
  /\ \A t \in Topics : handled[t] \subseteq 1..position[t]
  /\ \A c \in Consumers, t \in Topics : batch[c][t] \subseteq 1..position[t] \ handled[t]
  /\ \A c \in Consumers, t \in Topics : owner[t] # c => batch[c][t] = {}
  /\ \A t \in Topics : owner[t] = Nobody => position[t] = 0 /\ committed[t] = 0
ReplayInv == mishaps = 0 => HandledBehind

(* Every step of the group keeps this, or is a mishap.                      *)
LEMMA ReplayStep == GroupTypeOK /\ ReplayInv /\ (GroupControl \/ HandleNext) => ReplayInv'
<1> SUFFICES ASSUME GroupTypeOK, ReplayInv, GroupControl \/ HandleNext, mishaps' = 0
             PROVE  HandledBehind'
  BY DEF ReplayInv
<1> USE DEF GroupTypeOK
<1>1. ASSUME NEW t \in Topics, NEW c \in Consumers, Assign(t, c)
      PROVE  HandledBehind'
  <2>1. owner[t] = Nobody /\ mishaps = 0
    BY <1>1 DEF Assign
  <2>2. HandledBehind
    BY <2>1 DEF ReplayInv
  <2>3. UNCHANGED <<position, committed, batch, handled>>
    <3>1. position[t] = 0 /\ committed[t] = 0
      BY <2>1, <2>2 DEF HandledBehind
    <3> QED
      BY <1>1, <3>1 DEF Assign
  <2>4. \A x \in Topics : owner'[x] = IF x = t THEN c ELSE owner[x]
    BY <1>1 DEF Assign
  <2>5. \A d \in Consumers : batch[d][t] = {}
    BY <2>1, <2>2, NobodyAssumption DEF HandledBehind
  <2> QED
    BY <2>2, <2>3, <2>4, <2>5, NobodyAssumption DEF HandledBehind
<1>2. ASSUME NEW c \in Consumers, PollFetches(c)
      PROVE  HandledBehind'
  <2>1. PICK upto \in [Topics -> 0..MaxRecords] :
          /\ \A t \in Topics : position[t] <= upto[t] /\ (owner[t] # c => upto[t] = position[t])
          /\ batch' = [batch EXCEPT ![c] = [t \in Topics |-> (position[t] + 1)..upto[t]]]
          /\ position' = upto
    BY <1>2 DEF PollFetches
  <2>2. UNCHANGED <<owner, committed, handled, mishaps>>
    BY <1>2 DEF PollFetches
  <2>3. HandledBehind
    BY <2>2 DEF ReplayInv
  <2>4. \A t \in Topics : batch'[c][t] = (position[t] + 1)..upto[t]
    BY <2>1
  <2>5. \A d \in Consumers : d # c => batch'[d] = batch[d]
    BY <2>1
  <2>6. \A t \in Topics : position[t] \in Nat /\ upto[t] \in Nat
    BY <2>1, MaxRecordsIsNat
  <2>7. \A t \in Topics : handled'[t] \subseteq 1..position'[t]
    BY <2>1, <2>2, <2>3, <2>6 DEF HandledBehind
  <2>8. ASSUME NEW d \in Consumers, NEW t \in Topics
        PROVE  batch'[d][t] \subseteq 1..position'[t] \ handled'[t] /\ (owner'[t] # d => batch'[d][t] = {})
    <3>1. CASE d = c
      <4>1. batch'[d][t] = (position[t] + 1)..upto[t] /\ handled'[t] \subseteq 1..position[t]
        BY <2>2, <2>3, <2>4, <3>1 DEF HandledBehind
      <4>2. owner'[t] # d => upto[t] = position[t]
        BY <2>1, <2>2, <3>1
      <4> QED
        BY <2>1, <2>6, <4>1, <4>2
    <3>2. CASE d # c
      BY <2>1, <2>2, <2>3, <2>5, <2>6, <3>2 DEF HandledBehind
    <3> QED
      BY <3>1, <3>2
  <2>9. \A t \in Topics : owner'[t] = Nobody => position'[t] = 0 /\ committed'[t] = 0
    BY <2>1, <2>2, <2>3, NobodyAssumption DEF HandledBehind
  <2> QED
    BY <2>7, <2>8, <2>9 DEF HandledBehind
<1>3. ASSUME NEW c \in Consumers, NEW t \in Topics, NEW o \in batch[c][t], HandleRecord(c, t, o)
      PROVE  HandledBehind'
  <2>1. UNCHANGED <<owner, committed, position, mishaps>>
    BY <1>3 DEF HandleRecord
  <2>2. HandledBehind
    BY <2>1 DEF ReplayInv
  <2>3. /\ \A x \in Topics : handled'[x] = IF x = t THEN handled[x] \cup {o} ELSE handled[x]
        /\ \A d \in Consumers, x \in Topics :
             batch'[d][x] = IF d = c /\ x = t THEN batch[d][x] \ {o} ELSE batch[d][x]
    BY <1>3 DEF HandleRecord
  <2>4. \A d \in Consumers : d # c => batch[d][t] = {}
    BY <2>2, <1>3 DEF HandledBehind
  <2>5. o \in 1..position[t]
    BY <2>2, <1>3 DEF HandledBehind
  <2>6. ASSUME NEW x \in Topics PROVE handled'[x] \subseteq 1..position'[x]
    <3>1. handled[x] \subseteq 1..position[x] /\ position'[x] = position[x]
      BY <2>1, <2>2 DEF HandledBehind
    <3>2. CASE x = t
      BY <2>3, <2>5, <3>1, <3>2
    <3>3. CASE x # t
      BY <2>3, <3>1, <3>3
    <3> QED
      BY <3>2, <3>3
  <2>7. ASSUME NEW d \in Consumers, NEW x \in Topics
        PROVE  /\ batch'[d][x] \subseteq 1..position'[x] \ handled'[x]
               /\ owner'[x] # d => batch'[d][x] = {}
    <3>1. batch[d][x] \subseteq 1..position[x] \ handled[x] /\ (owner[x] # d => batch[d][x] = {})
      BY <2>2 DEF HandledBehind
    <3>2. CASE x # t
      BY <2>1, <2>3, <3>1, <3>2
    <3>3. CASE x = t /\ d = c
      BY <2>1, <2>3, <3>1, <3>3
    <3>4. CASE x = t /\ d # c
      BY <2>1, <2>3, <2>4, <3>4
    <3> QED
      BY <3>2, <3>3, <3>4
  <2> QED
    BY <2>1, <2>2, <2>6, <2>7 DEF HandledBehind
<1>4. ASSUME NEW c \in Consumers, CommitOffsets(c)
      PROVE  HandledBehind'
  <2>1. UNCHANGED <<owner, position, batch, handled, mishaps>>
        /\ \A t \in Topics : committed'[t] = IF owner[t] = c THEN position[t] ELSE committed[t]
    BY <1>4 DEF CommitOffsets
  <2> QED
    BY <2>1, NobodyAssumption DEF ReplayInv, HandledBehind
<1>5. ASSUME NEW c \in Consumers, CommitFails(c) \/ Crash(c)
      PROVE  HandledBehind'
  BY <1>5 DEF CommitFails, Crash
<1> QED
  BY <1>1, <1>2, <1>3, <1>4, <1>5 DEF GroupControl, HandleNext

(* Records are handed over a second time only after a crash, a reassignment *)
(* or a failed commit.                                                      *)
THEOREM NoReplayWithoutMishap == PipelineSpec => []ReplayOnlyAfterMishap
<1>1. PipelineInit => ReplayInv
  BY DEF PipelineInit, GroupInit, NoRecords, ReplayInv, HandledBehind
<1>2. IInv /\ ReplayInv /\ [PipelineNext]_pipelineVars => ReplayInv'
  <2> SUFFICES ASSUME IInv, ReplayInv, [PipelineNext]_pipelineVars PROVE ReplayInv'
    OBVIOUS
  <2>1. CASE GroupNext
    BY <2>1, ReplayStep DEF GroupNext, IInv, PipelineTypes
  <2>2. CASE UNCHANGED groupVars
    BY <2>2 DEF groupVars, ReplayInv, HandledBehind
  <2> QED
    BY <2>1, <2>2 DEF PipelineNext, OutboxStep, pipelineVars
<1>3. ReplayInv => ReplayOnlyAfterMishap
  BY DEF ReplayInv, HandledBehind, ReplayOnlyAfterMishap
<1> QED
  BY <1>1, <1>2, <1>3, PipelineInvariant, PTL DEF PipelineSpec

-----------------------------------------------------------------------------
(* The order of the log, where one relay writes it and rows are inserted in *)
(* the order of their ids.  A deployment with one replica has it; the       *)
(* consumers whose tables settle on what the events say rely on it.         *)
OneRelay == \A r, q \in Relays : r = q

(* No id is left out, no row is swept, and a record says what its row says. *)
NoGaps == \A i, j \in Ids : i < j /\ status[j] # "none" => status[i] # "none"
LogHoldsRows ==
  /\ \A id \in Ids : status[id] # "swept"
  /\ \A t \in Topics : \A o \in 1..Len(log[t]) :
       /\ status[log[t][o].key] # "none"
       /\ log[t][o].value = outbox[log[t][o].key]
       /\ outbox[log[t][o].key].topic = t

(* The relay locks the lowest pending rows and sends them in order.         *)
LowestFirst ==
  /\ \A i, j \in Ids : i < j /\ status[i] = "pending" => status[j] # "published"
  /\ \A r \in Relays : \A i \in relay[r].batch, j \in Ids \ relay[r].batch : status[j] = "pending" => i < j
SentInOrder ==
  \A r \in Relays :
    /\ relay[r].sent \subseteq relay[r].batch
    /\ \A i \in relay[r].batch, j \in relay[r].sent :
         i < j /\ outbox[i].topic = outbox[j].topic => i \in relay[r].sent

(* So wherever a record is in its topic, the rows inserted after it follow, *)
(* or have yet to be sent.                                                  *)
Unsent(id) == status[id] = "pending" /\ \A r \in Relays : id \notin relay[r].sent
LaterFollow ==
  \A t \in Topics : \A o \in 1..Len(log[t]), j \in Ids :
    status[j] # "none" /\ outbox[j].topic = t /\ log[t][o].key < j =>
      \/ Unsent(j)
      \/ \E later \in (o + 1)..Len(log[t]) : log[t][later].key = j

OrderInv == NoGaps /\ LogHoldsRows /\ LowestFirst /\ SentInOrder /\ LaterFollow

(* What a record of the log is.                                             *)
LEMMA LogIsTyped ==
  ASSUME TableInv, NEW t \in Topics
  PROVE  /\ Len(log[t]) \in Nat
         /\ \A o \in 1..Len(log[t]) : log[t][o].key \in Ids
<1>1. PICK s \in Seq([key : Ids, value : Events]) : s = log[t]
  BY DEF TableInv, OutboxTypeOK
<1>2. Len(s) \in Nat /\ \A o \in 1..Len(s) : s[o] \in [key : Ids, value : Events]
  BY ElementOfSeq, LenProperties
<1> QED
  BY <1>1, <1>2

(* A row is inserted above all others, with its event.                      *)
LEMMA InsertIsNewest ==
  ASSUME TableInv, NoGaps, NEW e \in Events, InsertNext(e)
  PROVE  \E id \in Ids :
           /\ \A j \in Ids : status[j] # "none" <=> j < id
           /\ status[id] = "none"
           /\ outbox' = [outbox EXCEPT ![id] = e]
           /\ status' = [status EXCEPT ![id] = "pending"]
           /\ UNCHANGED <<log, relay, aborts>>
<1>1. PICK id \in Ids : InsertEvent(id, e) /\ \A lower \in 1..(id - 1) : status[lower] # "none"
  BY DEF InsertNext
<1>2. ASSUME NEW j \in Ids PROVE status[j] # "none" <=> j < id
  <2>1. id \in Nat /\ j \in Nat /\ j >= 1
    BY MaxIdAssumption DEF Ids
  <2>2. CASE j < id
    BY <1>1, <2>1, <2>2
  <2>3. CASE id < j
    BY <1>1, <2>1, <2>3 DEF InsertEvent, NoGaps
  <2> QED
    BY <1>1, <2>1, <2>2, <2>3 DEF InsertEvent
<1> QED
  BY <1>1, <1>2 DEF InsertEvent

(* So it keeps the order: it is above the relay's rows, and unsent.         *)
LEMMA InsertKeepsOrder ==
  ASSUME TableInv, OrderInv, NEW e \in Events, InsertNext(e)
  PROVE  OrderInv'
<1>1. PICK id \in Ids :
        /\ \A j \in Ids : status[j] # "none" <=> j < id
        /\ status[id] = "none"
        /\ outbox' = [outbox EXCEPT ![id] = e]
        /\ status' = [status EXCEPT ![id] = "pending"]
        /\ UNCHANGED <<log, relay, aborts>>
  BY InsertIsNewest DEF OrderInv
<1>2. /\ \A i \in Ids : i \in Nat
      /\ \A i \in Ids : status'[i] = IF i = id THEN "pending" ELSE status[i]
      /\ \A i \in Ids : i # id => outbox'[i] = outbox[i]
  BY <1>1, MaxIdAssumption DEF Ids, TableInv, OutboxTypeOK
<1>3. \A r \in Relays : relay'[r] = relay[r] /\ relay[r].batch \in SUBSET Ids /\ relay[r].sent \in SUBSET Ids /\ id \notin relay[r].batch
  BY <1>1 DEF TableInv, OutboxTypeOK, LocksHeld
<1>4. NoGaps'
  BY <1>1, <1>2 DEF NoGaps
<1>5. \A t \in Topics : log'[t] = log[t] /\ \A o \in 1..Len(log[t]) : log[t][o].key \in Ids /\ log[t][o].key # id
  BY <1>1, LogIsTyped DEF OrderInv, LogHoldsRows
<1>6. LogHoldsRows'
  BY <1>2, <1>5 DEF OrderInv, LogHoldsRows
<1>7. LowestFirst'
  <2>1. ASSUME NEW i \in Ids, NEW j \in Ids, i < j, status'[i] = "pending" PROVE status'[j] # "published"
    <3>1. CASE i = id
      BY <1>1, <1>2, <2>1, <3>1
    <3>2. CASE i # id
      BY <1>2, <2>1, <3>2 DEF OrderInv, LowestFirst
    <3> QED
      BY <3>1, <3>2
  <2>2. ASSUME NEW r \in Relays, NEW i \in relay'[r].batch, NEW j \in Ids \ relay'[r].batch, status'[j] = "pending"
        PROVE  i < j
    <3>1. i \in relay[r].batch /\ i \in Ids /\ status[i] # "none" /\ j \in Ids \ relay[r].batch
      BY <1>3, <2>2 DEF TableInv, LocksHeld
    <3> QED
      BY <1>1, <1>2, <2>2, <3>1 DEF OrderInv, LowestFirst
  <2> QED
    BY <2>1, <2>2 DEF LowestFirst
<1>8. SentInOrder'
  BY <1>2, <1>3 DEF OrderInv, SentInOrder
<1>9. ASSUME NEW t \in Topics, NEW o \in 1..Len(log'[t]), NEW j \in Ids,
             status'[j] # "none", outbox'[j].topic = t, log'[t][o].key < j
      PROVE  \/ Unsent(j)'
             \/ \E later \in (o + 1)..Len(log'[t]) : log'[t][later].key = j
  <2>1. CASE j = id
    BY <1>2, <1>3, <2>1 DEF Unsent, OrderInv, SentInOrder
  <2>2. CASE j # id
    <3>1. Unsent(j) => Unsent(j)'
      BY <1>2, <1>3, <2>2 DEF Unsent
    <3> QED
      BY <1>2, <1>5, <1>9, <2>2, <3>1 DEF OrderInv, LaterFollow
  <2> QED
    BY <2>1, <2>2
<1> QED
  BY <1>4, <1>6, <1>7, <1>8, <1>9 DEF OrderInv, LaterFollow

(* What ProduceRecord does to the log, spelled out.                         *)
LEMMA ProduceExtends ==
  ASSUME TableInv, NEW r \in Relays, NEW id \in relay[r].batch, ProduceRecord(r, id)
  PROVE  /\ id \in Ids /\ outbox[id] \in Events /\ outbox[id].topic \in Topics
         /\ \A t \in Topics \ {outbox[id].topic} : log'[t] = log[t]
         /\ Len(log'[outbox[id].topic]) = Len(log[outbox[id].topic]) + 1
         /\ log'[outbox[id].topic][Len(log[outbox[id].topic]) + 1].key = id
         /\ log'[outbox[id].topic][Len(log[outbox[id].topic]) + 1].value = outbox[id]
         /\ \A o \in 1..Len(log[outbox[id].topic]) :
              log'[outbox[id].topic][o] = log[outbox[id].topic][o]
<1>1. id \in Ids /\ outbox[id] \in Events /\ outbox[id].topic \in Topics
  BY EventsAssumption DEF TableInv, OutboxTypeOK, LocksHeld, RowsHeld
<1>2. PICK topic : topic = outbox[id].topic
  OBVIOUS
<1>3. PICK record : record = [key |-> id, value |-> outbox[id]]
  OBVIOUS
<1>3a. record \in [key : Ids, value : Events] /\ record.key = id /\ record.value = outbox[id]
  BY <1>1, <1>3
<1>4. PICK s \in Seq([key : Ids, value : Events]) : s = log[topic]
  BY <1>1, <1>2 DEF TableInv, OutboxTypeOK
<1>5. log' = [log EXCEPT ![topic] = Append(s, record)]
  BY <1>2, <1>3, <1>4 DEF ProduceRecord
<1>6. log'[topic] = Append(s, record) /\ \A t \in Topics \ {topic} : log'[t] = log[t]
  BY <1>1, <1>2, <1>5 DEF TableInv, OutboxTypeOK
<1>7. /\ Len(Append(s, record)) = Len(s) + 1
      /\ Append(s, record)[Len(s) + 1] = record
      /\ \A o \in 1..Len(s) : Append(s, record)[o] = s[o]
  BY <1>3a
<1> QED
  BY <1>1, <1>2, <1>3a, <1>4, <1>6, <1>7

(* The one relay sends its lowest row of a topic: what was inserted later   *)
(* is still unsent.                                                         *)
LEMMA ProduceKeepsOrder ==
  ASSUME TableInv, OrderInv, OneRelay, NEW r \in Relays, NEW id \in relay[r].batch, ProduceRecord(r, id)
  PROVE  OrderInv'
<1>1. PICK topic : topic = outbox[id].topic
  OBVIOUS
<1>2. /\ id \in Ids /\ outbox[id] \in Events /\ topic \in Topics
      /\ \A t \in Topics \ {topic} : log'[t] = log[t]
      /\ Len(log'[topic]) = Len(log[topic]) + 1
      /\ log'[topic][Len(log[topic]) + 1].key = id
      /\ log'[topic][Len(log[topic]) + 1].value = outbox[id]
      /\ \A o \in 1..Len(log[topic]) : log'[topic][o] = log[topic][o]
  BY <1>1, ProduceExtends
<1>3. /\ UNCHANGED <<outbox, status, aborts>>
      /\ relay' = [relay EXCEPT ![r].sent = @ \cup {id}]
      /\ id \in relay[r].batch \ relay[r].sent
      /\ \A x \in relay[r].batch \ relay[r].sent : outbox[x].topic = topic => id <= x
  BY <1>1 DEF ProduceRecord
<1>4. \A q \in Relays : /\ relay'[q].batch = relay[q].batch
                        /\ relay'[q].sent = IF q = r THEN relay[q].sent \cup {id} ELSE relay[q].sent
  BY <1>3 DEF TableInv, OutboxTypeOK
<1>5. \A q \in Relays : relay[q].batch \in SUBSET Ids /\ relay[q].sent \in SUBSET Ids
  BY DEF TableInv, OutboxTypeOK
<1>6. \A i \in Ids : i \in Nat
  BY MaxIdAssumption DEF Ids
<1>7. \A t \in Topics : Len(log[t]) \in Nat /\ \A o \in 1..Len(log[t]) : log[t][o].key \in Ids
  BY LogIsTyped
<1>8. status[id] = "pending"
  BY DEF TableInv, LocksHeld
<1>9. NoGaps' /\ LowestFirst'
  BY <1>3, <1>4 DEF OrderInv, NoGaps, LowestFirst
<1>10. LogHoldsRows'
  <2>1. ASSUME NEW t \in Topics, NEW o \in 1..Len(log'[t])
        PROVE  /\ status[log'[t][o].key] # "none"
               /\ log'[t][o].value = outbox[log'[t][o].key]
               /\ outbox[log'[t][o].key].topic = t
    <3>1. CASE t # topic \/ o \in 1..Len(log[t])
      BY <1>2, <2>1, <3>1 DEF OrderInv, LogHoldsRows
    <3>2. CASE t = topic /\ o = Len(log[t]) + 1
      BY <1>1, <1>2, <1>8, <3>2
    <3> QED
      BY <1>2, <1>7, <2>1, <3>1, <3>2
  <2> QED
    BY <1>3, <2>1 DEF OrderInv, LogHoldsRows
<1>11. SentInOrder'
  <2>1. ASSUME NEW q \in Relays, NEW i \in relay[q].batch, NEW j \in relay'[q].sent,
               i < j, outbox[i].topic = outbox[j].topic
        PROVE  i \in relay'[q].sent
    <3>1. CASE j \in relay[q].sent
      BY <1>4, <2>1, <3>1 DEF OrderInv, SentInOrder
    <3>2. CASE q = r /\ j = id
      BY <1>1, <1>2, <1>3, <1>4, <1>5, <1>6, <2>1, <3>2
    <3> QED
      BY <1>4, <2>1, <3>1, <3>2
  <2>2. \A q \in Relays : relay'[q].sent \subseteq relay'[q].batch
    BY <1>3, <1>4 DEF OrderInv, SentInOrder
  <2> QED
    BY <1>3, <1>4, <2>1, <2>2 DEF SentInOrder
<1>12. ASSUME NEW t \in Topics, NEW o \in 1..Len(log'[t]), NEW j \in Ids,
              status[j] # "none", outbox[j].topic = t, log'[t][o].key < j
       PROVE  \/ Unsent(j)'
              \/ \E later \in (o + 1)..Len(log'[t]) : log'[t][later].key = j
  <2>1. CASE t # topic \/ o \in 1..Len(log[t])
    <3>1. o \in 1..Len(log[t]) /\ log'[t][o] = log[t][o]
      BY <1>2, <1>12, <2>1
    <3>2. Unsent(j) \/ \E later \in (o + 1)..Len(log[t]) : log[t][later].key = j
      BY <1>12, <3>1 DEF OrderInv, LaterFollow
    <3>3. ASSUME NEW later \in (o + 1)..Len(log[t]), log[t][later].key = j
          PROVE  later \in (o + 1)..Len(log'[t]) /\ log'[t][later].key = j
      <4>1. later \in 1..Len(log[t])
        BY <1>7, <3>1
      <4> QED
        BY <1>2, <1>7, <3>1, <3>3, <4>1
    <3>4. CASE Unsent(j) /\ j # id
      BY <1>3, <1>4, <3>4 DEF Unsent
    <3>5. CASE j = id
      <4>1. t = topic /\ Len(log[t]) + 1 \in (o + 1)..Len(log'[t])
        BY <1>1, <1>2, <1>7, <1>12, <3>1, <3>5
      <4> QED
        BY <1>2, <3>5, <4>1
    <3> QED
      BY <3>2, <3>3, <3>4, <3>5
  <2>2. CASE t = topic /\ o = Len(log[t]) + 1
    <3>1. id < j
      BY <1>2, <1>12, <2>2
    <3>2. status[j] = "pending"
      BY <1>2, <1>8, <1>12, <3>1 DEF OrderInv, LowestFirst, LogHoldsRows, TableInv, OutboxTypeOK
    <3>3. \A q \in Relays : j \notin relay[q].sent
      <4>1. j \notin relay[r].sent
        BY <1>1, <1>3, <1>12, <2>2, <3>1 DEF OrderInv, SentInOrder
      <4> QED
        BY <4>1 DEF OneRelay
    <3> QED
      BY <1>3, <1>4, <1>6, <3>1, <3>2, <3>3 DEF Unsent
  <2> QED
    BY <1>2, <1>7, <1>12, <2>1, <2>2
<1> QED
  BY <1>3, <1>9, <1>10, <1>11, <1>12 DEF OrderInv, LaterFollow

(* A batch is of the lowest rows, all of them unsent.                       *)
LEMMA SelectKeepsOrder ==
  ASSUME TableInv, OrderInv, OneRelay, NEW r \in Relays, SelectUnpublished(r)
  PROVE  OrderInv'
<1>1. PICK S \in SUBSET Unlocked :
        /\ \A id \in S, other \in Unlocked \ S : id < other
        /\ relay' = [relay EXCEPT ![r].batch = S]
  BY DEF SelectUnpublished
<1>2. relay[r] = Idle /\ UNCHANGED <<log, outbox, status, aborts>>
  BY DEF SelectUnpublished
<1>3. \A q \in Relays : q = r /\ relay[q].batch = {} /\ relay[q].sent = {}
  BY <1>2 DEF OneRelay, Idle
<1>4. \A q \in Relays : relay'[q].batch = S /\ relay'[q].sent = {}
  BY <1>1, <1>3 DEF TableInv, OutboxTypeOK
<1>5. \A id \in Ids : id \in Unlocked <=> status[id] = "pending"
  BY <1>3 DEF Unlocked
<1>6. NoGaps' /\ LogHoldsRows'
  BY <1>2 DEF OrderInv, NoGaps, LogHoldsRows
<1>7. LowestFirst'
  BY <1>1, <1>2, <1>4, <1>5 DEF OrderInv, LowestFirst
<1>8. SentInOrder'
  BY <1>4 DEF SentInOrder
<1>9. \A j \in Ids : Unsent(j) => Unsent(j)'
  BY <1>2, <1>4 DEF Unsent
<1>10. LaterFollow'
  BY <1>2, <1>9 DEF OrderInv, LaterFollow
<1> QED
  BY <1>6, <1>7, <1>8, <1>10 DEF OrderInv

(* All of the batch is sent when it is marked: what is unsent stays so.     *)
LEMMA MarkKeepsOrder ==
  ASSUME TableInv, OrderInv, OneRelay, NEW r \in Relays, MarkPublished(r)
  PROVE  OrderInv' /\ \A j \in Ids : Unsent(j) => Unsent(j)'
<1>1. /\ relay[r].sent = relay[r].batch
      /\ status' = [id \in Ids |-> IF id \in relay[r].batch THEN "published" ELSE status[id]]
      /\ relay' = [relay EXCEPT ![r] = Idle]
      /\ UNCHANGED <<log, outbox, aborts>>
  BY DEF MarkPublished
<1>2. \A q \in Relays : q = r /\ relay'[q].batch = {} /\ relay'[q].sent = {}
  BY <1>1 DEF OneRelay, Idle, TableInv, OutboxTypeOK
<1>3. \A id \in Ids : status'[id] = IF id \in relay[r].batch THEN "published" ELSE status[id]
  BY <1>1
<1>4. \A id \in relay[r].batch : id \in Ids /\ status[id] = "pending"
  BY DEF TableInv, OutboxTypeOK, LocksHeld
<1>5. \A j \in Ids : Unsent(j) => Unsent(j)'
  BY <1>1, <1>2, <1>3 DEF Unsent
<1>6. NoGaps'
  BY <1>3, <1>4 DEF OrderInv, NoGaps
<1>7. LogHoldsRows'
  <2>1. \A t \in Topics : \A o \in 1..Len(log[t]) : log[t][o].key \in Ids
    BY LogIsTyped
  <2> QED
    BY <1>1, <1>3, <2>1 DEF OrderInv, LogHoldsRows
<1>8. LowestFirst'
  <2>1. ASSUME NEW i \in Ids, NEW j \in Ids, i < j, status'[i] = "pending" PROVE status'[j] # "published"
    <3>1. i \notin relay[r].batch /\ status[i] = "pending" /\ status[j] # "published"
      BY <1>3, <2>1 DEF OrderInv, LowestFirst
    <3>2. j \notin relay[r].batch
      <4>1. j \in relay[r].batch => j < i
        BY <3>1 DEF OrderInv, LowestFirst
      <4>2. i \in Nat /\ j \in Nat
        BY MaxIdAssumption DEF Ids
      <4> QED
        BY <2>1, <4>1, <4>2
    <3> QED
      BY <1>3, <3>1, <3>2
  <2> QED
    BY <1>2, <2>1 DEF LowestFirst
<1>9. SentInOrder'
  BY <1>2 DEF SentInOrder
<1>10. LaterFollow'
  <2>1. \A j \in Ids : status'[j] # "none" => status[j] # "none"
    BY <1>3, <1>4
  <2> QED
    BY <1>1, <1>5, <2>1 DEF OrderInv, LaterFollow
<1> QED
  BY <1>5, <1>6, <1>7, <1>8, <1>9, <1>10 DEF OrderInv

(* After a roll-back everything that is pending is unsent.                  *)
LEMMA AbortKeepsOrder ==
  ASSUME TableInv, OrderInv, OneRelay, NEW r \in Relays, AbortBatch(r)
  PROVE  OrderInv' /\ \A j \in Ids : Unsent(j) => Unsent(j)'
<1>1. relay' = [relay EXCEPT ![r] = Idle] /\ UNCHANGED <<log, outbox, status>>
  BY DEF AbortBatch
<1>2. \A q \in Relays : relay'[q].batch = {} /\ relay'[q].sent = {}
  BY <1>1 DEF OneRelay, Idle, TableInv, OutboxTypeOK
<1>3. \A j \in Ids : Unsent(j) => Unsent(j)'
  BY <1>1, <1>2 DEF Unsent
<1>4. NoGaps' /\ LogHoldsRows' /\ LowestFirst' /\ SentInOrder'
  BY <1>1, <1>2 DEF OrderInv, NoGaps, LogHoldsRows, LowestFirst, SentInOrder
<1>5. LaterFollow'
  BY <1>1, <1>3 DEF OrderInv, LaterFollow
<1> QED
  BY <1>3, <1>4, <1>5 DEF OrderInv

(* The relay keeps the order in every step.                                 *)
LEMMA RelayKeepsOrder ==
  ASSUME TableInv, OrderInv, OneRelay, NEW r \in Relays, RelayNext(r)
  PROVE  OrderInv'
BY ProduceKeepsOrder, SelectKeepsOrder, MarkKeepsOrder, AbortKeepsOrder DEF RelayNext

-----------------------------------------------------------------------------
(* Where there is one consumer, a record is to come until it is handled,    *)
(* and the records of a topic come in their order: after a poll all that    *)
(* follows the next record to be handled is in its hands, or not yet        *)
(* polled.                                                                  *)
OneConsumer == \A c, d \in Consumers : c = d

HandsInOrder ==
  \A t \in Topics :
    /\ committed[t] <= Len(log[t])
    /\ owner[t] # Nobody => committed[t] <= position[t] /\ position[t] <= Len(log[t])
    /\ \A c \in Consumers : \A o \in batch[c][t] :
         /\ owner[t] = c
         /\ committed[t] < o /\ o <= position[t]
         /\ o..position[t] \subseteq batch[c][t]

ToCome(t) ==
  {o \in 1..Len(log[t]) :
     \/ owner[t] = Nobody /\ o > committed[t]
     \/ owner[t] # Nobody /\ (o > position[t] \/ \E c \in Consumers : o \in batch[c][t])}

(* An event that the consumer will be handed, for the first time or again.  *)
OnItsWay(id) == Unsent(id) \/ \E t \in Topics : \E o \in ToCome(t) : log[t][o].key = id

(* Nothing the group does without a handler takes a record out of what is   *)
(* to come.                                                                 *)
LEMMA ControlKeepsHands ==
  ASSUME TableInv, GroupTypeOK, OffsetsInLog, PollEmptyHanded, HandsInOrder, OneConsumer, GroupControl, UNCHANGED log
  PROVE  HandsInOrder' /\ \A t \in Topics : ToCome(t) \subseteq ToCome(t)'
<1> USE NobodyAssumption
<1>0. \A t \in Topics : Len(log[t]) \in Nat /\ position[t] \in Nat /\ committed[t] \in Nat /\ log'[t] = log[t]
  BY LogIsTyped DEF GroupTypeOK
<1>1. ASSUME NEW t \in Topics, NEW c \in Consumers, Assign(t, c)
      PROVE  HandsInOrder' /\ \A x \in Topics : ToCome(x) \subseteq ToCome(x)'
  <2>1. owner[t] = Nobody
    BY <1>1 DEF Assign, GroupTypeOK, OneConsumer
  <2>2. \A d \in Consumers : batch[d][t] = {}
    BY <2>1 DEF HandsInOrder
  <2>3. UNCHANGED <<committed, batch>>
    BY <1>1 DEF Assign
  <2>4. /\ owner'[t] = c /\ position'[t] = committed[t]
        /\ \A x \in Topics : x # t => owner'[x] = owner[x] /\ position'[x] = position[x]
    BY <1>1 DEF Assign, GroupTypeOK
  <2>5. ASSUME NEW x \in Topics, x # t
        PROVE  /\ ToCome(x)' = ToCome(x)
               /\ committed'[x] <= Len(log'[x])
               /\ owner'[x] # Nobody => committed'[x] <= position'[x] /\ position'[x] <= Len(log'[x])
               /\ \A d \in Consumers : \A o \in batch'[d][x] :
                    /\ owner'[x] = d
                    /\ committed'[x] < o /\ o <= position'[x]
                    /\ o..position'[x] \subseteq batch'[d][x]
    BY <1>0, <2>3, <2>4, <2>5 DEF HandsInOrder, ToCome
  <2>6. ToCome(t) \subseteq ToCome(t)'
    BY <1>0, <2>1, <2>3, <2>4 DEF ToCome
  <2>7. HandsInOrder'
    BY <1>0, <2>2, <2>3, <2>4, <2>5 DEF HandsInOrder
  <2> QED
    BY <2>5, <2>6, <2>7
<1>2. ASSUME NEW c \in Consumers, PollFetches(c)
      PROVE  HandsInOrder' /\ \A x \in Topics : ToCome(x) \subseteq ToCome(x)'
  <2>1. PICK upto \in [Topics -> 0..MaxRecords] :
          /\ \A t \in Topics : /\ position[t] <= upto[t] /\ upto[t] <= Len(log[t])
                               /\ owner[t] # c => upto[t] = position[t]
          /\ batch' = [batch EXCEPT ![c] = [t \in Topics |-> (position[t] + 1)..upto[t]]]
          /\ position' = upto
    BY <1>2 DEF PollFetches
  <2>2. UNCHANGED <<owner, committed>> /\ \A d \in Consumers : d = c
    BY <1>2 DEF PollFetches, OneConsumer
  <2>3. \A d \in Consumers, t \in Topics : batch[d][t] = {} /\ batch'[d][t] = (position[t] + 1)..upto[t]
    BY <1>2, <2>1, <2>2 DEF PollFetches, PollEmptyHanded, NoRecords, GroupTypeOK
  <2>4. \A t \in Topics : upto[t] \in Nat
    BY <2>1, MaxRecordsIsNat
  <2>5. ASSUME NEW t \in Topics
        PROVE  /\ committed'[t] <= Len(log'[t])
               /\ owner'[t] # Nobody => committed'[t] <= position'[t] /\ position'[t] <= Len(log'[t])
               /\ \A d \in Consumers : \A o \in batch'[d][t] :
                    /\ owner'[t] = d
                    /\ committed'[t] < o /\ o <= position'[t]
                    /\ o..position'[t] \subseteq batch'[d][t]
    <3>1. /\ committed[t] <= Len(log[t])
          /\ owner[t] # Nobody => committed[t] <= position[t]
      BY DEF HandsInOrder
    <3>2. ASSUME NEW d \in Consumers, NEW o \in batch'[d][t]
          PROVE  owner[t] = d /\ committed[t] < o /\ o <= upto[t] /\ o..upto[t] \subseteq batch'[d][t]
      <4>1. o \in (position[t] + 1)..upto[t] /\ batch'[d][t] = (position[t] + 1)..upto[t]
        BY <2>3, <3>2
      <4>2. owner[t] = d
        BY <1>0, <2>1, <2>2, <2>4, <4>1
      <4> QED
        BY <1>0, <2>4, <3>1, <4>1, <4>2
    <3> QED
      BY <1>0, <2>1, <2>2, <2>4, <3>1, <3>2
  <2>6. ASSUME NEW t \in Topics, NEW o \in ToCome(t) PROVE o \in ToCome(t)'
    <3>1. o \in 1..Len(log[t])
      BY DEF ToCome
    <3>2. CASE owner[t] = Nobody
      BY <1>0, <2>2, <3>1, <3>2, <2>6 DEF ToCome
    <3>3. CASE owner[t] # Nobody
      <4>1. o > position[t]
        BY <2>3, <2>6, <3>3 DEF ToCome
      <4>2. o > upto[t] \/ o \in batch'[c][t]
        BY <1>0, <2>3, <2>4, <3>1, <4>1
      <4> QED
        BY <1>0, <2>1, <2>2, <3>1, <3>3, <4>2 DEF ToCome
    <3> QED
      BY <3>2, <3>3
  <2> QED
    BY <2>5, <2>6 DEF HandsInOrder
<1>3. ASSUME NEW c \in Consumers, CommitOffsets(c)
      PROVE  HandsInOrder' /\ \A x \in Topics : ToCome(x) \subseteq ToCome(x)'
  <2>1. /\ batch[c] = NoRecords /\ UNCHANGED <<owner, position, batch>>
        /\ \A t \in Topics : committed'[t] = IF owner[t] = c THEN position[t] ELSE committed[t]
    BY <1>3 DEF CommitOffsets
  <2>2. \A d \in Consumers, t \in Topics : batch'[d][t] = {}
    BY <2>1 DEF OneConsumer, NoRecords
  <2>3. \A t \in Topics : owner[t] \in {Nobody, c}
    BY DEF GroupTypeOK, OneConsumer
  <2>4. HandsInOrder'
    BY <1>0, <2>1, <2>2, <2>3 DEF HandsInOrder
  <2>5. \A t \in Topics : ToCome(t) \subseteq ToCome(t)'
    BY <1>0, <2>1, <2>3 DEF ToCome
  <2> QED
    BY <2>4, <2>5
<1>4. ASSUME NEW c \in Consumers, CommitFails(c)
      PROVE  HandsInOrder' /\ \A x \in Topics : ToCome(x) \subseteq ToCome(x)'
  BY <1>0, <1>4 DEF CommitFails, HandsInOrder, ToCome
<1>5. ASSUME NEW c \in Consumers, Crash(c)
      PROVE  HandsInOrder' /\ \A x \in Topics : ToCome(x) \subseteq ToCome(x)'
  <2>1. /\ UNCHANGED <<committed, position>> /\ \A d \in Consumers : d = c
        /\ \A t \in Topics : owner'[t] = Nobody
    BY <1>5 DEF Crash, GroupTypeOK, OneConsumer
  <2>2. \A d \in Consumers, t \in Topics : batch'[d][t] = {}
    BY <1>5, <2>1 DEF Crash, GroupTypeOK, NoRecords
  <2>3. HandsInOrder'
    BY <1>0, <2>1, <2>2 DEF HandsInOrder
  <2>4. ASSUME NEW t \in Topics, NEW o \in ToCome(t) PROVE o \in ToCome(t)'
    <3>1. o \in 1..Len(log[t]) /\ o > committed[t]
      BY <1>0, <2>4 DEF ToCome, HandsInOrder
    <3> QED
      BY <1>0, <2>1, <3>1 DEF ToCome
  <2> QED
    BY <2>3, <2>4
<1> QED
  BY <1>1, <1>2, <1>3, <1>4, <1>5 DEF GroupControl

(* A handler takes one record out, the first of its topic that it holds.    *)
LEMMA HandlingKeepsHands ==
  ASSUME TableInv, GroupTypeOK, HandsInOrder, NEW c \in Consumers, NEW t \in Topics, NEW o \in batch[c][t],
         HandleRecord(c, t, o), UNCHANGED log
  PROVE  HandsInOrder' /\ \A x \in Topics : ToCome(x) \subseteq ToCome(x)' \cup (IF x = t THEN {o} ELSE {})
<1>1. \A x \in Topics : Len(log[x]) \in Nat /\ position[x] \in Nat /\ committed[x] \in Nat /\ log'[x] = log[x]
  BY LogIsTyped DEF GroupTypeOK
<1>2. UNCHANGED <<owner, committed, position>> /\ \A other \in batch[c][t] : o <= other
  BY DEF HandleRecord
<1>3. \A d \in Consumers, x \in Topics :
        batch'[d][x] = IF d = c /\ x = t THEN batch[d][x] \ {o} ELSE batch[d][x]
  BY DEF HandleRecord, GroupTypeOK
<1>4. ASSUME NEW x \in Topics, NEW d \in Consumers, NEW p \in batch'[d][x]
      PROVE  p..position[x] \subseteq batch'[d][x]
  <2>1. p \in batch[d][x] /\ p..position[x] \subseteq batch[d][x] /\ p \in Nat
    <3>1. p \in batch[d][x] /\ batch[d][x] \in SUBSET Nat
      BY <1>3, <1>4 DEF GroupTypeOK
    <3> QED
      BY <3>1 DEF HandsInOrder
  <2>2. CASE d = c /\ x = t
    <3>1. o <= p /\ p # o /\ o \in Nat
      BY <1>2, <1>3, <1>4, <2>1, <2>2 DEF GroupTypeOK
    <3>2. o \notin p..position[x]
      BY <2>1, <3>1
    <3> QED
      BY <1>3, <2>1, <2>2, <3>2
  <2>3. CASE ~(d = c /\ x = t)
    BY <1>3, <2>1, <2>3
  <2> QED
    BY <2>2, <2>3
<1>5. \A d \in Consumers, x \in Topics : batch'[d][x] \subseteq batch[d][x]
  BY <1>3
<1>6. HandsInOrder'
  BY <1>1, <1>2, <1>4, <1>5 DEF HandsInOrder
<1>7. ASSUME NEW x \in Topics, NEW p \in ToCome(x), ~(x = t /\ p = o) PROVE p \in ToCome(x)'
  BY <1>1, <1>2, <1>3, <1>7 DEF ToCome
<1> QED
  BY <1>6, <1>7

(* While the log grows at its end, what is to come stays so.                *)
LEMMA GrowthKeepsHands ==
  ASSUME TableInv, TableInv', GroupTypeOK, HandsInOrder, LogGrows, UNCHANGED groupVars
  PROVE  HandsInOrder' /\ \A t \in Topics : ToCome(t) \subseteq ToCome(t)'
<1>1. \A t \in Topics : Len(log[t]) \in Nat /\ Len(log'[t]) \in Nat
  <2>1. \A t \in Topics : Len(log[t]) \in Nat
    BY LogIsTyped
  <2>2. ASSUME NEW t \in Topics PROVE Len(log'[t]) \in Nat
    <3>1. PICK s \in Seq([key : Ids, value : Events]) : s = log'[t]
      BY DEF TableInv, OutboxTypeOK
    <3> QED
      BY <3>1, LenProperties
  <2> QED
    BY <2>1, <2>2
<1>2. \A t \in Topics : Len(log[t]) <= Len(log'[t])
  <2> SUFFICES ASSUME NEW t \in Topics PROVE Len(log[t]) <= Len(log'[t])
    OBVIOUS
  <2>1. CASE Len(log[t]) = 0
    BY <1>1, <2>1
  <2>2. CASE Len(log[t]) # 0
    <3>1. Len(log[t]) \in 1..Len(log[t])
      BY <1>1, <2>2
    <3>2. Len(log[t]) \in 1..Len(log'[t])
      BY <3>1 DEF LogGrows
    <3> QED
      BY <3>2, <1>1
  <2> QED
    BY <2>1, <2>2
<1>3. \A t \in Topics : position[t] \in Nat /\ committed[t] \in Nat
  BY DEF GroupTypeOK
<1>4. HandsInOrder'
  BY <1>1, <1>2, <1>3 DEF HandsInOrder, groupVars
<1>5. \A t \in Topics : ToCome(t) \subseteq ToCome(t)'
  BY <1>1, <1>2, <1>3 DEF ToCome, groupVars
<1> QED
  BY <1>4, <1>5

(* What is on its way stays there while rows are inserted; the new one is   *)
(* on its way.                                                              *)
LEMMA InsertKeepsComing ==
  ASSUME TableInv, TableInv', GroupTypeOK, OrderInv, HandsInOrder, NEW e \in Events, InsertNext(e), UNCHANGED groupVars
  PROVE  /\ HandsInOrder'
         /\ \A j \in Ids : OnItsWay(j) => OnItsWay(j)'
         /\ \E id \in Ids :
              /\ \A j \in Ids : status[j] # "none" <=> j < id
              /\ status[id] = "none" /\ outbox' = [outbox EXCEPT ![id] = e]
              /\ status' = [status EXCEPT ![id] = "pending"]
              /\ OnItsWay(id)'
<1>1. PICK id \in Ids :
        /\ \A j \in Ids : status[j] # "none" <=> j < id
        /\ status[id] = "none"
        /\ outbox' = [outbox EXCEPT ![id] = e]
        /\ status' = [status EXCEPT ![id] = "pending"]
        /\ UNCHANGED <<log, relay, aborts>>
  BY InsertIsNewest DEF OrderInv
<1>2. LogGrows
  BY <1>1, LogUnchanged
<1>3. HandsInOrder' /\ \A t \in Topics : ToCome(t) \subseteq ToCome(t)'
  BY <1>2, GrowthKeepsHands
<1>4. \A r \in Relays : relay[r].sent \subseteq relay[r].batch /\ relay'[r] = relay[r] /\ id \notin relay[r].batch
  BY <1>1 DEF OrderInv, SentInOrder, TableInv, LocksHeld
<1>5. \A j \in Ids : status'[j] = IF j = id THEN "pending" ELSE status[j]
  BY <1>1 DEF TableInv, OutboxTypeOK
<1>6. Unsent(id)'
  BY <1>4, <1>5 DEF Unsent
<1>7. ASSUME NEW j \in Ids, OnItsWay(j) PROVE OnItsWay(j)'
  <2>1. Unsent(j) => Unsent(j)'
    BY <1>1, <1>4, <1>5 DEF Unsent
  <2> QED
    BY <1>1, <1>3, <1>7, <2>1 DEF OnItsWay
<1> QED
  BY <1>1, <1>3, <1>6, <1>7 DEF OnItsWay

(* It stays there while the relay works: what it sends is appended.         *)
LEMMA RelayKeepsComing ==
  ASSUME TableInv, TableInv', GroupTypeOK, OrderInv, HandsInOrder, OneRelay,
         NEW r \in Relays, RelayNext(r), UNCHANGED groupVars
  PROVE  HandsInOrder' /\ \A j \in Ids : OnItsWay(j) => OnItsWay(j)'
<1>1. LogGrows
  BY OutboxGrowsLog DEF OutboxNext, OutboxMaintenance
<1>2. HandsInOrder' /\ \A t \in Topics : ToCome(t) \subseteq ToCome(t)'
  BY <1>1, GrowthKeepsHands
<1>3. ASSUME NEW j \in Ids, NEW t \in Topics, NEW o \in ToCome(t), log[t][o].key = j
      PROVE  OnItsWay(j)'
  <2>1. o \in 1..Len(log[t])
    BY DEF ToCome
  <2>2. log'[t][o] = log[t][o] /\ o \in ToCome(t)'
    BY <1>1, <1>2, <2>1 DEF LogGrows
  <2> QED
    BY <1>3, <2>2 DEF OnItsWay
<1>4. ASSUME NEW j \in Ids, Unsent(j) PROVE OnItsWay(j)'
  <2>1. CASE SelectUnpublished(r)
    <3>1. UNCHANGED status /\ \E S : relay' = [relay EXCEPT ![r].batch = S]
      BY <2>1 DEF SelectUnpublished
    <3>2. \A q \in Relays : relay'[q].sent = relay[q].sent
      BY <3>1 DEF TableInv, OutboxTypeOK
    <3> QED
      BY <1>4, <3>1, <3>2 DEF Unsent, OnItsWay
  <2>2. ASSUME NEW id \in relay[r].batch, ProduceRecord(r, id) PROVE OnItsWay(j)'
    <3>1. PICK t : t = outbox[id].topic
      OBVIOUS
    <3>2. t \in Topics /\ Len(log'[t]) = Len(log[t]) + 1 /\ log'[t][Len(log[t]) + 1].key = id
      BY <2>2, <3>1, ProduceExtends
    <3>3. UNCHANGED status /\ relay' = [relay EXCEPT ![r].sent = @ \cup {id}]
      BY <2>2 DEF ProduceRecord
    <3>4. CASE j = id
      <4>1. Len(log[t]) \in Nat /\ committed[t] \in Nat /\ position[t] \in Nat
        BY <3>2, LogIsTyped DEF GroupTypeOK
      <4>2. Len(log[t]) + 1 \in ToCome(t)'
        BY <3>2, <4>1 DEF HandsInOrder, ToCome, groupVars
      <4> QED
        BY <3>2, <3>4, <4>2 DEF OnItsWay
    <3>5. CASE j # id
      <4>1. \A q \in Relays : j \notin relay'[q].sent
        BY <1>4, <3>3, <3>5 DEF Unsent, TableInv, OutboxTypeOK
      <4> QED
        BY <1>4, <3>3, <4>1 DEF Unsent, OnItsWay
    <3> QED
      BY <3>4, <3>5
  <2>3. CASE MarkPublished(r) \/ AbortBatch(r)
    BY <1>4, <2>3, MarkKeepsOrder, AbortKeepsOrder DEF OnItsWay
  <2> QED
    BY <2>1, <2>2, <2>3 DEF RelayNext
<1> QED
  BY <1>2, <1>3, <1>4 DEF OnItsWay

(* It stays there in the hands of the group ...                             *)
LEMMA ControlKeepsComing ==
  ASSUME TableInv, GroupTypeOK, OffsetsInLog, PollEmptyHanded, HandsInOrder, OneConsumer,
         GroupControl, UNCHANGED outboxVars
  PROVE  HandsInOrder' /\ \A j \in Ids : OnItsWay(j) => OnItsWay(j)'
<1>1. UNCHANGED <<log, status, relay>>
  BY DEF outboxVars
<1>2. HandsInOrder' /\ \A t \in Topics : ToCome(t) \subseteq ToCome(t)'
  BY <1>1, ControlKeepsHands
<1> QED
  BY <1>1, <1>2 DEF OnItsWay, Unsent

(* ... until its record is handled.                                         *)
LEMMA HandlingKeepsComing ==
  ASSUME TableInv, GroupTypeOK, HandsInOrder, NEW c \in Consumers, NEW t \in Topics, NEW o \in batch[c][t],
         HandleRecord(c, t, o), UNCHANGED outboxVars
  PROVE  HandsInOrder' /\ \A j \in Ids : OnItsWay(j) /\ log[t][o].key # j => OnItsWay(j)'
<1>1. UNCHANGED <<log, status, relay>>
  BY DEF outboxVars
<1>2. HandsInOrder' /\ \A x \in Topics : ToCome(x) \subseteq ToCome(x)' \cup (IF x = t THEN {o} ELSE {})
  BY <1>1, HandlingKeepsHands
<1>3. ASSUME NEW j \in Ids, NEW x \in Topics, NEW p \in ToCome(x), log[x][p].key = j, log[t][o].key # j
      PROVE  OnItsWay(j)'
  <2>1. p \in ToCome(x)'
    BY <1>2, <1>3
  <2> QED
    BY <1>1, <1>3, <2>1 DEF OnItsWay
<1> QED
  BY <1>1, <1>2, <1>3 DEF OnItsWay, Unsent

(* A record at the head of what the consumer holds of a topic has not been  *)
(* overtaken: the rows of its topic that were inserted after it are all on  *)
(* their way, whatever was handled before.                                  *)
LEMMA LaterAreComing ==
  ASSUME TableInv, GroupTypeOK, OffsetsInLog, OrderInv, HandsInOrder,
         NEW c \in Consumers, NEW t \in Topics, NEW o \in batch[c][t],
         NEW j \in Ids, status[j] # "none", outbox[j].topic = t, log[t][o].key < j
  PROVE  OnItsWay(j)
<1>1. /\ o \in 1..Len(log[t]) /\ Len(log[t]) \in Nat /\ position[t] \in Nat
      /\ owner[t] = c /\ owner[t] # Nobody /\ o <= position[t] /\ o..position[t] \subseteq batch[c][t]
  BY LogIsTyped, NobodyAssumption DEF OffsetsInLog, HandsInOrder, GroupTypeOK
<1>2. CASE Unsent(j)
  BY <1>2 DEF OnItsWay
<1>3. ASSUME NEW later \in (o + 1)..Len(log[t]), log[t][later].key = j
      PROVE  OnItsWay(j)
  <2>1. later \in 1..Len(log[t]) /\ (later > position[t] \/ later \in o..position[t])
    BY <1>1
  <2>2. later \in ToCome(t)
    BY <1>1, <2>1 DEF ToCome
  <2> QED
    BY <1>3, <2>2 DEF OnItsWay
<1> QED
  BY <1>1, <1>2, <1>3 DEF OrderInv, LaterFollow

(* When everything has settled nothing is on its way.                       *)
LEMMA SettledIsOver ==
  ASSUME GroupTypeOK, HandsInOrder, Settled, NEW j \in Ids
  PROVE  ~OnItsWay(j)
<1>1. \A t \in Topics : committed[t] = Len(log[t]) /\ \A c \in Consumers : batch[c][t] = {}
  BY DEF Settled, NoRecords
<1>2. \A t \in Topics : committed[t] \in Nat /\ position[t] \in Nat
  BY DEF GroupTypeOK
<1>3. \A t \in Topics : ToCome(t) = {}
  BY <1>1, <1>2 DEF ToCome, HandsInOrder
<1> QED
  BY <1>3 DEF OnItsWay, Unsent, Settled

(* At the start there is nothing out of order.                              *)
LEMMA OrderInitial == PipelineInit => OrderInv /\ HandsInOrder
<1> SUFFICES ASSUME PipelineInit PROVE OrderInv /\ HandsInOrder
  OBVIOUS
<1>1. \A t \in Topics : Len(log[t]) = 0 /\ 1..Len(log[t]) = {}
  BY DEF PipelineInit, OutboxInit
<1>2. /\ \A id \in Ids : status[id] = "none"
      /\ \A r \in Relays : relay[r].batch = {} /\ relay[r].sent = {}
  BY DEF PipelineInit, OutboxInit, Idle
<1>3. OrderInv
  BY <1>1, <1>2 DEF OrderInv, NoGaps, LogHoldsRows, LowestFirst, SentInOrder, LaterFollow
<1>4. HandsInOrder
  BY <1>1 DEF PipelineInit, GroupInit, NoRecords, HandsInOrder
<1> QED
  BY <1>3, <1>4

-----------------------------------------------------------------------------
(* What the consumers' modules say of events: that one of a set of events   *)
(* was inserted as row id, that one is on its way, and that each of a set   *)
(* has been superseded by a later one of another.                           *)
Has(id, S) == status[id] # "none" /\ outbox[id] \in S
Coming(S) == \E id \in Ids : Has(id, S) /\ OnItsWay(id)
Superseded(S, T) == \A i \in Ids : Has(i, S) => \E j \in Ids : i < j /\ Has(j, T)

(* All that these lemmas need of the pipeline.                              *)
InOrder == IInv /\ OrderInv /\ HandsInOrder

(* A new event is the latest of all, and on its way.                        *)
LEMMA EventInserted ==
  ASSUME InOrder, IInv', NEW e \in Events, InsertNext(e), UNCHANGED groupVars
  PROVE  /\ \A S : e \in S \/ Coming(S) => Coming(S)'
         /\ \A S, T : e \in T /\ e \notin S => Superseded(S, T)'
         /\ \A S, T : e \notin S /\ Superseded(S, T) => Superseded(S, T)'
         /\ \A S : \A i \in Ids : Has(i, S)' => Has(i, S) \/ e \in S
<1>1. TableInv /\ TableInv' /\ GroupTypeOK /\ OrderInv /\ HandsInOrder
  BY DEF InOrder, IInv, PipelineTypes, TableInv
<1>2. /\ \A j \in Ids : OnItsWay(j) => OnItsWay(j)'
      /\ \E id \in Ids :
           /\ \A j \in Ids : status[j] # "none" <=> j < id
           /\ status[id] = "none" /\ outbox' = [outbox EXCEPT ![id] = e]
           /\ status' = [status EXCEPT ![id] = "pending"]
           /\ OnItsWay(id)'
  BY <1>1, InsertKeepsComing
<1>3. PICK id \in Ids :
        /\ \A j \in Ids : status[j] # "none" <=> j < id
        /\ status[id] = "none" /\ outbox' = [outbox EXCEPT ![id] = e]
        /\ status' = [status EXCEPT ![id] = "pending"]
        /\ OnItsWay(id)'
  BY <1>2
<1>4. /\ status'[id] = "pending" /\ outbox'[id] = e
      /\ \A j \in Ids : j # id => status'[j] = status[j] /\ outbox'[j] = outbox[j]
  BY <1>1, <1>3 DEF TableInv, OutboxTypeOK
<1>5. \A S : \A j \in Ids : Has(j, S)' <=> IF j = id THEN e \in S ELSE Has(j, S)
  BY <1>4 DEF Has
<1>6. \A S : \A j \in Ids : Has(j, S) => j < id /\ j # id /\ Has(j, S)'
  BY <1>3, <1>5 DEF Has
<1>7. ASSUME NEW S, e \in S \/ Coming(S) PROVE Coming(S)'
  BY <1>2, <1>3, <1>5, <1>6, <1>7 DEF Coming
<1>8. ASSUME NEW S, NEW T, e \in T, e \notin S PROVE Superseded(S, T)'
  BY <1>5, <1>6, <1>8 DEF Superseded
<1>9. ASSUME NEW S, NEW T, e \notin S, Superseded(S, T) PROVE Superseded(S, T)'
  BY <1>5, <1>6, <1>9 DEF Superseded
<1>10. ASSUME NEW S, NEW i \in Ids, Has(i, S)' PROVE Has(i, S) \/ e \in S
  BY <1>5, <1>10
<1> QED
  BY <1>7, <1>8, <1>9, <1>10

(* The relay and the group leave the events alone ...                       *)
LEMMA EventsRelayed ==
  ASSUME InOrder, IInv', OneRelay, NEW r \in Relays, RelayNext(r), UNCHANGED groupVars
  PROVE  /\ \A S : Coming(S) => Coming(S)'
         /\ \A S, T : Superseded(S, T) => Superseded(S, T)'
         /\ \A S : \A i \in Ids : Has(i, S)' => Has(i, S)
<1>1. TableInv /\ TableInv' /\ GroupTypeOK /\ OrderInv /\ HandsInOrder
  BY DEF InOrder, IInv, PipelineTypes, TableInv
<1>2. \A j \in Ids : OnItsWay(j) => OnItsWay(j)'
  BY <1>1, RelayKeepsComing
<1>3. UNCHANGED outbox
  BY DEF RelayNext, SelectUnpublished, ProduceRecord, MarkPublished, AbortBatch
<1>4. \A j \in Ids : status'[j] # "none" <=> status[j] # "none"
  <2>1. CASE MarkPublished(r)
    <3>1. \A j \in Ids : status'[j] = IF j \in relay[r].batch THEN "published" ELSE status[j]
      BY <2>1 DEF MarkPublished
    <3> QED
      BY <1>1, <3>1 DEF TableInv, LocksHeld
  <2>2. CASE ~MarkPublished(r)
    BY <2>2 DEF RelayNext, SelectUnpublished, ProduceRecord, AbortBatch
  <2> QED
    BY <2>1, <2>2
<1>5. \A S : \A j \in Ids : Has(j, S)' <=> Has(j, S)
  BY <1>3, <1>4 DEF Has
<1> QED
  BY <1>2, <1>5 DEF Coming, Superseded

(* What a group does without touching the outbox keeps what is coming and   *)
(* what is superseded.                                                      *)
LEMMA EventsPolled ==
  ASSUME InOrder, OneConsumer, GroupControl, UNCHANGED outboxVars
  PROVE  /\ \A S : Coming(S) => Coming(S)'
         /\ \A S, T : Superseded(S, T) => Superseded(S, T)'
         /\ \A S : \A i \in Ids : Has(i, S)' => Has(i, S)
<1>1. \A j \in Ids : OnItsWay(j) => OnItsWay(j)'
  BY ControlKeepsComing DEF InOrder, IInv, PipelineTypes, TableInv
<1>2. \A S : \A j \in Ids : Has(j, S)' <=> Has(j, S)
  BY DEF Has, outboxVars
<1> QED
  BY <1>1, <1>2 DEF Coming, Superseded

(* ... and a handler takes one event off its way, the one it is handed.     *)
LEMMA EventHandled ==
  ASSUME InOrder, NEW c \in Consumers, NEW t \in Topics, NEW o \in batch[c][t],
         HandleRecord(c, t, o), UNCHANGED outboxVars
  PROVE  /\ \A S : log[t][o].value \notin S /\ Coming(S) => Coming(S)'
         /\ \A S, T : Superseded(S, T) => Superseded(S, T)'
         /\ \A S : \A i \in Ids : Has(i, S)' => Has(i, S)
<1>1. TableInv /\ GroupTypeOK /\ HandsInOrder /\ OffsetsInLog /\ OrderInv
  BY DEF InOrder, IInv, PipelineTypes, TableInv
<1>2. \A j \in Ids : OnItsWay(j) /\ log[t][o].key # j => OnItsWay(j)'
  BY <1>1, HandlingKeepsComing
<1>3. log[t][o].value = outbox[log[t][o].key]
  BY <1>1 DEF OffsetsInLog, OrderInv, LogHoldsRows
<1>4. \A S : \A j \in Ids : Has(j, S)' <=> Has(j, S)
  BY DEF Has, outboxVars
<1>5. ASSUME NEW S, log[t][o].value \notin S, Coming(S) PROVE Coming(S)'
  BY <1>2, <1>3, <1>4, <1>5 DEF Coming, Has
<1> QED
  BY <1>4, <1>5 DEF Superseded

(* An event that is handed over after it was superseded - late, or once     *)
(* more - has the later one behind it.                                      *)
LEMMA SupersedingComes ==
  ASSUME InOrder, NEW c \in Consumers, NEW t \in Topics, NEW o \in batch[c][t],
         NEW S, NEW T, Superseded(S, T), log[t][o].value \in S, \A e \in T : e.topic = t
  PROVE  Coming(T)
<1>1. TableInv /\ GroupTypeOK /\ HandsInOrder /\ OffsetsInLog /\ OrderInv
  BY DEF InOrder, IInv, PipelineTypes, TableInv
<1>2. /\ log[t][o].key \in Ids /\ status[log[t][o].key] # "none"
      /\ log[t][o].value = outbox[log[t][o].key]
  BY <1>1, LogIsTyped DEF OffsetsInLog, OrderInv, LogHoldsRows
<1>3. PICK j \in Ids : log[t][o].key < j /\ Has(j, T)
  BY <1>2 DEF Superseded, Has
<1>4. OnItsWay(j)
  BY <1>1, <1>3, LaterAreComing DEF Has
<1> QED
  BY <1>3, <1>4 DEF Coming

(* The event that is handed over is one of the rows.                        *)
LEMMA HandedOver ==
  ASSUME InOrder, NEW c \in Consumers, NEW t \in Topics, NEW o \in batch[c][t]
  PROVE  /\ o \in 1..Len(log[t]) /\ log[t][o].key \in Ids
         /\ status[log[t][o].key] # "none"
         /\ log[t][o].value = outbox[log[t][o].key] /\ log[t][o].value.topic = t
<1>1. TableInv /\ OffsetsInLog /\ OrderInv
  BY DEF InOrder, IInv, PipelineTypes, TableInv
<1> QED
  BY <1>1, LogIsTyped DEF OffsetsInLog, OrderInv, LogHoldsRows

(* When everything has settled, nothing comes any more.                     *)
LEMMA NothingComes ==
  ASSUME InOrder, Settled, NEW S
  PROVE  ~Coming(S)
BY SettledIsOver DEF InOrder, IInv, PipelineTypes, Coming

(* How the consumers' modules use the pipeline: rows are inserted in the    *)
(* order of their ids, and none is swept.                                   *)
QuietStep ==
  \/ \E r \in Relays : RelayNext(r) /\ UNCHANGED groupVars
  \/ GroupControl /\ UNCHANGED outboxVars
  \/ \E c \in Consumers, t \in Topics : \E o \in batch[c][t] : HandleRecord(c, t, o) /\ UNCHANGED outboxVars
  \/ UNCHANGED <<outboxVars, groupVars>>
PipelineStep == (\E e \in Events : InsertNext(e) /\ UNCHANGED groupVars) \/ QuietStep

(* So all that is proved of the pipeline holds under them.                  *)
LEMMA StepIsPipelines == PipelineStep => [PipelineNext]_pipelineVars
<1>1. ASSUME NEW e \in Events, InsertNext(e), UNCHANGED groupVars PROVE PipelineNext
  BY <1>1 DEF InsertNext, PipelineNext, OutboxStep, OutboxNext
<1>2. ASSUME NEW r \in Relays, RelayNext(r), UNCHANGED groupVars PROVE PipelineNext
  BY <1>2 DEF PipelineNext, OutboxStep, OutboxNext, OutboxMaintenance
<1>3. GroupControl /\ UNCHANGED outboxVars => PipelineNext
  BY DEF PipelineNext, GroupNext
<1>4. ASSUME NEW c \in Consumers, NEW t \in Topics, NEW o \in batch[c][t], HandleRecord(c, t, o), UNCHANGED outboxVars
      PROVE  PipelineNext
  BY <1>4 DEF PipelineNext, GroupNext, HandleNext
<1> QED
  BY <1>1, <1>2, <1>3, <1>4 DEF PipelineStep, QuietStep, pipelineVars

(* Each of these steps keeps the pipeline in order.                         *)
LEMMA StaysInOrder ==
  ASSUME InOrder, IInv', OneRelay, OneConsumer, PipelineStep
  PROVE  InOrder'
<1>1. TableInv /\ TableInv' /\ GroupTypeOK /\ HandsInOrder /\ OffsetsInLog /\ PollEmptyHanded /\ OrderInv
  BY DEF InOrder, IInv, PipelineTypes, TableInv
<1>2. ASSUME NEW e \in Events, InsertNext(e), UNCHANGED groupVars PROVE OrderInv' /\ HandsInOrder'
  BY <1>1, <1>2, InsertKeepsOrder, InsertKeepsComing
<1>3. ASSUME NEW r \in Relays, RelayNext(r), UNCHANGED groupVars PROVE OrderInv' /\ HandsInOrder'
  BY <1>1, <1>3, RelayKeepsOrder, RelayKeepsComing
<1>4. ASSUME UNCHANGED outboxVars PROVE OrderInv'
  BY <1>1, <1>4
     DEF outboxVars, OrderInv, NoGaps, LogHoldsRows, LowestFirst, SentInOrder, LaterFollow, Unsent
<1>5. CASE GroupControl /\ UNCHANGED outboxVars
  BY <1>1, <1>4, <1>5, ControlKeepsComing DEF InOrder
<1>6. ASSUME NEW c \in Consumers, NEW t \in Topics, NEW o \in batch[c][t],
             HandleRecord(c, t, o), UNCHANGED outboxVars
      PROVE  OrderInv' /\ HandsInOrder'
  BY <1>1, <1>4, <1>6, HandlingKeepsComing
<1>7. CASE UNCHANGED <<outboxVars, groupVars>>
  <2>1. UNCHANGED <<log, owner, committed, position, batch>>
    BY <1>7 DEF outboxVars, groupVars
  <2>2. HandsInOrder'
    BY <1>1, <2>1 DEF HandsInOrder
  <2>3. OrderInv'
    BY <1>4, <1>7
  <2> QED
    BY <2>2, <2>3 DEF InOrder
<1> QED
  BY <1>2, <1>3, <1>4, <1>5, <1>6, <1>7 DEF InOrder, PipelineStep, QuietStep

(* Finer points of the same kind: between any two events of a set there is  *)
(* one of another; and all of a set that follow row id are on their way.    *)
Separated(S, T) ==
  \A i, j \in Ids : i < j /\ Has(i, S) /\ Has(j, S) => \E l \in Ids : i < l /\ l < j /\ Has(l, T)
AllToCome(id, S) == \A j \in Ids : id < j /\ Has(j, S) => OnItsWay(j)

(* A new event is the last, so it comes between none.                       *)
LEMMA InsertKeepsApart ==
  ASSUME InOrder, IInv', NEW e \in Events, InsertNext(e), UNCHANGED groupVars
  PROVE  /\ \A S, T : Separated(S, T) /\ (e \in S => Superseded(S, T)) => Separated(S, T)'
         /\ \A i \in Ids : \A S : AllToCome(i, S) => AllToCome(i, S)'
<1>1. TableInv /\ TableInv' /\ GroupTypeOK /\ OrderInv /\ HandsInOrder
  BY DEF InOrder, IInv, PipelineTypes, TableInv
<1>2. PICK id \in Ids :
        /\ \A j \in Ids : status[j] # "none" <=> j < id
        /\ status[id] = "none" /\ outbox' = [outbox EXCEPT ![id] = e]
        /\ status' = [status EXCEPT ![id] = "pending"]
        /\ OnItsWay(id)'
        /\ \A j \in Ids : OnItsWay(j) => OnItsWay(j)'
  BY <1>1, InsertKeepsComing
<1>3. /\ status'[id] = "pending" /\ outbox'[id] = e
      /\ \A j \in Ids : j # id => status'[j] = status[j] /\ outbox'[j] = outbox[j]
  BY <1>1, <1>2 DEF TableInv, OutboxTypeOK
<1>4. \A S : \A j \in Ids : Has(j, S)' <=> IF j = id THEN e \in S ELSE Has(j, S)
  BY <1>3 DEF Has
<1>5. \A S : \A j \in Ids : Has(j, S) => j < id /\ j # id /\ Has(j, S)'
  BY <1>2, <1>4 DEF Has
<1>6. ASSUME NEW S, NEW T, Separated(S, T), e \in S => Superseded(S, T) PROVE Separated(S, T)'
  <2> SUFFICES ASSUME NEW i \in Ids, NEW j \in Ids, i < j, Has(i, S)', Has(j, S)'
               PROVE  \E l \in Ids : i < l /\ l < j /\ Has(l, T)'
    BY DEF Separated
  <2>1. i \in Nat /\ j \in Nat /\ id \in Nat
    BY MaxIdAssumption DEF Ids
  <2>2. i # id /\ Has(i, S)
    <3>1. i = id => FALSE
      <4>1. j # id => j < id
        BY <1>4, <1>5
      <4> QED
        BY <2>1, <4>1
    <3> QED
      BY <1>4, <3>1
  <2>3. CASE j = id
    <3>1. Superseded(S, T)
      BY <1>4, <1>6, <2>3
    <3>2. PICK l \in Ids : i < l /\ Has(l, T)
      BY <2>2, <3>1 DEF Superseded
    <3> QED
      BY <1>5, <2>3, <3>2
  <2>4. CASE j # id
    <3>1. PICK l \in Ids : i < l /\ l < j /\ Has(l, T)
      BY <1>4, <1>6, <2>2, <2>4 DEF Separated
    <3> QED
      BY <1>5, <3>1
  <2> QED
    BY <2>3, <2>4
<1>7. ASSUME NEW i \in Ids, NEW S, AllToCome(i, S) PROVE AllToCome(i, S)'
  BY <1>2, <1>4, <1>7 DEF AllToCome
<1> QED
  BY <1>6, <1>7

(* Rows keep their events in every other step.                              *)
LEMMA QuietKeepsRows ==
  ASSUME InOrder, IInv', OneRelay, OneConsumer, QuietStep
  PROVE  \A S : \A i \in Ids : Has(i, S)' <=> Has(i, S)
<1>1. UNCHANGED outbox
  BY DEF QuietStep, RelayNext, SelectUnpublished, ProduceRecord, MarkPublished, AbortBatch, outboxVars
<1>2. \A i \in Ids : status'[i] # "none" <=> status[i] # "none"
  <2>1. ASSUME NEW r \in Relays, MarkPublished(r)
        PROVE  \A i \in Ids : status'[i] # "none" <=> status[i] # "none"
    <3>1. \A i \in Ids : status'[i] = IF i \in relay[r].batch THEN "published" ELSE status[i]
      BY <2>1 DEF MarkPublished
    <3>2. \A i \in relay[r].batch : status[i] = "pending"
      BY DEF InOrder, IInv, LocksHeld
    <3> QED
      BY <3>1, <3>2
  <2>2. ASSUME NEW r \in Relays, RelayNext(r), ~MarkPublished(r) PROVE UNCHANGED status
    BY <2>2 DEF RelayNext, SelectUnpublished, ProduceRecord, AbortBatch
  <2> QED
    BY <2>1, <2>2 DEF QuietStep, outboxVars
<1> QED
  BY <1>1, <1>2 DEF Has

(* Whatever is on its way stays there, but for the event that is handled.   *)
LEMMA QuietKeepsComing ==
  ASSUME InOrder, IInv', OneRelay, OneConsumer,
         \/ \E r \in Relays : RelayNext(r) /\ UNCHANGED groupVars
         \/ GroupControl /\ UNCHANGED outboxVars
         \/ UNCHANGED <<outboxVars, groupVars>>
  PROVE  /\ \A S : Coming(S) => Coming(S)'
         /\ \A i \in Ids : \A S : AllToCome(i, S) => AllToCome(i, S)'
<1>1. QuietStep
  BY DEF QuietStep
<1>2. \A S : \A i \in Ids : Has(i, S)' <=> Has(i, S)
  BY <1>1, QuietKeepsRows
<1>3. \A j \in Ids : OnItsWay(j) => OnItsWay(j)'
  <2>1. TableInv /\ TableInv' /\ GroupTypeOK /\ OrderInv /\ HandsInOrder /\ OffsetsInLog /\ PollEmptyHanded
    BY DEF InOrder, IInv, PipelineTypes, TableInv
  <2>2. CASE UNCHANGED <<outboxVars, groupVars>>
    BY <2>2 DEF outboxVars, groupVars, OnItsWay, Unsent, ToCome
  <2> QED
    BY <2>1, <2>2, RelayKeepsComing, ControlKeepsComing
<1> QED
  BY <1>2, <1>3 DEF Coming, AllToCome

(* After an event is handled, all that follow it in its topic are on their  *)
(* way, whatever was handled before.                                        *)
LEMMA RestIsToCome ==
  ASSUME InOrder, NEW c \in Consumers, NEW t \in Topics, NEW o \in batch[c][t],
         HandleRecord(c, t, o), UNCHANGED outboxVars
  PROVE  /\ \A S : (\A e \in S : e.topic = t) => AllToCome(log[t][o].key, S)'
         /\ \A i \in Ids : \A S : log[t][o].value \notin S /\ AllToCome(i, S) => AllToCome(i, S)'
<1>1. TableInv /\ GroupTypeOK /\ HandsInOrder /\ OffsetsInLog /\ OrderInv
  BY DEF InOrder, IInv, PipelineTypes, TableInv
<1>2. \A j \in Ids : OnItsWay(j) /\ log[t][o].key # j => OnItsWay(j)'
  BY <1>1, HandlingKeepsComing
<1>3. log[t][o].key \in Ids /\ log[t][o].value = outbox[log[t][o].key]
  BY HandedOver
<1>4. UNCHANGED log /\ \A S : \A j \in Ids : Has(j, S)' <=> Has(j, S)
  BY DEF Has, outboxVars
<1>5. ASSUME NEW S, \A e \in S : e.topic = t, NEW j \in Ids, log[t][o].key < j, Has(j, S)
      PROVE  OnItsWay(j)'
  <2>1. OnItsWay(j)
    BY <1>1, <1>5, LaterAreComing DEF Has
  <2>2. log[t][o].key # j
    BY <1>3, <1>5, MaxIdAssumption DEF Ids
  <2> QED
    BY <1>2, <2>1, <2>2
<1>6. ASSUME NEW i \in Ids, NEW S, log[t][o].value \notin S, AllToCome(i, S) PROVE AllToCome(i, S)'
  BY <1>2, <1>3, <1>4, <1>6 DEF AllToCome, Has
<1>7. ASSUME NEW S, \A e \in S : e.topic = t PROVE AllToCome(log[t][o].key, S)'
  BY <1>4, <1>5, <1>7 DEF AllToCome
<1> QED
  BY <1>6, <1>7
=============================================================================
