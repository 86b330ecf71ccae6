------------------------------- MODULE Outbox -------------------------------
(***************************************************************************)
(* The transactional outbox and its relay (cmd/api/outbox_relay.go and the *)
(* outbox sweep of cmd/api/jobs.go).                                       *)
(*                                                                         *)
(* Every domain transaction inserts a row into the outbox table.  Each     *)
(* backend replica runs a relay: once a second it opens a transaction,     *)
(* locks a batch of unpublished rows that no other relay holds, produces   *)
(* them to the broker, marks them published and commits.  Whatever fails   *)
(* on the way rolls the transaction back, but not the records the broker   *)
(* already took.  An hourly sweep deletes published rows older than a      *)
(* week.                                                                   *)
(*                                                                         *)
(* A row's id is drawn from the sequence when the row is inserted and the  *)
(* row is visible when its transaction commits, so ids become visible in   *)
(* any order; a transaction that rolls back leaves its id unused.          *)
(*                                                                         *)
(* A topic has one partition: nothing in the deployment asks for more when *)
(* the relay creates it, and more could only weaken the order of records.  *)
(***************************************************************************)
EXTENDS Naturals, Sequences, FiniteSets

CONSTANTS
  Topics,               \* "entity-changes" and "activity"
  MaxId,                \* bound: outbox ids are 1..MaxId
  Events,               \* what a row can hold: records with a topic field
  NoEvent,              \* the content of a row that does not exist
  Relays,               \* the relay of each backend replica
  BatchSize,            \* LIMIT of the relay's SELECT (100 in the code)
  MaxAborts             \* bound: relay transactions that roll back

ASSUME EventsAssumption == \A e \in Events : e.topic \in Topics
ASSUME NoEventAssumption == NoEvent \notin Events
ASSUME BatchSizeAssumption == BatchSize \in Nat \ {0}
ASSUME MaxIdAssumption == MaxId \in Nat
ASSUME MaxAbortsAssumption == MaxAborts \in Nat

VARIABLES
  log,                  \* log[t]: the broker's records of topic t, key and value
  outbox,               \* outbox[id]: topic and payload of the row
  status,               \* status[id]: "none", "pending", "published" or "swept"
  relay,                \* relay[r]: the locked batch and what was produced of it
  aborts                \* relay transactions rolled back so far

outboxVars == <<log, outbox, status, relay, aborts>>

Ids == 1..MaxId

(* Each row is produced at most once per relay transaction that holds it.   *)
MaxRecords == MaxId * (MaxAborts + 1)

Idle == [batch |-> {}, sent |-> {}]
Recorded(id) == \E t \in Topics : \E i \in 1..Len(log[t]) : log[t][i].key = id

OutboxTypeOK ==
  /\ log \in [Topics -> Seq([key : Ids, value : Events])]
  /\ outbox \in [Ids -> Events \cup {NoEvent}]
  /\ status \in [Ids -> {"none", "pending", "published", "swept"}]
  /\ relay \in [Relays -> [batch : SUBSET Ids, sent : SUBSET Ids]]
  /\ aborts \in Nat

OutboxInit ==
  /\ log = [t \in Topics |-> <<>>]
  /\ outbox = [id \in Ids |-> NoEvent]
  /\ status = [id \in Ids |-> "none"]
  /\ relay = [r \in Relays |-> Idle]
  /\ aborts = 0

-----------------------------------------------------------------------------
(* A domain transaction commits with its outbox row. *)
InsertEvent(id, e) ==
  /\ status[id] = "none"
  /\ outbox' = [outbox EXCEPT ![id] = e]
  /\ status' = [status EXCEPT ![id] = "pending"]
  /\ UNCHANGED <<log, relay, aborts>>

(* The same with the ids in the order of the inserts. *)
InsertNext(e) == \E id \in Ids : (\A lower \in 1..(id - 1) : status[lower] # "none") /\ InsertEvent(id, e)

(* Fault: the SELECT takes no locks. *)
UnlockedWithoutSkip == {id \in Ids : status[id] = "pending"}

(* Fault: the relays keep a cursor and read on from the highest id they     *)
(* have published.                                                          *)
UnlockedAfterCursor ==
  {id \in Ids : /\ status[id] = "pending"
                /\ \A r \in Relays : id \notin relay[r].batch
                /\ \A done \in Ids : status[done] \in {"published", "swept"} => done < id}

(* SELECT ... WHERE published_at IS NULL ORDER BY id LIMIT n                *)
(* FOR UPDATE SKIP LOCKED.  A relay that finds nothing goes back to sleep.  *)
Unlocked == {id \in Ids : status[id] = "pending" /\ \A r \in Relays : id \notin relay[r].batch}

SelectUnpublished(r) ==
  /\ relay[r] = Idle
  /\ \E S \in SUBSET Unlocked :
       /\ S # {}
       /\ Cardinality(S) <= BatchSize
       /\ S # Unlocked => Cardinality(S) = BatchSize
       /\ \A id \in S, other \in Unlocked \ S : id < other
       /\ relay' = [relay EXCEPT ![r].batch = S]
  /\ UNCHANGED <<log, outbox, status, aborts>>

(* ProduceSync: the broker takes the batch's records, in id order within a  *)
(* topic.  A record carries the row's id as its key and the payload as its  *)
(* value.                                                                   *)
ProduceRecord(r, id) ==
  LET unsent == {x \in relay[r].batch \ relay[r].sent : outbox[x].topic = outbox[id].topic}
  IN /\ id \in unsent
     /\ \A x \in unsent : id <= x
     /\ log' = [log EXCEPT ![outbox[id].topic] = Append(@, [key |-> id, value |-> outbox[id]])]
     /\ relay' = [relay EXCEPT ![r].sent = @ \cup {id}]
     /\ UNCHANGED <<outbox, status, aborts>>

(* Fault: the produce results go unread. *)
MarkPublishedUnchecked(r) ==
  /\ relay[r] # Idle
  /\ status' = [id \in Ids |-> IF id \in relay[r].batch THEN "published" ELSE status[id]]
  /\ relay' = [relay EXCEPT ![r] = Idle]
  /\ UNCHANGED <<log, outbox, aborts>>

(* Every record was taken: published_at is set on the whole batch and the   *)
(* transaction commits, which releases the locks.                           *)
MarkPublished(r) ==
  /\ relay[r] # Idle
  /\ relay[r].sent = relay[r].batch
  /\ status' = [id \in Ids |-> IF id \in relay[r].batch THEN "published" ELSE status[id]]
  /\ relay' = [relay EXCEPT ![r] = Idle]
  /\ UNCHANGED <<log, outbox, aborts>>

(* A produce error or time-out, a failed UPDATE or COMMIT, a panic, or the  *)
(* death of the replica: the transaction rolls back.                        *)
AbortBatch(r) ==
  /\ relay[r] # Idle
  /\ aborts < MaxAborts
  /\ aborts' = aborts + 1
  /\ relay' = [relay EXCEPT ![r] = Idle]
  /\ UNCHANGED <<log, outbox, status>>

(* Fault: the sweep goes by age alone. *)
SweepOutboxByAge ==
  \E Expired \in SUBSET {id \in Ids : status[id] \in {"pending", "published"}} :
    /\ Expired # {}
    /\ status' = [id \in Ids |-> IF id \in Expired THEN "swept" ELSE status[id]]
    /\ UNCHANGED <<log, outbox, relay, aborts>>

(* DELETE FROM outbox WHERE published_at IS NOT NULL AND created < now() -  *)
(* 7 days.  Ages are not modelled: any published row may have come of age.  *)
SweepExpiredOutbox ==
  \E Expired \in SUBSET {id \in Ids : status[id] = "published"} :
    /\ Expired # {}
    /\ status' = [id \in Ids |-> IF id \in Expired THEN "swept" ELSE status[id]]
    /\ outbox' = [id \in Ids |-> IF id \in Expired THEN NoEvent ELSE outbox[id]]
    /\ UNCHANGED <<log, relay, aborts>>

-----------------------------------------------------------------------------
RelayNext(r) ==
  \/ SelectUnpublished(r)
  \/ \E id \in relay[r].batch : ProduceRecord(r, id)
  \/ MarkPublished(r)
  \/ AbortBatch(r)

(* Everything but the domain transactions that fill the table. *)
OutboxMaintenance ==
  \/ \E r \in Relays : RelayNext(r)
  \/ SweepExpiredOutbox

OutboxNext ==
  \/ \E id \in Ids, e \in Events : InsertEvent(id, e)
  \/ OutboxMaintenance

OutboxSpec == OutboxInit /\ [][OutboxNext]_outboxVars
=============================================================================
