------------------------- MODULE NotificationsProofs -------------------------
(***************************************************************************)
(* What the notifications table can be relied upon for, for any number of  *)
(* users, posts, relays and consumers, and however often records are       *)
(* produced again, handed over again, dropped or handled in the wrong      *)
(* order: every row stands for one event, no event has two, nobody is      *)
(* notified of their own act, and what was read stays read.                *)
(*                                                                         *)
(* Where one relay writes the log and one consumer handles it, the table   *)
(* also settles on what the likes, comments and follows that stand ask     *)
(* for.  The invariant says of each notification that it is there or about *)
(* to come, and of each row that what takes it back, if anything does, is  *)
(* still to come.                                                          *)
(***************************************************************************)
EXTENDS Notifications, EventPipelineProofs, FunctionTheorems

USE TopicsAssumption, AuthorAssumption

(* An outbox row that was inserted holds an event; relays hold such rows.  *)
OutboxOK ==
  /\ outbox \in [Ids -> NotificationEvents \cup {NoEvent}]
  /\ status \in [Ids -> {"none", "pending", "published", "swept"}]
  /\ \A id \in Ids : status[id] # "none" => outbox[id] \in NotificationEvents
  /\ relay \in [Relays -> [batch : SUBSET Ids, sent : SUBSET Ids]]
  /\ \A r \in Relays : \A id \in relay[r].batch : status[id] # "none"

(* What the relay writes: the id of the row and its event.                 *)
Records == [key : Ids, value : NotificationEvents]

(* A record carries its row's id and the event, on the event's topic.      *)
LogOK ==
  /\ log \in [Topics -> Seq(Records)]
  /\ \A t \in Topics : \A i \in 1..Len(log[t]) : log[t][i].value.topic = t

(* What a consumer has polled is in the log.                               *)
GroupOK ==
  /\ committed \in [Topics -> Nat] /\ position \in [Topics -> Nat]
  /\ batch \in [Consumers -> [Topics -> SUBSET Nat]]
  /\ \A c \in Consumers, t \in Topics : batch[c][t] \subseteq 1..Len(log[t])

(* The inductive invariant.                                                *)
NotificationsIInv == OutboxOK /\ LogOK /\ GroupOK /\ NotificationsInv

(* The records of a topic stay, and others follow them.                    *)
TopicsGrow ==
  \A t \in Topics : /\ Len(log'[t]) >= Len(log[t])
                    /\ \A i \in 1..Len(log[t]) : log'[t][i] = log[t][i]

(* What a record of the log is.                                            *)
LEMMA RecordsAreTyped ==
  ASSUME LogOK, NEW t \in Topics
  PROVE  /\ Len(log[t]) \in Nat
         /\ \A i \in 1..Len(log[t]) : /\ log[t][i] \in Records
                                      /\ log[t][i].value.topic = t
  <1>1. log[t] \in Seq(Records)
    BY DEF LogOK
  <1>2. PICK s \in Seq(Records) : s = log[t]
    BY <1>1
  <1>3. Len(s) \in Nat /\ \A i \in 1..Len(s) : s[i] \in Records
    OBVIOUS
  <1> QED
    BY <1>2, <1>3 DEF LogOK

-----------------------------------------------------------------------------
(* The outbox: a row is inserted with its event ...                        *)
LEMMA InsertKeeps ==
  ASSUME OutboxOK, LogOK, NEW e \in NotificationEvents, InsertNext(e)
  PROVE  OutboxOK' /\ LogOK' /\ log' = log
  <1>1. PICK id \in Ids : InsertEvent(id, e)
    BY DEF InsertNext
  <1>2. /\ status[id] = "none" /\ log' = log /\ relay' = relay
        /\ outbox' = [outbox EXCEPT ![id] = e]
        /\ status' = [status EXCEPT ![id] = "pending"]
    BY <1>1 DEF InsertEvent
  <1>3. OutboxOK'
    BY <1>2 DEF OutboxOK
  <1> QED
    BY <1>2, <1>3 DEF LogOK

(* ... and the relays produce what was inserted, and nothing else.         *)
LEMMA RelayKeeps ==
  ASSUME OutboxOK, LogOK, NEW r \in Relays, RelayNext(r)
  PROVE  OutboxOK' /\ LogOK' /\ TopicsGrow
  <1>0. \A t \in Topics : Len(log[t]) \in Nat
    BY RecordsAreTyped
  <1>1. CASE SelectUnpublished(r)
    <2>1. PICK S \in SUBSET Unlocked : relay' = [relay EXCEPT ![r].batch = S]
      BY <1>1 DEF SelectUnpublished
    <2>2. \A id \in S : id \in Ids /\ status[id] # "none"
      BY <2>1 DEF Unlocked
    <2>3. OutboxOK'
      BY <1>1, <2>1, <2>2 DEF SelectUnpublished, OutboxOK
    <2> QED
      BY <1>0, <1>1, <2>3 DEF SelectUnpublished, LogOK, TopicsGrow
  <1>2. ASSUME NEW id \in relay[r].batch, ProduceRecord(r, id) PROVE OutboxOK' /\ LogOK' /\ TopicsGrow
    <2>1. id \in Ids /\ outbox[id] \in NotificationEvents
      BY DEF OutboxOK
    <2>2. PICK u : u = outbox[id].topic
      OBVIOUS
    <2>3. u \in Topics
      BY <2>1, <2>2 DEF NotificationEvents, Activities, PostDeletions
    <2>4. PICK rec : rec = [key |-> id, value |-> outbox[id]]
      OBVIOUS
    <2>5. rec \in Records /\ rec.value.topic = u
      BY <2>1, <2>2, <2>4 DEF Records
    <2>6. PICK s \in Seq(Records) : s = log[u]
      BY <2>3 DEF LogOK
    <2>7. /\ log' = [log EXCEPT ![u] = Append(s, rec)]
          /\ relay' = [relay EXCEPT ![r].sent = @ \cup {id}]
          /\ outbox' = outbox /\ status' = status
      BY <1>2, <2>2, <2>4, <2>6 DEF ProduceRecord
    <2>8. OutboxOK'
      BY <2>1, <2>7 DEF OutboxOK
    <2>9. PICK s2 \in Seq(Records) : s2 = Append(s, rec)
      <3>1. rec \in Records
        BY <2>5
      <3>2. Append(s, rec) \in Seq(Records)
        BY <3>1
      <3> QED
        BY <3>2
    <2>10. Len(s2) = Len(s) + 1 /\ s2[Len(s) + 1] = rec /\ \A i \in 1..Len(s) : s2[i] = s[i]
      BY <2>9
    <2>11. log'[u] = s2 /\ \A t \in Topics \ {u} : log'[t] = log[t]
      BY <2>3, <2>7, <2>9 DEF LogOK
    <2>12. log' \in [Topics -> Seq(Records)]
      BY <2>3, <2>7, <2>9 DEF LogOK
    <2>13. ASSUME NEW t \in Topics, NEW i \in 1..Len(log'[t]) PROVE log'[t][i].value.topic = t
      <3>1. CASE t # u
        BY <2>11, <2>13, <3>1 DEF LogOK
      <3>2. CASE t = u /\ i <= Len(s)
        BY <2>3, <2>6, <2>10, <2>11, <2>13, <3>2 DEF LogOK
      <3>3. CASE t = u /\ i = Len(s) + 1
        BY <2>10, <2>11, <2>5, <3>3
      <3> QED
        BY <2>6, <2>10, <2>11, <2>13, <3>1, <3>2, <3>3
    <2>14. TopicsGrow
      BY <1>0, <2>6, <2>10, <2>11 DEF TopicsGrow
    <2> QED
      BY <2>8, <2>12, <2>13, <2>14 DEF LogOK
  <1>3. CASE MarkPublished(r)
    <2>1. OutboxOK'
      BY <1>3 DEF MarkPublished, OutboxOK, Idle
    <2> QED
      BY <1>0, <1>3, <2>1 DEF MarkPublished, LogOK, TopicsGrow
  <1>4. CASE AbortBatch(r)
    <2>1. OutboxOK'
      BY <1>4 DEF AbortBatch, OutboxOK, Idle
    <2> QED
      BY <1>0, <1>4, <2>1 DEF AbortBatch, LogOK, TopicsGrow
  <1> QED
    BY <1>1, <1>2, <1>3, <1>4 DEF RelayNext

-----------------------------------------------------------------------------
(* The group hands over what is in the log.                                *)
LEMMA ControlKeeps ==
  ASSUME GroupOK, LogOK, GroupControl, log' = log
  PROVE  GroupOK'
  <1>1. ASSUME NEW t \in Topics, NEW c \in Consumers, Assign(t, c) PROVE GroupOK'
    BY <1>1 DEF Assign, GroupOK
  <1>2. ASSUME NEW c \in Consumers, PollFetches(c) PROVE GroupOK'
    <2>1. PICK upto \in [Topics -> 0..MaxRecords] :
            /\ \A t \in Topics : upto[t] <= Len(log[t])
            /\ batch' = [batch EXCEPT ![c] = [t \in Topics |-> (position[t] + 1)..upto[t]]]
            /\ position' = upto
      BY <1>2 DEF PollFetches
    <2>2. PICK polled : polled = [t \in Topics |-> (position[t] + 1)..upto[t]]
      OBVIOUS
    <2>3. ASSUME NEW t \in Topics
          PROVE  upto[t] \in Nat /\ polled[t] \subseteq 1..Len(log[t]) /\ polled[t] \subseteq Nat
      <3>1. position[t] \in Nat /\ Len(log[t]) \in Nat /\ upto[t] \in 0..MaxRecords /\ upto[t] <= Len(log[t])
        BY <2>1, RecordsAreTyped DEF GroupOK
      <3> QED
        BY <2>2, <3>1
    <2>4. polled \in [Topics -> SUBSET Nat]
      BY <2>2, <2>3
    <2>5. batch' = [batch EXCEPT ![c] = polled]
      BY <2>1, <2>2
    <2>6. batch' \in [Consumers -> [Topics -> SUBSET Nat]]
      BY <2>4, <2>5 DEF GroupOK
    <2>7. \A d \in Consumers, t \in Topics : batch'[d][t] \subseteq 1..Len(log[t])
      BY <2>3, <2>5 DEF GroupOK
    <2>8. position' \in [Topics -> Nat]
      BY <2>1, <2>3
    <2> QED
      BY <1>2, <2>6, <2>7, <2>8 DEF PollFetches, GroupOK
  <1>3. ASSUME NEW c \in Consumers, CommitOffsets(c) \/ CommitFails(c) PROVE GroupOK'
    BY <1>3 DEF CommitOffsets, CommitFails, GroupOK
  <1>4. ASSUME NEW c \in Consumers, Crash(c) PROVE GroupOK'
    BY <1>4 DEF Crash, GroupOK, NoRecords
  <1> QED
    BY <1>1, <1>2, <1>3, <1>4 DEF GroupControl

(* A record that is handled leaves its batch.                              *)
LEMMA HandleKeepsGroup ==
  ASSUME GroupOK, NEW c \in Consumers, NEW t \in Topics, NEW o, HandleRecord(c, t, o), log' = log
  PROVE  GroupOK'
  <1>1. batch' = [batch EXCEPT ![c][t] = @ \ {o}] /\ committed' = committed /\ position' = position
    BY DEF HandleRecord
  <1>2. \A d \in Consumers, u \in Topics : batch'[d][u] \subseteq batch[d][u]
    BY <1>1 DEF GroupOK
  <1>3. batch' \in [Consumers -> [Topics -> SUBSET Nat]]
    BY <1>1 DEF GroupOK
  <1> QED
    BY <1>1, <1>2, <1>3 DEF GroupOK

(* Records that are new are nobody's yet.                                  *)
LEMMA GrowthKeepsGroup ==
  ASSUME GroupOK, LogOK, TopicsGrow, LogOK', UNCHANGED groupVars
  PROVE  GroupOK'
  <1>1. \A t \in Topics : Len(log[t]) \in Nat /\ Len(log'[t]) \in Nat /\ Len(log'[t]) >= Len(log[t])
    <2>1. \A t \in Topics : Len(log[t]) \in Nat
      BY RecordsAreTyped
    <2>2. ASSUME NEW t \in Topics PROVE Len(log'[t]) \in Nat
      <3>1. PICK s \in Seq(Records) : s = log'[t]
        BY DEF LogOK
      <3> QED
        BY <3>1
    <2> QED
      BY <2>1, <2>2 DEF TopicsGrow
  <1> QED
    BY <1>1 DEF GroupOK, groupVars

-----------------------------------------------------------------------------
(* The domain transactions insert events of the kinds that are known.      *)
LEMMA DomainKeeps ==
  ASSUME TypeOK, OutboxOK, LogOK, Domain
  PROVE  /\ OutboxOK' /\ LogOK' /\ log' = log
         /\ posts' \subseteq Posts /\ likes' \subseteq Users \X Posts /\ comments' \subseteq written'
         /\ written' \subseteq [id : Comments, post : Posts, actor : Users] /\ follows' \subseteq Users \X Users
  <1>1. ASSUME NEW op \in {"like", "unlike", "comment", "uncomment", "follow", "unfollow"},
               NEW actor \in Users, NEW recipient \in Users, NEW entity \in Posts \cup Comments \cup Users,
               Act(op, actor, recipient, entity)
        PROVE  OutboxOK' /\ LogOK' /\ log' = log
    <2>1. PICK e : e = [topic |-> Activity, op |-> op, actor |-> actor, recipient |-> recipient, entity |-> entity]
      OBVIOUS
    <2>2. e \in NotificationEvents
      BY <2>1 DEF NotificationEvents, Activities
    <2> QED
      BY <1>1, <2>1, <2>2, InsertKeeps DEF Act
  <1>2. ASSUME NEW u \in Users, NEW p \in Posts, LikePost(u, p) \/ UnlikePost(u, p)
        PROVE  /\ OutboxOK' /\ LogOK' /\ log' = log /\ likes' \subseteq Users \X Posts
               /\ UNCHANGED <<posts, comments, written, follows>>
    BY <1>1, <1>2 DEF LikePost, UnlikePost, TypeOK
  <1>3. ASSUME NEW u \in Users, NEW p \in Posts, NEW c \in Comments, CreateComment(u, p, c)
        PROVE  /\ OutboxOK' /\ LogOK' /\ log' = log /\ comments' \subseteq written'
               /\ written' \subseteq [id : Comments, post : Posts, actor : Users]
               /\ UNCHANGED <<posts, likes, follows>>
    BY <1>1, <1>3 DEF CreateComment, TypeOK
  <1>4. ASSUME NEW u \in Users, NEW k \in comments, DeleteComment(u, k)
        PROVE  /\ OutboxOK' /\ LogOK' /\ log' = log /\ comments' \subseteq written
               /\ UNCHANGED <<posts, likes, written, follows>>
    <2>1. k \in [id : Comments, post : Posts, actor : Users]
      BY DEF TypeOK
    <2> QED
      BY <1>1, <1>4, <2>1 DEF DeleteComment, TypeOK
  <1>5. ASSUME NEW u \in Users, NEW v \in Users, FollowUser(u, v) \/ UnfollowUser(u, v)
        PROVE  /\ OutboxOK' /\ LogOK' /\ log' = log /\ follows' \subseteq Users \X Users
               /\ UNCHANGED <<posts, likes, comments, written>>
    BY <1>1, <1>5 DEF FollowUser, UnfollowUser, TypeOK
  <1>6. ASSUME NEW p \in Posts, DeletePost(p)
        PROVE  /\ OutboxOK' /\ LogOK' /\ log' = log
               /\ posts' \subseteq Posts /\ likes' \subseteq Users \X Posts /\ comments' \subseteq written
               /\ UNCHANGED <<written, follows>>
    <2>1. PICK ids : ids = {k.id : k \in {k \in comments : k.post = p}}
      OBVIOUS
    <2>2. \A k \in comments : k \in [id : Comments, post : Posts, actor : Users]
      BY DEF TypeOK
    <2>3. ids \subseteq Comments
      BY <2>1, <2>2
    <2>4. PICK e : e = [topic |-> EntityChanges, op |-> "delete", post |-> p, comments |-> ids]
      OBVIOUS
    <2>5. e \in NotificationEvents
      BY <2>3, <2>4 DEF NotificationEvents, PostDeletions
    <2>6. InsertNext(e)
      BY <1>6, <2>1, <2>4 DEF DeletePost
    <2>7. OutboxOK' /\ LogOK' /\ log' = log
      BY <2>5, <2>6, InsertKeeps
    <2> QED
      BY <1>6, <2>7 DEF DeletePost, TypeOK
  <1> QED
    BY <1>2, <1>3, <1>4, <1>5, <1>6 DEF Domain, TypeOK
-----------------------------------------------------------------------------
(* A row and the record of the event it stands for.                        *)
FromEvent(n) ==
  /\ n.user_id # n.actor_id
  /\ \E i \in 1..Len(log[Activity]) :
       /\ log[Activity][i].key = n.external_id
       /\ log[Activity][i].value.op = n.type
       /\ log[Activity][i].value.actor = n.actor_id
       /\ log[Activity][i].value.recipient = n.user_id
       /\ log[Activity][i].value.entity = n.entity_id

(* No event has two rows.                                                 *)
OneEach(S) == \A m, n \in S : m.external_id = n.external_id => m = n

(* The two halves of the invariant.                                        *)
LEMMA RowsSplit == RowsComeFromEvents <=> (\A n \in notifs : FromEvent(n)) /\ OneEach(notifs)
  BY DEF RowsComeFromEvents, FromEvent, OneEach

(* A record does not leave the log, so a row keeps its event.              *)
LEMMA RowsKeepTheirEvents ==
  ASSUME LogOK, TopicsGrow, LogOK', RowsComeFromEvents, notifs' = notifs
  PROVE  RowsComeFromEvents'
  <1>1. \A t \in Topics : Len(log[t]) \in Nat
    BY RecordsAreTyped
  <1>2. Len(log'[Activity]) \in Nat
    <2>1. PICK s \in Seq(Records) : s = log'[Activity]
      BY DEF LogOK
    <2> QED
      BY <2>1
  <1>3. ASSUME NEW n, FromEvent(n) PROVE FromEvent(n)'
    BY <1>1, <1>2, <1>3 DEF FromEvent, TopicsGrow
  <1> QED
    BY <1>3, RowsSplit DEF RowsComeFromEvents, FromEvent, OneEach

(* What can come of the table: rows go, one is added for the record that   *)
(* is handled, or one is marked as read.                                   *)
NewRow(id, e) ==
  [external_id |-> id, user_id |-> e.recipient, actor_id |-> e.actor,
   type |-> e.op, entity_id |-> e.entity, read |-> FALSE]

(* What the handler of an activity event makes of the table.               *)
LEMMA ActivityOutcome ==
  ASSUME NEW id, NEW e, e.op \in {"like", "unlike", "comment", "uncomment", "follow", "unfollow"}
  PROVE  \/ HandleActivity(id, e) \subseteq notifs
         \/ /\ e.op \in {"like", "comment", "follow"} /\ e.actor # e.recipient
            /\ \A n \in notifs : n.external_id # id
            /\ HandleActivity(id, e) = notifs \cup {NewRow(id, e)}
  <1>1. CASE e.op \in {"like", "comment", "follow"}
    <2>1. HandleActivity(id, e) = IF e.actor = e.recipient THEN notifs ELSE CreateNotification(id, e.op, e)
      BY <1>1 DEF HandleActivity
    <2> QED
      BY <1>1, <2>1 DEF CreateNotification, NewRow
  <1>2. CASE e.op = "unlike"
    BY <1>2 DEF HandleActivity, DeleteByActorAndType
  <1>3. CASE e.op = "unfollow"
    BY <1>3 DEF HandleActivity, DeleteByActorAndType
  <1>4. CASE e.op = "uncomment"
    BY <1>4 DEF HandleActivity, DeleteByEntity
  <1> QED
    BY <1>1, <1>2, <1>3, <1>4

(* The same of any record that a consumer handles.                         *)
LEMMA HandleOutcome ==
  ASSUME NotificationsIInv, NEW c \in Consumers, NEW t \in Topics, NEW o \in batch[c][t], Handle(c, t, o)
  PROVE  \/ notifs' \subseteq notifs
         \/ \E i \in 1..Len(log[Activity]) :
              LET r == log[Activity][i]
              IN /\ r.key \in Ids /\ r.value \in Activities({"like", "comment", "follow"})
                 /\ r.value.actor # r.value.recipient
                 /\ \A n \in notifs : n.external_id # r.key
                 /\ notifs' = notifs \cup {NewRow(r.key, r.value)}
  <1>1. PICK r : r = log[t][o]
    OBVIOUS
  <1>2. o \in 1..Len(log[t]) /\ r \in Records /\ r.value.topic = t
    BY <1>1, RecordsAreTyped DEF NotificationsIInv, GroupOK
  <1>3. CASE t = Activity
    <2>1. r.value \in Activities({"like", "unlike", "comment", "uncomment", "follow", "unfollow"}) /\ r.key \in Ids
      BY <1>2, <1>3 DEF Records, NotificationEvents, PostDeletions, Activity, EntityChanges
    <2>2. notifs' = notifs \/ notifs' = HandleActivity(r.key, r.value)
      BY <1>1, <1>3 DEF Handle
    <2>3. PICK id, e : id = r.key /\ e = r.value
      OBVIOUS
    <2>4. e \in Activities({"like", "unlike", "comment", "uncomment", "follow", "unfollow"}) /\ id \in Ids
      BY <2>1, <2>3
    <2>5. e.op \in {"like", "unlike", "comment", "uncomment", "follow", "unfollow"}
      BY <2>4 DEF Activities
    <2>6. CASE notifs' \subseteq notifs
      BY <2>6
    <2>7. CASE /\ e.op \in {"like", "comment", "follow"} /\ e.actor # e.recipient
               /\ \A n \in notifs : n.external_id # id
               /\ notifs' = notifs \cup {NewRow(id, e)}
      <3>1. e \in Activities({"like", "comment", "follow"})
        BY <2>4, <2>7 DEF Activities
      <3> QED
        BY <1>1, <1>2, <1>3, <2>3, <2>4, <2>7, <3>1
    <2> QED
      BY <2>2, <2>3, <2>5, <2>6, <2>7, ActivityOutcome
  <1>4. CASE t # Activity
    <2>1. notifs' = HandleEntityChanges(r.value) \/ notifs' \in HandleEntityChangesPartly(r.value)
      BY <1>1, <1>4 DEF Handle
    <2> QED
      BY <2>1 DEF HandleEntityChanges, HandleEntityChangesPartly, DeleteByEntity
  <1> QED
    BY <1>3, <1>4

(* The handlers keep the rows true.                                        *)
LEMMA HandleKeeps ==
  ASSUME NotificationsIInv, NEW c \in Consumers, NEW t \in Topics, NEW o \in batch[c][t], Handle(c, t, o),
         UNCHANGED <<outboxVars, domainVars>>
  PROVE  notifs' \subseteq Notification /\ RowsComeFromEvents'
  <1>1. log' = log
    BY DEF outboxVars
  <1>2. /\ notifs \subseteq Notification /\ OneEach(notifs)
        /\ \A n \in notifs : FromEvent(n)
    BY RowsSplit DEF NotificationsIInv, NotificationsInv, TypeOK
  <1>3. CASE notifs' \subseteq notifs
    BY <1>1, <1>2, <1>3 DEF RowsComeFromEvents, FromEvent, OneEach
  <1>4. ASSUME NEW i \in 1..Len(log[Activity]), NEW r, r = log[Activity][i],
               r.key \in Ids, r.value \in Activities({"like", "comment", "follow"}),
               r.value.actor # r.value.recipient,
               \A n \in notifs : n.external_id # r.key,
               notifs' = notifs \cup {NewRow(r.key, r.value)}
        PROVE  notifs' \subseteq Notification /\ RowsComeFromEvents'
    <2>1. PICK e : e = r.value
      OBVIOUS
    <2>2. /\ e.op \in {"like", "comment", "follow"} /\ e.actor \in Users /\ e.recipient \in Users
          /\ e.entity \in Posts \cup Comments \cup Users
      BY <1>4, <2>1 DEF Activities
    <2>3. PICK n : n = NewRow(r.key, e)
      OBVIOUS
    <2>4. n \in Notification
      BY <1>4, <2>2, <2>3 DEF Notification, NewRow
    <2>5. FromEvent(n)
      BY <1>4, <2>1, <2>3 DEF FromEvent, NewRow
    <2>6. n.external_id = r.key
      BY <2>3 DEF NewRow
    <2>7. notifs' = notifs \cup {n}
      BY <1>4, <2>1, <2>3
    <2>8. OneEach(notifs')
      BY <1>2, <1>4, <2>6, <2>7 DEF OneEach
    <2>9. \A m \in notifs' : FromEvent(m)
      BY <1>2, <2>5, <2>7
    <2>10. \A m \in notifs' : FromEvent(m)'
      BY <1>1, <2>9 DEF FromEvent
    <2>11. RowsComeFromEvents'
      BY <2>8, <2>10 DEF RowsComeFromEvents, FromEvent, OneEach
    <2> QED
      BY <1>2, <2>4, <2>7, <2>11
  <1> QED
    BY <1>3, <1>4, HandleOutcome

(* So does MarkRead, which changes nothing else of a row.                  *)
LEMMA ReadKeeps ==
  ASSUME NotificationsIInv, NEW n \in notifs, MarkRead(n), log' = log
  PROVE  notifs' \subseteq Notification /\ RowsComeFromEvents'
  <1>1. /\ notifs \subseteq Notification /\ OneEach(notifs)
        /\ \A m \in notifs : FromEvent(m)
    BY RowsSplit DEF NotificationsIInv, NotificationsInv, TypeOK
  <1>2. PICK m : m = [n EXCEPT !.read = TRUE]
    OBVIOUS
  <1>3. /\ m \in Notification /\ m.external_id = n.external_id /\ m.user_id = n.user_id /\ m.actor_id = n.actor_id
        /\ m.type = n.type /\ m.entity_id = n.entity_id
    BY <1>1, <1>2 DEF Notification
  <1>4. notifs' = (notifs \ {n}) \cup {m}
    BY <1>2 DEF MarkRead
  <1>5. FromEvent(m)
    BY <1>1, <1>3 DEF FromEvent
  <1>6. OneEach(notifs')
    BY <1>1, <1>3, <1>4 DEF OneEach
  <1>7. \A k \in notifs' : FromEvent(k)'
    BY <1>1, <1>4, <1>5 DEF FromEvent
  <1> QED
    BY <1>1, <1>3, <1>4, <1>6, <1>7 DEF RowsComeFromEvents, FromEvent, OneEach

-----------------------------------------------------------------------------
(* At first there is no record and no row.                                 *)
LEMMA NotificationsInitial == Init => NotificationsIInv
  <1> SUFFICES ASSUME Init PROVE NotificationsIInv
    OBVIOUS
  <1>1. OutboxOK
    BY DEF Init, OutboxInit, OutboxOK, Idle
  <1>2. LogOK
    BY DEF Init, OutboxInit, LogOK
  <1>3. GroupOK
    BY DEF Init, GroupInit, GroupOK, NoRecords
  <1>4. TypeOK
    BY DropsAssumption DEF Init, TypeOK
  <1>5. RowsComeFromEvents
    BY DEF Init, RowsComeFromEvents
  <1> QED
    BY <1>1, <1>2, <1>3, <1>4, <1>5 DEF NotificationsIInv, NotificationsInv

(* Every step of the domain, the relays, the group, the handlers or a      *)
(* reader keeps the invariant ...                                          *)
LEMMA NotificationsInductive == NotificationsIInv /\ [Next]_vars => NotificationsIInv'
  <1> SUFFICES ASSUME NotificationsIInv, [Next]_vars PROVE NotificationsIInv'
    OBVIOUS
  <1> USE DEF NotificationsIInv, NotificationsInv
  <1>1. \A t \in Topics : Len(log[t]) \in Nat
    BY RecordsAreTyped
  <1>2. CASE Domain /\ UNCHANGED <<groupVars, notifs, drops>>
    <2>1. /\ OutboxOK' /\ LogOK' /\ log' = log
          /\ posts' \subseteq Posts /\ likes' \subseteq Users \X Posts /\ comments' \subseteq written'
          /\ written' \subseteq [id : Comments, post : Posts, actor : Users] /\ follows' \subseteq Users \X Users
      BY <1>2, DomainKeeps
    <2>2. TopicsGrow
      BY <1>1, <2>1 DEF TopicsGrow
    <2>3. GroupOK'
      BY <1>2, <2>1, <2>2, GrowthKeepsGroup
    <2>4. RowsComeFromEvents'
      BY <1>2, <2>1, <2>2, RowsKeepTheirEvents
    <2>5. TypeOK'
      BY <1>2, <2>1 DEF TypeOK
    <2> QED
      BY <2>1, <2>3, <2>4, <2>5
  <1>3. ASSUME NEW r \in Relays, RelayNext(r), UNCHANGED <<groupVars, domainVars, notifs, drops>>
        PROVE  NotificationsIInv'
    <2>1. OutboxOK' /\ LogOK' /\ TopicsGrow
      BY <1>3, RelayKeeps
    <2>2. GroupOK'
      BY <1>3, <2>1, GrowthKeepsGroup
    <2>3. RowsComeFromEvents'
      BY <1>3, <2>1, RowsKeepTheirEvents
    <2>4. TypeOK'
      BY <1>3 DEF TypeOK, domainVars
    <2> QED
      BY <2>1, <2>2, <2>3, <2>4
  <1>4. ASSUME UNCHANGED outboxVars PROVE OutboxOK' /\ LogOK' /\ log' = log
    BY <1>4 DEF outboxVars, OutboxOK, LogOK
  <1>5. CASE GroupControl /\ UNCHANGED <<outboxVars, domainVars, notifs, drops>>
    <2>1. OutboxOK' /\ LogOK' /\ log' = log
      BY <1>4, <1>5
    <2>2. GroupOK'
      BY <1>5, <2>1, ControlKeeps
    <2>3. TypeOK' /\ RowsComeFromEvents'
      BY <1>5, <2>1 DEF TypeOK, domainVars, RowsComeFromEvents
    <2> QED
      BY <2>1, <2>2, <2>3
  <1>6. ASSUME NEW c \in Consumers, NEW t \in Topics, NEW o \in batch[c][t], Handle(c, t, o),
               UNCHANGED <<outboxVars, domainVars>>
        PROVE  NotificationsIInv'
    <2>1. OutboxOK' /\ LogOK' /\ log' = log
      BY <1>4, <1>6
    <2>2. GroupOK'
      BY <1>6, <2>1, HandleKeepsGroup DEF Handle
    <2>3. notifs' \subseteq Notification /\ RowsComeFromEvents'
      BY <1>6, HandleKeeps
    <2>4. drops' \in 0..MaxDrops
      BY <1>6, DropsAssumption DEF Handle, TypeOK
    <2>5. TypeOK'
      BY <1>6, <2>3, <2>4 DEF TypeOK, domainVars
    <2> QED
      BY <2>1, <2>2, <2>3, <2>5
  <1>7. ASSUME NEW n \in notifs, MarkRead(n), UNCHANGED <<outboxVars, groupVars, domainVars, drops>>
        PROVE  NotificationsIInv'
    <2>1. OutboxOK' /\ LogOK' /\ log' = log
      BY <1>4, <1>7
    <2>2. GroupOK'
      BY <1>7, <2>1 DEF GroupOK, groupVars
    <2>3. notifs' \subseteq Notification /\ RowsComeFromEvents'
      BY <1>7, <2>1, ReadKeeps
    <2>4. TypeOK'
      BY <1>7, <2>3 DEF TypeOK, domainVars
    <2> QED
      BY <2>1, <2>2, <2>3, <2>4
  <1>8. CASE UNCHANGED vars
    <2>1. OutboxOK' /\ LogOK' /\ log' = log
      BY <1>4, <1>8 DEF vars
    <2>2. GroupOK' /\ TypeOK' /\ RowsComeFromEvents'
      BY <1>8, <2>1 DEF vars, GroupOK, groupVars, TypeOK, domainVars, RowsComeFromEvents
    <2> QED
      BY <2>1, <2>2
  <1> QED
    BY <1>2, <1>3, <1>5, <1>6, <1>7, <1>8 DEF Next

(* ... so it holds always.                                                 *)
LEMMA NotificationsInvariant == Spec => []NotificationsIInv
  BY NotificationsInitial, NotificationsInductive, PTL DEF Spec

(* However records are repeated, dropped and reordered, every row of the   *)
(* notifications table stands for one event that was published, none for   *)
(* the same event as another, and none tells users of their own acts.      *)
THEOREM NotificationsComeFromEvents == Spec => []NotificationsInv
  <1>1. NotificationsIInv => NotificationsInv
    BY DEF NotificationsIInv
  <1> QED
    BY <1>1, NotificationsInvariant, PTL

(* A record that is handled again does not turn unread what was read.      *)
THEOREM WhatIsReadStaysRead == Spec => ReadStaysRead
  <1>1. NotificationsIInv /\ [Next]_vars =>
          [\A m \in notifs, n \in notifs' : m.external_id = n.external_id /\ m.read => n.read]_vars
    <2> SUFFICES ASSUME NotificationsIInv, Next, NEW m \in notifs, NEW n \in notifs',
                        m.external_id = n.external_id, m.read
                 PROVE  n.read
      OBVIOUS
    <2>1. OneEach(notifs)
      BY RowsSplit DEF NotificationsIInv, NotificationsInv
    <2>2. CASE n \in notifs
      BY <2>1, <2>2 DEF OneEach
    <2>3. CASE n \notin notifs
      <3>1. ASSUME NEW k \in notifs, MarkRead(k) PROVE n.read
        <4>1. n = [k EXCEPT !.read = TRUE] /\ k \in Notification
          BY <2>3, <3>1 DEF MarkRead, NotificationsIInv, NotificationsInv, TypeOK
        <4> QED
          BY <4>1 DEF Notification
      <3>2. ASSUME NEW c \in Consumers, NEW t \in Topics, NEW o \in batch[c][t], Handle(c, t, o) PROVE FALSE
        <4>1. PICK i \in 1..Len(log[Activity]) :
                /\ \A k \in notifs : k.external_id # log[Activity][i].key
                /\ notifs' = notifs \cup {NewRow(log[Activity][i].key, log[Activity][i].value)}
          BY <2>3, <3>2, HandleOutcome
        <4>2. n = NewRow(log[Activity][i].key, log[Activity][i].value)
          BY <2>3, <4>1
        <4> QED
          BY <4>1, <4>2 DEF NewRow
      <3> QED
        BY <2>3, <3>1, <3>2 DEF Next
    <2> QED
      BY <2>2, <2>3
  <1> QED
    BY <1>1, NotificationsInvariant, PTL DEF Spec, ReadStaysRead

-----------------------------------------------------------------------------
(* The table settles on what the domain tables ask for, where one relay     *)
(* writes the log and one consumer handles it.                              *)
(*                                                                          *)
(* A notification is one that is wanted or not: whom it tells, whose act it *)
(* is, of which type and about what.                                        *)
Tuple(n) == <<n.user_id, n.actor_id, n.type, n.entity_id>>
Keys ==
  {w \in Users \X Users \X {"like", "comment", "follow"} \X (Posts \cup Comments \cup Users) : w[1] # w[2]}

(* The events that ask for it, and those of the activity topic that take it *)
(* back.                                                                    *)
ActEvent(op, actor, recipient, entity) ==
  [topic |-> Activity, op |-> op, actor |-> actor, recipient |-> recipient, entity |-> entity]
On(w) == {ActEvent(w[3], w[2], w[1], w[4])}
TakesBack(e, w) ==
  \/ e.op = "unlike" /\ w[3] = "like" /\ e.actor = w[2] /\ e.recipient = w[1] /\ e.entity = w[4]
  \/ e.op = "unfollow" /\ w[3] = "follow" /\ e.actor = w[2] /\ e.recipient = w[1] /\ e.entity = w[4]
  \/ e.op = "uncomment" /\ w[3] = "comment" /\ e.entity = w[4]
Off(w) == {e \in Activities({"unlike", "unfollow", "uncomment"}) : TakesBack(e, w)}

(* It is about a post that is gone.                                         *)
Gone(w) ==
  \/ w[3] = "like" /\ w[4] \notin posts
  \/ w[3] = "comment" /\ \E k \in written : k.id = w[4] /\ k.post \notin posts

(* What the domain transactions keep: likes and comments are of posts that  *)
(* exist, and a deletion tells of a post that is gone and of its comments.  *)
ToldGone(e) == e.post \notin posts /\ \A c \in e.comments : \E k \in written : k.id = c /\ k.post \notin posts
TablesAgree ==
  /\ \A l \in likes : l[2] \in posts
  /\ \A k \in comments : k.post \in posts
  /\ \A j, k \in written : j.id = k.id => j = k
  /\ \A f \in follows : f[1] # f[2]
  /\ \A id \in Ids : Has(id, PostDeletions) => ToldGone(outbox[id])

(* What is wanted is asked for and taken back in turn.                      *)
Alternates ==
  \A w \in Keys : ~Gone(w) =>
    /\ Separated(On(w), Off(w))
    /\ IF w \in Wanted THEN Superseded(Off(w), On(w)) ELSE Superseded(On(w), Off(w))

(* What is wanted is there or about to come; and what takes back a row that *)
(* is there is still to come.                                               *)
NoneMissing == \A w \in Keys : ~Gone(w) /\ w \in Wanted => (\E n \in notifs : Tuple(n) = w) \/ Coming(On(w))
NoneStale == \A n \in notifs : AllToCome(n.external_id, Off(Tuple(n)))

(* The inductive invariant; a handler that fails is not made up for.        *)
ConvergingInv ==
  /\ InOrder /\ NotificationsIInv /\ TablesAgree /\ Alternates
  /\ drops # 0 \/ (NoneMissing /\ NoneStale)

-----------------------------------------------------------------------------
(* An event asks for what it names, and takes back nothing.                 *)
LEMMA EventsOfKeys ==
  ASSUME NEW w \in Keys
  PROVE  /\ w = <<w[1], w[2], w[3], w[4]>> /\ w[1] \in Users /\ w[2] \in Users /\ w[1] # w[2]
         /\ w[3] \in {"like", "comment", "follow"} /\ w[4] \in Posts \cup Comments \cup Users
         /\ \A e \in On(w) : e \notin Off(w) /\ e.topic = Activity
         /\ \A e \in Off(w) : e \notin On(w) /\ e.topic = Activity
         /\ \A e \in PostDeletions : e \notin On(w) /\ e \notin Off(w)
         /\ \A op, actor, recipient, entity :
              ActEvent(op, actor, recipient, entity) \in On(w) <=>
                w = <<recipient, actor, op, entity>>
<1>1. /\ w = <<w[1], w[2], w[3], w[4]>> /\ w[1] \in Users /\ w[2] \in Users /\ w[1] # w[2]
      /\ w[3] \in {"like", "comment", "follow"} /\ w[4] \in Posts \cup Comments \cup Users
  BY DEF Keys
<1>2. \A e \in On(w) : e.op \in {"like", "comment", "follow"} /\ e.topic = Activity
  BY <1>1 DEF On, ActEvent
<1>3. \A e \in Off(w) : e.op \in {"unlike", "uncomment", "unfollow"} /\ e.topic = Activity
  BY DEF Off, Activities
<1>4. \A e \in PostDeletions : e.topic # Activity
  BY DEF PostDeletions, Activity, EntityChanges
<1>5. ASSUME NEW op, NEW actor, NEW recipient, NEW entity
      PROVE  ActEvent(op, actor, recipient, entity) \in On(w) <=> w = <<recipient, actor, op, entity>>
  BY <1>1 DEF On, ActEvent
<1> QED
  BY <1>1, <1>2, <1>3, <1>4, <1>5

(* What the domain tables ask for, type by type.                            *)
WantedOf(L, C, F) ==
  {<<Author[l[2]], l[1], "like", l[2]>> : l \in {l \in L : l[1] # Author[l[2]]}}
  \cup {<<Author[k.post], k.actor, "comment", k.id>> : k \in {k \in C : k.actor # Author[k.post]}}
  \cup {<<f[2], f[1], "follow", f[1]>> : f \in F}

AskedFor(w, L, C, F) ==
  \/ w[3] = "like" /\ <<w[2], w[4]>> \in L /\ w[1] = Author[w[4]]
  \/ w[3] = "comment" /\ \E k \in C : k.id = w[4] /\ k.actor = w[2] /\ Author[k.post] = w[1]
  \/ w[3] = "follow" /\ <<w[2], w[1]>> \in F /\ w[4] = w[2]

(* A notification is wanted by the rule of its type.                        *)
LEMMA WantedByType ==
  ASSUME NEW L \in SUBSET (Users \X Posts), NEW C, NEW F \in SUBSET (Users \X Users), NEW w \in Keys
  PROVE  w \in WantedOf(L, C, F) <=> AskedFor(w, L, C, F)
<1>1. w = <<w[1], w[2], w[3], w[4]>> /\ w[1] # w[2]
  BY EventsOfKeys
<1>2. PICK ls : ls = {<<Author[l[2]], l[1], "like", l[2]>> : l \in {l \in L : l[1] # Author[l[2]]}}
  OBVIOUS
<1>3. PICK cs : cs = {<<Author[k.post], k.actor, "comment", k.id>> : k \in {k \in C : k.actor # Author[k.post]}}
  OBVIOUS
<1>4. PICK fs : fs = {<<f[2], f[1], "follow", f[1]>> : f \in F}
  OBVIOUS
<1>5. w \in WantedOf(L, C, F) <=> w \in ls \/ w \in cs \/ w \in fs
  BY <1>2, <1>3, <1>4 DEF WantedOf
<1>6. (w \in ls => w[3] = "like") /\ (w \in cs => w[3] = "comment") /\ (w \in fs => w[3] = "follow")
  BY <1>2, <1>3, <1>4
<1>7. ASSUME w[3] = "like" PROVE w \in ls <=> <<w[2], w[4]>> \in L /\ w[1] = Author[w[4]]
  <2>1. \A l \in L : l = <<l[1], l[2]>>
    OBVIOUS
  <2>2. w \in ls => <<w[2], w[4]>> \in L /\ w[1] = Author[w[4]]
    BY <1>2, <2>1
  <2>3. ASSUME <<w[2], w[4]>> \in L, w[1] = Author[w[4]] PROVE w \in ls
    BY <1>1, <1>2, <1>7, <2>3
  <2> QED
    BY <2>2, <2>3
<1>8. ASSUME w[3] = "comment"
      PROVE  w \in cs <=> \E k \in C : k.id = w[4] /\ k.actor = w[2] /\ Author[k.post] = w[1]
  <2>1. w \in cs => \E k \in C : k.id = w[4] /\ k.actor = w[2] /\ Author[k.post] = w[1]
    BY <1>3
  <2>2. ASSUME NEW k \in C, k.id = w[4], k.actor = w[2], Author[k.post] = w[1] PROVE w \in cs
    BY <1>1, <1>3, <1>8, <2>2
  <2> QED
    BY <2>1, <2>2
<1>9. ASSUME w[3] = "follow" PROVE w \in fs <=> <<w[2], w[1]>> \in F /\ w[4] = w[2]
  <2>1. \A f \in F : f = <<f[1], f[2]>>
    OBVIOUS
  <2>2. w \in fs => <<w[2], w[1]>> \in F /\ w[4] = w[2]
    BY <1>4, <2>1
  <2>3. ASSUME <<w[2], w[1]>> \in F, w[4] = w[2] PROVE w \in fs
    BY <1>1, <1>4, <1>9, <2>3
  <2> QED
    BY <2>2, <2>3
<1> QED
  BY <1>5, <1>6, <1>7, <1>8, <1>9, EventsOfKeys DEF AskedFor

(* The same of this state.                                                  *)
LEMMA WantedNow ==
  ASSUME TypeOK, NEW w \in Keys
  PROVE  w \in Wanted <=> AskedFor(w, likes, comments, follows)
<1>1. Wanted = WantedOf(likes, comments, follows)
  BY DEF Wanted, WantedOf
<1>2. likes \in SUBSET (Users \X Posts) /\ follows \in SUBSET (Users \X Users)
  BY DEF TypeOK
<1> QED
  BY <1>1, <1>2, WantedByType

(* And of the next state.                                                   *)
LEMMA WantedNext ==
  ASSUME TypeOK', NEW w \in Keys
  PROVE  w \in Wanted' <=> AskedFor(w, likes', comments', follows')
<1>1. Wanted' = WantedOf(likes', comments', follows')
  BY DEF Wanted, WantedOf
<1>2. likes' \in SUBSET (Users \X Posts) /\ follows' \in SUBSET (Users \X Users)
  BY DEF TypeOK
<1> QED
  BY <1>1, <1>2, WantedByType

(* A notification that is wanted is of users, and not about what is gone.   *)
LEMMA WantedStands ==
  ASSUME TypeOK, TablesAgree, NEW w \in Wanted
  PROVE  w \in Keys /\ ~Gone(w)
<1>1. ASSUME NEW l \in likes, l[1] # Author[l[2]], w = <<Author[l[2]], l[1], "like", l[2]>>
      PROVE  w \in Keys /\ ~Gone(w)
  <2>1. l[1] \in Users /\ l[2] \in Posts /\ Author[l[2]] \in Users /\ l[2] \in posts
    BY <1>1 DEF TypeOK, TablesAgree
  <2> QED
    BY <1>1, <2>1 DEF Keys, Gone
<1>2. ASSUME NEW k \in comments, k.actor # Author[k.post], w = <<Author[k.post], k.actor, "comment", k.id>>
      PROVE  w \in Keys /\ ~Gone(w)
  <2>1. k.actor \in Users /\ k.post \in Posts /\ Author[k.post] \in Users /\ k.post \in posts /\ k.id \in Comments
    BY <1>2 DEF TypeOK, TablesAgree
  <2>2. \A j \in written : j.id = k.id => j = k
    BY DEF TypeOK, TablesAgree
  <2> QED
    BY <1>2, <2>1, <2>2 DEF Keys, Gone
<1>3. ASSUME NEW f \in follows, w = <<f[2], f[1], "follow", f[1]>>
      PROVE  w \in Keys /\ ~Gone(w)
  <2>1. f[1] \in Users /\ f[2] \in Users /\ f[1] # f[2]
    BY <1>3 DEF TypeOK, TablesAgree
  <2> QED
    BY <1>3, <2>1 DEF Keys, Gone
<1> QED
  BY <1>1, <1>2, <1>3 DEF Wanted

-----------------------------------------------------------------------------
(* The notifications are a client of the pipeline, too.                     *)
LEMMA DomainInserts ==
  ASSUME TypeOK, Domain
  PROVE  \E e \in NotificationEvents : InsertNext(e)
<1>1. ASSUME NEW op \in {"like", "unlike", "comment", "uncomment", "follow", "unfollow"},
             NEW actor \in Users, NEW recipient \in Users, NEW entity \in Posts \cup Comments \cup Users,
             Act(op, actor, recipient, entity)
      PROVE  \E e \in NotificationEvents : InsertNext(e)
  <2>1. PICK e : e = [topic |-> Activity, op |-> op, actor |-> actor, recipient |-> recipient, entity |-> entity]
    OBVIOUS
  <2>2. e \in NotificationEvents
    BY <2>1 DEF NotificationEvents, Activities
  <2> QED
    BY <1>1, <2>1, <2>2 DEF Act
<1>2. ASSUME NEW u \in Users, NEW p \in Posts, LikePost(u, p) \/ UnlikePost(u, p)
      PROVE  \E e \in NotificationEvents : InsertNext(e)
  BY <1>1, <1>2 DEF LikePost, UnlikePost
<1>3. ASSUME NEW u \in Users, NEW p \in Posts, NEW c \in Comments, CreateComment(u, p, c)
      PROVE  \E e \in NotificationEvents : InsertNext(e)
  BY <1>1, <1>3 DEF CreateComment
<1>4. ASSUME NEW u \in Users, NEW k \in comments, DeleteComment(u, k)
      PROVE  \E e \in NotificationEvents : InsertNext(e)
  <2>1. k \in [id : Comments, post : Posts, actor : Users]
    BY DEF TypeOK
  <2> QED
    BY <1>1, <1>4, <2>1 DEF DeleteComment
<1>5. ASSUME NEW u \in Users, NEW v \in Users, FollowUser(u, v) \/ UnfollowUser(u, v)
      PROVE  \E e \in NotificationEvents : InsertNext(e)
  BY <1>1, <1>5 DEF FollowUser, UnfollowUser
<1>6. ASSUME NEW p \in Posts, DeletePost(p) PROVE \E e \in NotificationEvents : InsertNext(e)
  <2>1. PICK ids : ids = {k.id : k \in {k \in comments : k.post = p}}
    OBVIOUS
  <2>2. \A k \in comments : k \in [id : Comments, post : Posts, actor : Users]
    BY DEF TypeOK
  <2>3. ids \subseteq Comments
    BY <2>1, <2>2
  <2>4. PICK e : e = [topic |-> EntityChanges, op |-> "delete", post |-> p, comments |-> ids]
    OBVIOUS
  <2>5. e \in NotificationEvents
    BY <2>3, <2>4 DEF NotificationEvents, PostDeletions
  <2> QED
    BY <1>6, <2>1, <2>4, <2>5 DEF DeletePost
<1> QED
  BY <1>2, <1>3, <1>4, <1>5, <1>6 DEF Domain

(* A step is the domain's or leaves its tables alone.                       *)
LEMMA OnlyDomain ==
  ASSUME [Next]_vars
  PROVE  \/ Domain /\ UNCHANGED <<groupVars, notifs, drops>>
         \/ QuietStep /\ UNCHANGED domainVars
<1>1. ASSUME NEW c \in Consumers, NEW t \in Topics, NEW o \in batch[c][t], Handle(c, t, o),
             UNCHANGED <<outboxVars, domainVars>>
      PROVE  QuietStep /\ UNCHANGED domainVars
  <2>1. HandleRecord(c, t, o)
    BY <1>1 DEF Handle
  <2> QED
    BY <1>1, <2>1 DEF QuietStep
<1>2. CASE (\E r \in Relays : RelayNext(r)) /\ UNCHANGED <<groupVars, domainVars, notifs, drops>>
  BY <1>2 DEF QuietStep
<1>3. CASE GroupControl /\ UNCHANGED <<outboxVars, domainVars, notifs, drops>>
  BY <1>3 DEF QuietStep
<1>4. CASE (\E n \in notifs : MarkRead(n)) /\ UNCHANGED <<outboxVars, groupVars, domainVars, drops>>
  BY <1>4 DEF QuietStep
<1>5. CASE UNCHANGED vars
  BY <1>5 DEF vars, QuietStep
<1> QED
  BY <1>1, <1>2, <1>3, <1>4, <1>5 DEF Next

(* Either way it is a step of the pipeline.                                 *)
LEMMA NotificationsStepPipeline == TypeOK /\ [Next]_vars => PipelineStep
BY DomainInserts, OnlyDomain, EventsOfNotificationsAssumption DEF PipelineStep

(* Every behaviour of the notifications is one of the pipeline, so all that *)
(* is proved of the pipeline holds under them.                              *)
THEOREM NotificationsUsePipeline == Spec => PipelineSpec
<1>1. Init => PipelineInit
  BY DEF Init, PipelineInit
<1>2. NotificationsIInv /\ [Next]_vars => [PipelineNext]_pipelineVars
  BY NotificationsStepPipeline, StepIsPipelines DEF NotificationsIInv, NotificationsInv
<1> QED
  BY <1>1, <1>2, NotificationsInvariant, PTL DEF Spec, PipelineSpec

-----------------------------------------------------------------------------
(* A row is of a notification, and its event is in the outbox.              *)
LEMMA RowsHaveEvents ==
  ASSUME InOrder, NotificationsIInv, NEW n \in notifs
  PROVE  /\ n \in Notification /\ n.external_id \in Ids /\ Tuple(n) \in Keys
         /\ Has(n.external_id, On(Tuple(n)))
         /\ outbox[n.external_id] = ActEvent(n.type, n.actor_id, n.user_id, n.entity_id)
<1>1. n \in Notification /\ FromEvent(n)
  BY RowsSplit DEF NotificationsIInv, NotificationsInv, TypeOK
<1>2. /\ n.external_id \in Ids /\ n.user_id \in Users /\ n.actor_id \in Users /\ n.user_id # n.actor_id
      /\ n.type \in {"like", "comment", "follow"} /\ n.entity_id \in Posts \cup Comments \cup Users
  BY <1>1 DEF Notification, FromEvent
<1>3. Tuple(n) \in Keys
  BY <1>2 DEF Tuple, Keys
<1>4. PICK i \in 1..Len(log[Activity]) :
        /\ log[Activity][i].key = n.external_id
        /\ log[Activity][i].value.op = n.type
        /\ log[Activity][i].value.actor = n.actor_id
        /\ log[Activity][i].value.recipient = n.user_id
        /\ log[Activity][i].value.entity = n.entity_id
  BY <1>1 DEF FromEvent
<1>5. PICK e : e = log[Activity][i].value
  OBVIOUS
<1>6. e \in NotificationEvents /\ e.topic = Activity
  BY <1>5, RecordsAreTyped DEF NotificationsIInv, Records
<1>7. e \in Activities({"like", "unlike", "comment", "uncomment", "follow", "unfollow"})
  BY <1>6 DEF NotificationEvents, PostDeletions, Activity, EntityChanges
<1>8. e = [topic |-> Activity, op |-> e.op, actor |-> e.actor, recipient |-> e.recipient, entity |-> e.entity]
  BY <1>7 DEF Activities
<1>9. e = ActEvent(n.type, n.actor_id, n.user_id, n.entity_id)
  BY <1>4, <1>5, <1>8 DEF ActEvent
<1>10. status[n.external_id] # "none" /\ outbox[n.external_id] = e
  BY <1>4, <1>5 DEF InOrder, OrderInv, LogHoldsRows
<1>11. e \in On(Tuple(n))
  BY <1>9 DEF On, Tuple
<1> QED
  BY <1>1, <1>2, <1>3, <1>9, <1>10, <1>11 DEF Has

(* What an event that is handed over is.                                    *)
LEMMA HandedEvent ==
  ASSUME InOrder, NotificationsIInv, NEW c \in Consumers, NEW t \in Topics, NEW o \in batch[c][t]
  PROVE  /\ log[t][o].key \in Ids /\ log[t][o].value = outbox[log[t][o].key]
         /\ \A S : Has(log[t][o].key, S) <=> log[t][o].value \in S
         /\ t = Activity =>
              /\ log[t][o].value \in Activities({"like", "unlike", "comment", "uncomment", "follow", "unfollow"})
              /\ log[t][o].value =
                   ActEvent(log[t][o].value.op, log[t][o].value.actor, log[t][o].value.recipient, log[t][o].value.entity)
         /\ t # Activity => log[t][o].value \in PostDeletions
<1>1. PICK e : e = log[t][o].value
  OBVIOUS
<1>2. /\ o \in 1..Len(log[t]) /\ log[t][o].key \in Ids /\ status[log[t][o].key] # "none"
      /\ e = outbox[log[t][o].key] /\ e.topic = t
  BY <1>1, HandedOver
<1>3. e \in NotificationEvents
  <2>1. LogOK
    BY DEF NotificationsIInv
  <2>2. log[t][o] \in Records
    BY <1>2, <2>1, RecordsAreTyped
  <2> QED
    BY <1>1, <2>2 DEF Records
<1>4. CASE t = Activity
  <2>1. e \in Activities({"like", "unlike", "comment", "uncomment", "follow", "unfollow"})
    BY <1>2, <1>3, <1>4 DEF NotificationEvents, PostDeletions, Activity, EntityChanges
  <2>2. e = ActEvent(e.op, e.actor, e.recipient, e.entity)
    BY <2>1 DEF Activities, ActEvent
  <2> QED
    BY <1>1, <1>2, <1>4, <2>1, <2>2 DEF Has
<1>5. CASE t # Activity
  BY <1>1, <1>2, <1>3, <1>5 DEF NotificationEvents, Activities, Has
<1> QED
  BY <1>4, <1>5

-----------------------------------------------------------------------------
(* Which notification an event of the activity topic takes back.            *)
LEMMA WhatTakesBack ==
  ASSUME NEW w \in Keys, NEW op, NEW actor \in Users, NEW recipient \in Users,
         NEW entity \in Posts \cup Comments \cup Users
  PROVE  ActEvent(op, actor, recipient, entity) \in Off(w) <=>
           \/ op = "unlike" /\ w[3] = "like" /\ actor = w[2] /\ recipient = w[1] /\ entity = w[4]
           \/ op = "unfollow" /\ w[3] = "follow" /\ actor = w[2] /\ recipient = w[1] /\ entity = w[4]
           \/ op = "uncomment" /\ w[3] = "comment" /\ entity = w[4]
<1>1. PICK e : e = ActEvent(op, actor, recipient, entity)
  OBVIOUS
<1>2. e.op = op /\ e.actor = actor /\ e.recipient = recipient /\ e.entity = entity
  BY <1>1 DEF ActEvent
<1>3. e \in Activities({"unlike", "unfollow", "uncomment"}) <=> op \in {"unlike", "unfollow", "uncomment"}
  BY <1>1 DEF ActEvent, Activities
<1> QED
  BY <1>1, <1>2, <1>3 DEF Off, TakesBack

(* What a transaction and its event do to a notification: it is asked for   *)
(* that was not wanted, or it is taken back, or the event says nothing.     *)
Tells(e, w) ==
  \/ e \in On(w) /\ w \notin Wanted /\ w \in Wanted'
  \/ e \in Off(w) /\ w \notin Wanted'
  \/ e \notin On(w) /\ e \notin Off(w) /\ (w \in Wanted <=> w \in Wanted')

(* The transactions of a like ...                                           *)
LEMMA LikesTell ==
  ASSUME TypeOK, TypeOK', TablesAgree, NEW u \in Users, NEW p \in Posts, LikePost(u, p) \/ UnlikePost(u, p)
  PROVE  \E e \in NotificationEvents :
           InsertNext(e) /\ e \notin PostDeletions /\ \A w \in Keys : Tells(e, w)
<1>1. PICK op \in {"like", "unlike"} :
        /\ op = "like" => <<u, p>> \notin likes /\ likes' = likes \cup {<<u, p>>}
        /\ op = "unlike" => <<u, p>> \in likes /\ likes' = likes \ {<<u, p>>}
        /\ Act(op, u, Author[p], p)
        /\ comments' = comments /\ follows' = follows
  BY DEF LikePost, UnlikePost
<1>2. PICK e : e = ActEvent(op, u, Author[p], p)
  OBVIOUS
<1>3. Author[p] \in Users
  OBVIOUS
<1>4. e \in NotificationEvents /\ InsertNext(e) /\ e \notin PostDeletions
  BY <1>1, <1>2, <1>3
     DEF ActEvent, Act, NotificationEvents, Activities, PostDeletions, Activity, EntityChanges
<1>5. ASSUME NEW w \in Keys PROVE Tells(e, w)
  <2>1. /\ w \in Wanted <=> AskedFor(w, likes, comments, follows)
        /\ w \in Wanted' <=> AskedFor(w, likes', comments', follows')
    BY WantedNow, WantedNext
  <2>2. e \in On(w) <=> w = <<Author[p], u, op, p>>
    BY <1>2, EventsOfKeys
  <2>3. e \in Off(w) <=> op = "unlike" /\ w[3] = "like" /\ u = w[2] /\ Author[p] = w[1] /\ p = w[4]
    BY <1>1, <1>2, <1>3, WhatTakesBack
  <2>4. w = <<w[1], w[2], w[3], w[4]>> /\ w[3] \in {"like", "comment", "follow"}
    BY EventsOfKeys
  <2>5. CASE w[3] = "like"
    <3>1. /\ w \in Wanted <=> <<w[2], w[4]>> \in likes /\ w[1] = Author[w[4]]
          /\ w \in Wanted' <=> <<w[2], w[4]>> \in likes' /\ w[1] = Author[w[4]]
      BY <1>1, <2>1, <2>5 DEF AskedFor
    <3>2. CASE op = "like"
      BY <1>1, <2>2, <2>3, <2>4, <2>5, <3>1, <3>2 DEF Tells
    <3>3. CASE op = "unlike"
      BY <1>1, <2>2, <2>3, <2>4, <2>5, <3>1, <3>3 DEF Tells
    <3> QED
      BY <3>2, <3>3
  <2>6. CASE w[3] # "like"
    <3>1. w \in Wanted <=> w \in Wanted'
      BY <1>1, <2>1, <2>4, <2>6 DEF AskedFor
    <3> QED
      BY <2>2, <2>3, <2>4, <2>6, <3>1 DEF Tells
  <2> QED
    BY <2>5, <2>6
<1> QED
  BY <1>4, <1>5

(* ... of a follow ...                                                      *)
LEMMA FollowsTell ==
  ASSUME TypeOK, TypeOK', TablesAgree, NEW u \in Users, NEW v \in Users, FollowUser(u, v) \/ UnfollowUser(u, v)
  PROVE  \E e \in NotificationEvents :
           InsertNext(e) /\ e \notin PostDeletions /\ \A w \in Keys : Tells(e, w)
<1>1. PICK op \in {"follow", "unfollow"} :
        /\ op = "follow" => <<u, v>> \notin follows /\ follows' = follows \cup {<<u, v>>}
        /\ op = "unfollow" => <<u, v>> \in follows /\ follows' = follows \ {<<u, v>>}
        /\ Act(op, u, v, u)
        /\ comments' = comments /\ likes' = likes
  BY DEF FollowUser, UnfollowUser
<1>2. PICK e : e = ActEvent(op, u, v, u)
  OBVIOUS
<1>3. e \in NotificationEvents /\ InsertNext(e) /\ e \notin PostDeletions
  BY <1>1, <1>2
     DEF ActEvent, Act, NotificationEvents, Activities, PostDeletions, Activity, EntityChanges
<1>4. ASSUME NEW w \in Keys PROVE Tells(e, w)
  <2>1. /\ w \in Wanted <=> AskedFor(w, likes, comments, follows)
        /\ w \in Wanted' <=> AskedFor(w, likes', comments', follows')
    BY WantedNow, WantedNext
  <2>2. e \in On(w) <=> w = <<v, u, op, u>>
    BY <1>2, EventsOfKeys
  <2>3. e \in Off(w) <=> op = "unfollow" /\ w[3] = "follow" /\ u = w[2] /\ v = w[1] /\ u = w[4]
    BY <1>1, <1>2, WhatTakesBack
  <2>4. w = <<w[1], w[2], w[3], w[4]>> /\ w[3] \in {"like", "comment", "follow"}
    BY EventsOfKeys
  <2>5. CASE w[3] = "follow"
    <3>1. /\ w \in Wanted <=> <<w[2], w[1]>> \in follows /\ w[4] = w[2]
          /\ w \in Wanted' <=> <<w[2], w[1]>> \in follows' /\ w[4] = w[2]
      BY <1>1, <2>1, <2>5 DEF AskedFor
    <3>2. CASE op = "follow"
      BY <1>1, <2>2, <2>3, <2>4, <2>5, <3>1, <3>2 DEF Tells
    <3>3. CASE op = "unfollow"
      BY <1>1, <2>2, <2>3, <2>4, <2>5, <3>1, <3>3 DEF Tells
    <3> QED
      BY <3>2, <3>3
  <2>6. CASE w[3] # "follow"
    <3>1. w \in Wanted <=> w \in Wanted'
      BY <1>1, <2>1, <2>4, <2>6 DEF AskedFor
    <3> QED
      BY <2>2, <2>3, <2>4, <2>6, <3>1 DEF Tells
  <2> QED
    BY <2>5, <2>6
<1> QED
  BY <1>3, <1>4

(* ... of a comment, whose id is nobody else's ...                          *)
LEMMA CommentsTell ==
  ASSUME TypeOK, TypeOK', TablesAgree, NEW u \in Users, NEW p \in Posts, NEW c \in Comments, CreateComment(u, p, c)
  PROVE  \E e \in NotificationEvents :
           InsertNext(e) /\ e \notin PostDeletions /\ \A w \in Keys : Tells(e, w)
<1>1. PICK k : k = [id |-> c, post |-> p, actor |-> u]
  OBVIOUS
<1>2. k.id = c /\ k.post = p /\ k.actor = u
  BY <1>1
<1>3. /\ comments' = comments \cup {k} /\ likes' = likes /\ follows' = follows
      /\ \A j \in comments : j.id # c
      /\ Act("comment", u, Author[p], c)
  BY <1>1 DEF CreateComment, TypeOK
<1>4. PICK e : e = ActEvent("comment", u, Author[p], c)
  OBVIOUS
<1>5. Author[p] \in Users
  OBVIOUS
<1>6. e \in NotificationEvents /\ InsertNext(e) /\ e \notin PostDeletions
  BY <1>3, <1>4, <1>5
     DEF ActEvent, Act, NotificationEvents, Activities, PostDeletions, Activity, EntityChanges
<1>7. ASSUME NEW w \in Keys PROVE Tells(e, w)
  <2>1. /\ w \in Wanted <=> AskedFor(w, likes, comments, follows)
        /\ w \in Wanted' <=> AskedFor(w, likes', comments', follows')
    BY WantedNow, WantedNext
  <2>2. e \in On(w) <=> w = <<Author[p], u, "comment", c>>
    BY <1>4, EventsOfKeys
  <2>3. e \notin Off(w)
    BY <1>4, <1>5, WhatTakesBack
  <2>4. w = <<w[1], w[2], w[3], w[4]>> /\ w[3] \in {"like", "comment", "follow"}
    BY EventsOfKeys
  <2>5. CASE w[3] = "comment"
    <3>1. /\ w \in Wanted <=> \E j \in comments : j.id = w[4] /\ j.actor = w[2] /\ Author[j.post] = w[1]
          /\ w \in Wanted' <=> \E j \in comments' : j.id = w[4] /\ j.actor = w[2] /\ Author[j.post] = w[1]
      BY <2>1, <2>5 DEF AskedFor
    <3>2. CASE w = <<Author[p], u, "comment", c>>
      <4>1. w \notin Wanted /\ w \in Wanted'
        BY <1>2, <1>3, <3>1, <3>2
      <4> QED
        BY <2>2, <3>2, <4>1 DEF Tells
    <3>3. CASE w # <<Author[p], u, "comment", c>>
      <4>1. ~(k.id = w[4] /\ k.actor = w[2] /\ Author[k.post] = w[1])
        BY <1>2, <2>4, <2>5, <3>3
      <4>2. w \in Wanted <=> w \in Wanted'
        BY <1>3, <3>1, <4>1
      <4> QED
        BY <2>2, <2>3, <3>3, <4>2 DEF Tells
    <3> QED
      BY <3>2, <3>3
  <2>6. CASE w[3] # "comment"
    <3>1. w \in Wanted <=> w \in Wanted'
      BY <1>3, <2>1, <2>4, <2>6 DEF AskedFor
    <3> QED
      BY <2>2, <2>3, <2>4, <2>6, <3>1 DEF Tells
  <2> QED
    BY <2>5, <2>6
<1> QED
  BY <1>6, <1>7

(* ... of one taken back, by its author or the owner of the post ...        *)
LEMMA UncommentsTell ==
  ASSUME TypeOK, TypeOK', TablesAgree, NEW u \in Users, NEW k \in comments, DeleteComment(u, k)
  PROVE  \E e \in NotificationEvents :
           InsertNext(e) /\ e \notin PostDeletions /\ \A w \in Keys : Tells(e, w)
<1>1. k.id \in Comments /\ k.post \in Posts /\ k.actor \in Users /\ Author[k.post] \in Users
  BY DEF TypeOK
<1>2. \A j \in comments : j.id = k.id => j = k
  BY DEF TypeOK, TablesAgree
<1>3. comments' = comments \ {k} /\ likes' = likes /\ follows' = follows /\ Act("uncomment", u, Author[k.post], k.id)
  BY DEF DeleteComment
<1>4. PICK e : e = ActEvent("uncomment", u, Author[k.post], k.id)
  OBVIOUS
<1>5. e \in NotificationEvents /\ InsertNext(e) /\ e \notin PostDeletions
  BY <1>1, <1>3, <1>4
     DEF ActEvent, Act, NotificationEvents, Activities, PostDeletions, Activity, EntityChanges
<1>6. ASSUME NEW w \in Keys PROVE Tells(e, w)
  <2>1. /\ w \in Wanted <=> AskedFor(w, likes, comments, follows)
        /\ w \in Wanted' <=> AskedFor(w, likes', comments', follows')
    BY WantedNow, WantedNext
  <2>2. w[3] \in {"like", "comment", "follow"}
    BY EventsOfKeys
  <2>3. e \notin On(w)
    BY <1>4, EventsOfKeys, <2>2
  <2>4. e \in Off(w) <=> w[3] = "comment" /\ k.id = w[4]
    BY <1>1, <1>4, WhatTakesBack
  <2>5. CASE w[3] = "comment"
    <3>1. /\ w \in Wanted <=> \E j \in comments : j.id = w[4] /\ j.actor = w[2] /\ Author[j.post] = w[1]
          /\ w \in Wanted' <=> \E j \in comments' : j.id = w[4] /\ j.actor = w[2] /\ Author[j.post] = w[1]
      BY <2>1, <2>5 DEF AskedFor
    <3> QED
      BY <1>2, <1>3, <2>3, <2>4, <2>5, <3>1 DEF Tells
  <2>6. CASE w[3] # "comment"
    BY <1>3, <2>1, <2>2, <2>3, <2>4, <2>6 DEF AskedFor, Tells
  <2> QED
    BY <2>5, <2>6
<1> QED
  BY <1>5, <1>6

(* ... and the deletion of a post, which says nothing of what it leaves.    *)
LEMMA DeletionsTell ==
  ASSUME TypeOK, TypeOK', TablesAgree, NEW p \in Posts, DeletePost(p)
  PROVE  \E e \in NotificationEvents :
           InsertNext(e) /\ ToldGone(e)' /\ \A w \in Keys : ~Gone(w)' => Tells(e, w)
<1>1. PICK ids : ids = {k.id : k \in {k \in comments : k.post = p}}
  OBVIOUS
<1>2. \A k \in comments : k \in [id : Comments, post : Posts, actor : Users] /\ k \in written
  BY DEF TypeOK
<1>3. ids \subseteq Comments
  BY <1>1, <1>2
<1>4. PICK e : e = [topic |-> EntityChanges, op |-> "delete", post |-> p, comments |-> ids]
  OBVIOUS
<1>5. e \in PostDeletions /\ e \in NotificationEvents /\ e.post = p /\ e.comments = ids
  BY <1>3, <1>4 DEF NotificationEvents, PostDeletions
<1>6. /\ InsertNext(e) /\ posts' = posts \ {p} /\ written' = written /\ follows' = follows
      /\ likes' = {l \in likes : l[2] # p} /\ comments' = comments \ {k \in comments : k.post = p}
  BY <1>1, <1>4 DEF DeletePost
<1>7. ToldGone(e)'
  BY <1>1, <1>2, <1>5, <1>6 DEF ToldGone
<1>8. ASSUME NEW w \in Keys, ~Gone(w)' PROVE Tells(e, w)
  <2>1. /\ w \in Wanted <=> AskedFor(w, likes, comments, follows)
        /\ w \in Wanted' <=> AskedFor(w, likes', comments', follows')
    BY WantedNow, WantedNext
  <2>2. e \notin On(w) /\ e \notin Off(w)
    BY <1>5, EventsOfKeys
  <2>3. CASE w[3] = "like"
    <3>1. w[4] # p
      BY <1>6, <1>8, <2>3 DEF Gone
    <3> QED
      BY <1>6, <2>1, <2>2, <2>3, <3>1 DEF AskedFor, Tells
  <2>4. CASE w[3] = "comment"
    <3>1. \A k \in comments : k.id = w[4] => k.post # p
      BY <1>2, <1>6, <1>8, <2>4 DEF Gone
    <3>2. AskedFor(w, likes, comments, follows) <=> AskedFor(w, likes', comments', follows')
      BY <1>6, <2>4, <3>1 DEF AskedFor
    <3> QED
      BY <2>1, <2>2, <3>2 DEF Tells
  <2>5. CASE w[3] = "follow"
    BY <1>6, <2>1, <2>2, <2>5 DEF AskedFor, Tells
  <2> QED
    BY <2>3, <2>4, <2>5, EventsOfKeys
<1> QED
  BY <1>5, <1>6, <1>7, <1>8

(* So every transaction's event says what it did to what is wanted.         *)
LEMMA DomainTells ==
  ASSUME TypeOK, TypeOK', TablesAgree, Domain
  PROVE  \E e \in NotificationEvents :
           /\ InsertNext(e) /\ (e \in PostDeletions => ToldGone(e)')
           /\ \A w \in Keys : ~Gone(w)' => Tells(e, w)
<1>1. ASSUME NEW u \in Users, NEW p \in Posts, LikePost(u, p) \/ UnlikePost(u, p)
      PROVE  \E e \in NotificationEvents :
               InsertNext(e) /\ e \notin PostDeletions /\ \A w \in Keys : Tells(e, w)
  BY <1>1, LikesTell
<1>2. ASSUME NEW u \in Users, NEW v \in Users, FollowUser(u, v) \/ UnfollowUser(u, v)
      PROVE  \E e \in NotificationEvents :
               InsertNext(e) /\ e \notin PostDeletions /\ \A w \in Keys : Tells(e, w)
  BY <1>2, FollowsTell
<1>3. ASSUME NEW u \in Users, NEW p \in Posts, NEW c \in Comments, CreateComment(u, p, c)
      PROVE  \E e \in NotificationEvents :
               InsertNext(e) /\ e \notin PostDeletions /\ \A w \in Keys : Tells(e, w)
  BY <1>3, CommentsTell
<1>4. ASSUME NEW u \in Users, NEW k \in comments, DeleteComment(u, k)
      PROVE  \E e \in NotificationEvents :
               InsertNext(e) /\ e \notin PostDeletions /\ \A w \in Keys : Tells(e, w)
  BY <1>4, UncommentsTell
<1>5. ASSUME NEW p \in Posts, DeletePost(p)
      PROVE  \E e \in NotificationEvents :
               InsertNext(e) /\ ToldGone(e)' /\ \A w \in Keys : ~Gone(w)' => Tells(e, w)
  BY <1>5, DeletionsTell
<1> QED
  BY <1>1, <1>2, <1>3, <1>4, <1>5 DEF Domain

-----------------------------------------------------------------------------
(* Posts go for good, and comments are never forgotten ...                  *)
LEMMA TablesShrink == TypeOK /\ Domain => posts' \subseteq posts /\ written \subseteq written'
  BY DEF Domain, LikePost, UnlikePost, CreateComment, DeleteComment, FollowUser, UnfollowUser, DeletePost

(* ... so what is gone stays gone.                                          *)
LEMMA GoneForGood ==
  ASSUME TypeOK, [Next]_vars
  PROVE  posts' \subseteq posts /\ written \subseteq written' /\ \A w \in Keys : Gone(w) => Gone(w)'
<1>1. posts' \subseteq posts /\ written \subseteq written'
  BY TablesShrink, OnlyDomain DEF domainVars
<1> QED
  BY <1>1 DEF Gone

(* The tables agree with each other ...                                     *)
LEMMA TablesStay ==
  ASSUME TypeOK, TablesAgree, Domain
  PROVE  /\ \A l \in likes' : l[2] \in posts'
         /\ \A k \in comments' : k.post \in posts'
         /\ \A j, k \in written' : j.id = k.id => j = k
         /\ \A f \in follows' : f[1] # f[2]
<1> USE DEF TypeOK, TablesAgree
<1>1. ASSUME NEW u \in Users, NEW p \in Posts, LikePost(u, p) \/ UnlikePost(u, p)
      PROVE  (\A l \in likes' : l[2] \in posts) /\ UNCHANGED <<posts, comments, written, follows>>
  BY <1>1 DEF LikePost, UnlikePost
<1>2. ASSUME NEW u \in Users, NEW v \in Users, FollowUser(u, v) \/ UnfollowUser(u, v)
      PROVE  (\A f \in follows' : f[1] # f[2]) /\ UNCHANGED <<posts, likes, comments, written>>
  BY <1>2 DEF FollowUser, UnfollowUser
<1>3. ASSUME NEW u \in Users, NEW p \in Posts, NEW c \in Comments, CreateComment(u, p, c)
      PROVE  /\ \A k \in comments' : k.post \in posts
             /\ \A j, k \in written' : j.id = k.id => j = k
             /\ UNCHANGED <<posts, likes, follows>>
  <2>1. PICK k : k = [id |-> c, post |-> p, actor |-> u]
    OBVIOUS
  <2>2. k.id = c /\ k.post = p
    BY <2>1
  <2> QED
    BY <1>3, <2>1, <2>2 DEF CreateComment
<1>4. ASSUME NEW u \in Users, NEW k \in comments, DeleteComment(u, k)
      PROVE  comments' \subseteq comments /\ UNCHANGED <<posts, likes, written, follows>>
  BY <1>4 DEF DeleteComment
<1>5. ASSUME NEW p \in Posts, DeletePost(p)
      PROVE  /\ \A l \in likes' : l[2] \in posts'
             /\ \A k \in comments' : k.post \in posts'
             /\ UNCHANGED <<written, follows>>
  BY <1>5 DEF DeletePost
<1> QED
  BY <1>1, <1>2, <1>3, <1>4, <1>5 DEF Domain

(* ... and with the deletions that were told of.                            *)
LEMMA TablesAgreeStep ==
  ASSUME InOrder, IInv', OneRelay, OneConsumer, TypeOK, TypeOK', TablesAgree, [Next]_vars
  PROVE  TablesAgree'
<1>1. posts' \subseteq posts /\ written \subseteq written'
  BY GoneForGood
<1>2. \A e : ToldGone(e) => ToldGone(e)'
  BY <1>1 DEF ToldGone
<1>3. ASSUME NEW id \in Ids, Has(id, PostDeletions)' PROVE ToldGone(outbox[id])'
  <2>1. PICK x : x = outbox'[id]
    OBVIOUS
  <2>2. Has(id, {x})' /\ x \in PostDeletions
    BY <1>3, <2>1 DEF Has
  <2>3. Has(id, {x}) => ToldGone(x)
    BY <2>2 DEF Has, TablesAgree
  <2>4. CASE Domain /\ UNCHANGED <<groupVars, notifs, drops>>
    <3>1. PICK e \in NotificationEvents : InsertNext(e) /\ (e \in PostDeletions => ToldGone(e)')
      BY <2>4, DomainTells
    <3>2. Has(id, {x})' => Has(id, {x}) \/ e \in {x}
      BY <2>4, <3>1, EventInserted, EventsOfNotificationsAssumption
    <3>3. ToldGone(x)'
      BY <1>2, <2>2, <2>3, <3>1, <3>2
    <3> QED
      BY <2>1, <3>3 DEF ToldGone
  <2>5. CASE QuietStep /\ UNCHANGED domainVars
    <3>1. Has(id, {x})
      BY <2>2, <2>5, QuietKeepsRows
    <3>2. ToldGone(x)'
      BY <1>2, <2>3, <3>1
    <3> QED
      BY <2>1, <3>2 DEF ToldGone
  <2> QED
    BY <2>4, <2>5, OnlyDomain
<1>4. CASE Domain /\ UNCHANGED <<groupVars, notifs, drops>>
  BY <1>3, <1>4, TablesStay DEF TablesAgree
<1>5. CASE QuietStep /\ UNCHANGED domainVars
  BY <1>3, <1>5 DEF TablesAgree, domainVars
<1> QED
  BY <1>4, <1>5, OnlyDomain

(* What is wanted is asked for and taken back in turn, after every step.    *)
LEMMA AlternatesStep ==
  ASSUME InOrder, IInv', OneRelay, OneConsumer, TypeOK, TypeOK', TablesAgree, Alternates, [Next]_vars
  PROVE  Alternates'
<1> SUFFICES ASSUME NEW w \in Keys, ~Gone(w)'
             PROVE  /\ Separated(On(w), Off(w))'
                    /\ w \in Wanted' => Superseded(Off(w), On(w))'
                    /\ w \notin Wanted' => Superseded(On(w), Off(w))'
  BY DEF Alternates
<1>1. ~Gone(w)
  BY GoneForGood
<1>2. /\ Separated(On(w), Off(w))
      /\ w \in Wanted => Superseded(Off(w), On(w))
      /\ w \notin Wanted => Superseded(On(w), Off(w))
  BY <1>1 DEF Alternates
<1>3. CASE Domain /\ UNCHANGED <<groupVars, notifs, drops>>
  <2>1. PICK e \in NotificationEvents : InsertNext(e) /\ Tells(e, w)
    BY <1>3, DomainTells
  <2>2. e \in Events
    BY EventsOfNotificationsAssumption
  <2>3. /\ \A S, T : e \in T /\ e \notin S => Superseded(S, T)'
        /\ \A S, T : e \notin S /\ Superseded(S, T) => Superseded(S, T)'
    BY <1>3, <2>1, <2>2, EventInserted
  <2>4. Separated(On(w), Off(w)) /\ (e \in On(w) => Superseded(On(w), Off(w))) => Separated(On(w), Off(w))'
    BY <1>3, <2>1, <2>2, InsertKeepsApart
  <2>5. (e \in On(w) => e \notin Off(w)) /\ (e \in Off(w) => e \notin On(w))
    BY EventsOfKeys
  <2> QED
    BY <1>2, <2>1, <2>3, <2>4, <2>5 DEF Tells
<1>4. CASE QuietStep /\ UNCHANGED domainVars
  <2>1. \A S : \A i \in Ids : Has(i, S)' <=> Has(i, S)
    BY <1>4, QuietKeepsRows
  <2>2. Wanted' = Wanted
    BY <1>4 DEF domainVars, Wanted
  <2> QED
    BY <1>2, <2>1, <2>2 DEF Separated, Superseded
<1> QED
  BY <1>3, <1>4, OnlyDomain

-----------------------------------------------------------------------------
(* While nobody handles a record, what is missing is still about to come.   *)
LEMMA DomainConverges ==
  ASSUME InOrder, IInv', NotificationsIInv, TypeOK', TablesAgree, NoneMissing, NoneStale,
         Domain, UNCHANGED <<groupVars, notifs, drops>>
  PROVE  NoneMissing' /\ NoneStale'
<1>1. TypeOK /\ [Next]_vars
  BY DEF NotificationsIInv, NotificationsInv, Next
<1>2. PICK e \in NotificationEvents : InsertNext(e) /\ \A w \in Keys : ~Gone(w)' => Tells(e, w)
  BY <1>1, DomainTells
<1>3. e \in Events
  BY EventsOfNotificationsAssumption
<1>4. \A S : e \in S \/ Coming(S) => Coming(S)'
  BY <1>2, <1>3, EventInserted
<1>5. \A i \in Ids : \A S : AllToCome(i, S) => AllToCome(i, S)'
  BY <1>2, <1>3, InsertKeepsApart
<1>6. ASSUME NEW w \in Keys, ~Gone(w)', w \in Wanted'
      PROVE  (\E n \in notifs : Tuple(n) = w) \/ Coming(On(w))'
  <2>1. ~Gone(w)
    BY <1>1, <1>6, GoneForGood
  <2>2. Tells(e, w)
    BY <1>2, <1>6
  <2>3. CASE e \in On(w)
    BY <1>4, <2>3
  <2>4. CASE w \in Wanted
    BY <1>4, <2>1, <2>4 DEF NoneMissing
  <2> QED
    BY <1>6, <2>2, <2>3, <2>4 DEF Tells
<1>7. NoneMissing'
  BY <1>6 DEF NoneMissing
<1>8. \A n \in notifs : n.external_id \in Ids
  BY RowsHaveEvents
<1>9. NoneStale'
  BY <1>5, <1>8 DEF NoneStale
<1> QED
  BY <1>7, <1>9

(* The relay, the group and a reader change no event and no tuple.          *)
LEMMA OthersConverge ==
  ASSUME InOrder, IInv', OneRelay, OneConsumer, NotificationsIInv, NoneMissing, NoneStale,
         \/ \E r \in Relays : RelayNext(r) /\ UNCHANGED groupVars
         \/ GroupControl /\ UNCHANGED outboxVars
         \/ UNCHANGED <<outboxVars, groupVars>>,
         UNCHANGED domainVars,
         \A n \in notifs : \E m \in notifs' : Tuple(m) = Tuple(n),
         \A m \in notifs' : \E n \in notifs : m.external_id = n.external_id /\ Tuple(m) = Tuple(n)
  PROVE  NoneMissing' /\ NoneStale'
<1>1. /\ \A S : Coming(S) => Coming(S)'
      /\ \A i \in Ids : \A S : AllToCome(i, S) => AllToCome(i, S)'
  BY QuietKeepsComing
<1>2. Wanted' = Wanted /\ \A w : Gone(w)' <=> Gone(w)
  BY DEF domainVars, Wanted, Gone
<1>3. NoneMissing'
  BY <1>1, <1>2 DEF NoneMissing
<1>4. ASSUME NEW m \in notifs' PROVE AllToCome(m.external_id, Off(Tuple(m)))'
  <2>1. PICK n \in notifs : m.external_id = n.external_id /\ Tuple(m) = Tuple(n)
    OBVIOUS
  <2>2. n.external_id \in Ids /\ AllToCome(n.external_id, Off(Tuple(n)))
    BY RowsHaveEvents DEF NoneStale
  <2>3. PICK i, S : i = n.external_id /\ S = Off(Tuple(n))
    OBVIOUS
  <2>4. AllToCome(i, S)'
    BY <1>1, <2>2, <2>3
  <2> QED
    BY <2>1, <2>3, <2>4
<1>5. NoneStale'
  BY <1>4 DEF NoneStale
<1> QED
  BY <1>3, <1>5

-----------------------------------------------------------------------------
(* What the handlers take out of the table: what an event takes back ...    *)
LEMMA TakingBack ==
  ASSUME notifs \subseteq Notification, NEW id, NEW e \in Activities({"unlike", "unfollow", "uncomment"}),
         NEW n \in notifs
  PROVE  n \in HandleActivity(id, e) <=> e \notin Off(Tuple(n))
<1>1. PICK w : w = Tuple(n)
  OBVIOUS
<1>2. w[1] = n.user_id /\ w[2] = n.actor_id /\ w[3] = n.type /\ w[4] = n.entity_id
  BY <1>1 DEF Tuple
<1>3. e \in Off(w) <=> TakesBack(e, w)
  BY DEF Off
<1>4. e.op \in {"unlike", "unfollow", "uncomment"}
  BY DEF Activities
<1>5. CASE e.op = "unlike"
  BY <1>1, <1>2, <1>3, <1>5 DEF HandleActivity, DeleteByActorAndType, TakesBack
<1>6. CASE e.op = "unfollow"
  BY <1>1, <1>2, <1>3, <1>6 DEF HandleActivity, DeleteByActorAndType, TakesBack
<1>7. CASE e.op = "uncomment"
  BY <1>1, <1>2, <1>3, <1>7 DEF HandleActivity, DeleteByEntity, TakesBack
<1> QED
  BY <1>4, <1>5, <1>6, <1>7

(* ... adding nothing ...                                                   *)
LEMMA NothingAdded ==
  ASSUME NEW id, NEW e
  PROVE  /\ e \in Activities({"unlike", "unfollow", "uncomment"}) => HandleActivity(id, e) \subseteq notifs
         /\ HandleEntityChanges(e) \subseteq notifs
<1>1. e \in Activities({"unlike", "unfollow", "uncomment"}) => e.op \in {"unlike", "unfollow", "uncomment"}
  BY DEF Activities
<1> QED
  BY <1>1 DEF HandleActivity, DeleteByActorAndType, DeleteByEntity, HandleEntityChanges

(* ... and what is about the post that a deletion tells of.                 *)
LEMMA DeletionTakes ==
  ASSUME NEW e, ToldGone(e), NEW n \in notifs, ~Gone(Tuple(n))
  PROVE  n \in HandleEntityChanges(e)
<1>1. PICK w : w = Tuple(n)
  OBVIOUS
<1>2. w[3] = n.type /\ w[4] = n.entity_id /\ ~Gone(w)
  BY <1>1 DEF Tuple
<1> QED
  BY <1>2 DEF HandleEntityChanges, DeleteByEntity, ToldGone, Gone

(* When an event is handled that asks for a notification, its row is there; *)
(* what takes it back again follows, however late the event is.             *)
LEMMA AskingConverges ==
  ASSUME InOrder, NotificationsIInv, TablesAgree, Alternates, NoneMissing, NoneStale,
         NEW c \in Consumers, NEW t \in Topics, NEW o \in batch[c][t], HandleRecord(c, t, o),
         t = Activity, log[t][o].value \in Activities({"like", "comment", "follow"}),
         notifs' = HandleActivity(log[t][o].key, log[t][o].value),
         UNCHANGED <<outboxVars, domainVars>>
  PROVE  NoneMissing' /\ NoneStale'
<1>1. PICK id, e : id = log[t][o].key /\ e = log[t][o].value
  OBVIOUS
<1>2. /\ id \in Ids /\ e = outbox[id] /\ \A S : Has(id, S) <=> e \in S
      /\ e = ActEvent(e.op, e.actor, e.recipient, e.entity)
      /\ e \in Activities({"like", "comment", "follow"})
  BY <1>1, HandedEvent
<1>3. /\ e.op \in {"like", "comment", "follow"} /\ e.actor \in Users /\ e.recipient \in Users
      /\ e.entity \in Posts \cup Comments \cup Users
  BY <1>2 DEF Activities
<1>4. \A w \in Keys : e \notin Off(w) /\ (e \in On(w) <=> w = <<e.recipient, e.actor, e.op, e.entity>>)
  BY <1>2, <1>3, WhatTakesBack, EventsOfKeys
<1>5. PICK new : new = NewRow(id, e)
  OBVIOUS
<1>6. new.external_id = id /\ Tuple(new) = <<e.recipient, e.actor, e.op, e.entity>>
  BY <1>5 DEF NewRow, Tuple
<1>7. notifs' = IF e.actor = e.recipient \/ \E n \in notifs : n.external_id = id THEN notifs ELSE notifs \cup {new}
  BY <1>1, <1>3, <1>5 DEF HandleActivity, CreateNotification, NewRow
<1>8. e.actor # e.recipient => <<e.recipient, e.actor, e.op, e.entity>> \in Keys
  BY <1>3 DEF Keys
<1>9. /\ \A S : e \notin S /\ Coming(S) => Coming(S)'
      /\ \A S : (\A x \in S : x.topic = t) => AllToCome(id, S)'
      /\ \A i \in Ids : \A S : e \notin S /\ AllToCome(i, S) => AllToCome(i, S)'
  <2>1. \A S : e \notin S /\ Coming(S) => Coming(S)'
    BY <1>1, EventHandled
  <2>2. \A S : (\A x \in S : x.topic = t) => AllToCome(log[t][o].key, S)'
    BY RestIsToCome
  <2>3. id \in Ids /\ id = log[t][o].key /\ log' = log
    BY <1>1, <1>2 DEF outboxVars
  <2>4. \A S : (\A x \in S : x.topic = t) => AllToCome(id, S)'
    BY <2>2, <2>3
  <2>5. \A i \in Ids : \A S : e \notin S /\ AllToCome(i, S) => AllToCome(i, S)'
    BY <1>1, RestIsToCome
  <2> QED
    BY <2>1, <2>4, <2>5
<1>10. Wanted' = Wanted /\ \A w : Gone(w)' <=> Gone(w)
  BY DEF domainVars, Wanted, Gone
<1>11. ASSUME NEW w \in Keys, e \in On(w) PROVE \E n \in notifs' : Tuple(n) = w
  <2>1. w = <<e.recipient, e.actor, e.op, e.entity>> /\ e.actor # e.recipient
    <3>1. w = <<e.recipient, e.actor, e.op, e.entity>>
      BY <1>4, <1>11
    <3> QED
      BY <3>1, EventsOfKeys
  <2>2. CASE \E n \in notifs : n.external_id = id
    <3>1. PICK n \in notifs : n.external_id = id
      BY <2>2
    <3>2. e \in On(Tuple(n)) /\ Tuple(n) \in Keys
      BY <1>2, <3>1, RowsHaveEvents DEF Has
    <3> QED
      BY <1>4, <1>7, <2>1, <2>2, <3>1, <3>2
  <2>3. CASE ~\E n \in notifs : n.external_id = id
    BY <1>6, <1>7, <2>1, <2>3
  <2> QED
    BY <2>2, <2>3
<1>12. NoneMissing'
  BY <1>7, <1>9, <1>10, <1>11 DEF NoneMissing
<1>13. ASSUME NEW n \in notifs' PROVE AllToCome(n.external_id, Off(Tuple(n)))'
  <2>1. CASE n \in notifs
    <3>1. n.external_id \in Ids /\ Tuple(n) \in Keys /\ AllToCome(n.external_id, Off(Tuple(n)))
      BY <2>1, RowsHaveEvents DEF NoneStale
    <3>2. PICK i, S : i = n.external_id /\ S = Off(Tuple(n))
      OBVIOUS
    <3>3. AllToCome(i, S)'
      BY <1>4, <1>9, <3>1, <3>2
    <3> QED
      BY <3>2, <3>3
  <2>2. CASE n \notin notifs
    <3>1. n = new /\ e.actor # e.recipient
      BY <1>7, <2>2
    <3>2. \A x \in Off(Tuple(n)) : x.topic = t
      BY <1>6, <1>8, <3>1, EventsOfKeys
    <3>3. PICK S : S = Off(Tuple(n))
      OBVIOUS
    <3>4. AllToCome(id, S)'
      BY <1>9, <3>2, <3>3
    <3> QED
      BY <1>6, <3>1, <3>3, <3>4
  <2> QED
    BY <2>1, <2>2
<1>14. NoneStale'
  BY <1>13 DEF NoneStale
<1> QED
  BY <1>12, <1>14

(* When one is handled that takes notifications back, those that are wanted *)
(* have their later event still to come.                                    *)
LEMMA TakingConverges ==
  ASSUME InOrder, NotificationsIInv, TablesAgree, Alternates, NoneMissing, NoneStale,
         NEW c \in Consumers, NEW t \in Topics, NEW o \in batch[c][t], HandleRecord(c, t, o),
         t = Activity, log[t][o].value \in Activities({"unlike", "unfollow", "uncomment"}),
         notifs' = HandleActivity(log[t][o].key, log[t][o].value),
         UNCHANGED <<outboxVars, domainVars>>
  PROVE  NoneMissing' /\ NoneStale'
<1>1. PICK id, e : id = log[t][o].key /\ e = log[t][o].value
  OBVIOUS
<1>2. e \in Activities({"unlike", "unfollow", "uncomment"}) /\ notifs' = HandleActivity(id, e)
  BY <1>1
<1>3. \A w \in Keys : e \notin On(w)
  <2>1. e.op \notin {"like", "comment", "follow"}
    BY <1>2 DEF Activities
  <2> QED
    BY <2>1, EventsOfKeys DEF On, ActEvent
<1>4. notifs \subseteq Notification
  BY DEF NotificationsIInv, NotificationsInv, TypeOK
<1>5. notifs' \subseteq notifs /\ \A n \in notifs : n \in notifs' <=> e \notin Off(Tuple(n))
  BY <1>2, <1>4, TakingBack, NothingAdded
<1>6. /\ \A S : e \notin S /\ Coming(S) => Coming(S)'
      /\ \A i \in Ids : \A S : e \notin S /\ AllToCome(i, S) => AllToCome(i, S)'
  BY <1>1, EventHandled, RestIsToCome
<1>7. Wanted' = Wanted /\ \A w : Gone(w)' <=> Gone(w)
  BY DEF domainVars, Wanted, Gone
<1>8. ASSUME NEW w \in Keys, ~Gone(w), w \in Wanted PROVE (\E n \in notifs' : Tuple(n) = w) \/ Coming(On(w))'
  <2>1. CASE e \in Off(w)
    <3>1. Superseded(Off(w), On(w))
      BY <1>8 DEF Alternates
    <3>2. PICK S, T : S = Off(w) /\ T = On(w)
      OBVIOUS
    <3>3. \A x \in T : x.topic = t
      BY <3>2, EventsOfKeys
    <3>4. Coming(T)
      BY <1>1, <2>1, <3>1, <3>2, <3>3, SupersedingComes
    <3> QED
      BY <1>3, <1>6, <3>2, <3>4
  <2>2. CASE e \notin Off(w)
    BY <1>3, <1>5, <1>6, <1>8, <2>2 DEF NoneMissing
  <2> QED
    BY <2>1, <2>2
<1>9. NoneMissing'
  BY <1>7, <1>8 DEF NoneMissing
<1>10. ASSUME NEW n \in notifs' PROVE AllToCome(n.external_id, Off(Tuple(n)))'
  <2>1. n.external_id \in Ids /\ e \notin Off(Tuple(n)) /\ AllToCome(n.external_id, Off(Tuple(n)))
    BY <1>5, RowsHaveEvents DEF NoneStale
  <2>2. PICK i, S : i = n.external_id /\ S = Off(Tuple(n))
    OBVIOUS
  <2>3. AllToCome(i, S)'
    BY <1>6, <2>1, <2>2
  <2> QED
    BY <2>2, <2>3
<1>11. NoneStale'
  BY <1>10 DEF NoneStale
<1> QED
  BY <1>9, <1>11

(* A deletion takes what is about the post it tells of, and no more.        *)
LEMMA DeletingConverges ==
  ASSUME InOrder, NotificationsIInv, TablesAgree, Alternates, NoneMissing, NoneStale,
         NEW c \in Consumers, NEW t \in Topics, NEW o \in batch[c][t], HandleRecord(c, t, o),
         t # Activity, notifs' = HandleEntityChanges(log[t][o].value),
         UNCHANGED <<outboxVars, domainVars>>
  PROVE  NoneMissing' /\ NoneStale'
<1>1. PICK id, e : id = log[t][o].key /\ e = log[t][o].value
  OBVIOUS
<1>2. e \in PostDeletions /\ ToldGone(e)
  BY <1>1, HandedEvent DEF TablesAgree
<1>3. \A w \in Keys : e \notin On(w) /\ e \notin Off(w)
  BY <1>2, EventsOfKeys
<1>4. notifs' \subseteq notifs /\ \A n \in notifs : ~Gone(Tuple(n)) => n \in notifs'
  BY <1>1, <1>2, DeletionTakes, NothingAdded
<1>5. /\ \A S : e \notin S /\ Coming(S) => Coming(S)'
      /\ \A i \in Ids : \A S : e \notin S /\ AllToCome(i, S) => AllToCome(i, S)'
  BY <1>1, EventHandled, RestIsToCome
<1>6. Wanted' = Wanted /\ \A w : Gone(w)' <=> Gone(w)
  BY DEF domainVars, Wanted, Gone
<1>7. NoneMissing'
  BY <1>3, <1>4, <1>5, <1>6 DEF NoneMissing
<1>8. ASSUME NEW n \in notifs' PROVE AllToCome(n.external_id, Off(Tuple(n)))'
  <2>1. n.external_id \in Ids /\ e \notin Off(Tuple(n)) /\ AllToCome(n.external_id, Off(Tuple(n)))
    BY <1>3, <1>4, RowsHaveEvents DEF NoneStale
  <2>2. PICK i, S : i = n.external_id /\ S = Off(Tuple(n))
    OBVIOUS
  <2>3. AllToCome(i, S)'
    BY <1>5, <2>1, <2>2
  <2> QED
    BY <2>2, <2>3
<1>9. NoneStale'
  BY <1>8 DEF NoneStale
<1> QED
  BY <1>7, <1>9

-----------------------------------------------------------------------------
(* So with whatever is handled, unless the handler fails.                   *)
LEMMA HandlersConverge ==
  ASSUME InOrder, NotificationsIInv, TablesAgree, Alternates, NoneMissing, NoneStale,
         NEW c \in Consumers, NEW t \in Topics, NEW o \in batch[c][t], Handle(c, t, o),
         UNCHANGED <<outboxVars, domainVars>>, drops' = 0
  PROVE  NoneMissing' /\ NoneStale'
<1>1. drops \in Nat
  BY DropsAssumption DEF NotificationsIInv, NotificationsInv, TypeOK
<1>2. /\ HandleRecord(c, t, o)
      /\ notifs' = IF t = Activity THEN HandleActivity(log[t][o].key, log[t][o].value)
                                   ELSE HandleEntityChanges(log[t][o].value)
  BY <1>1 DEF Handle
<1>3. CASE t # Activity
  BY <1>2, <1>3, DeletingConverges
<1>4. CASE t = Activity
  <2>1. \/ log[t][o].value \in Activities({"like", "comment", "follow"})
        \/ log[t][o].value \in Activities({"unlike", "unfollow", "uncomment"})
    <3>1. log[t][o].value \in Activities({"like", "unlike", "comment", "uncomment", "follow", "unfollow"})
      BY <1>4, HandedEvent
    <3> QED
      BY <3>1 DEF Activities
  <2> QED
    BY <1>2, <1>4, <2>1, AskingConverges, TakingConverges
<1> QED
  BY <1>3, <1>4

(* Every step keeps the table on its way.                                   *)
LEMMA RowsConverge ==
  ASSUME InOrder, IInv', OneRelay, OneConsumer, NotificationsIInv, TypeOK', TablesAgree, Alternates,
         drops # 0 \/ (NoneMissing /\ NoneStale), [Next]_vars
  PROVE  drops' # 0 \/ (NoneMissing' /\ NoneStale')
<1>1. drops \in Nat /\ (drops' = drops \/ drops' = drops + 1)
  <2>1. drops \in Nat
    BY DropsAssumption DEF NotificationsIInv, NotificationsInv, TypeOK
  <2>2. ASSUME NEW c \in Consumers, NEW t \in Topics, NEW o \in batch[c][t], Handle(c, t, o)
        PROVE  drops' = drops \/ drops' = drops + 1
    BY <2>2 DEF Handle
  <2> QED
    BY <2>1, <2>2 DEF Next, vars
<1> SUFFICES ASSUME drops' = 0 PROVE NoneMissing' /\ NoneStale'
  OBVIOUS
<1>2. NoneMissing /\ NoneStale
  BY <1>1
<1>3. CASE Domain /\ UNCHANGED <<groupVars, notifs, drops>>
  BY <1>2, <1>3, DomainConverges
<1>4. ASSUME NEW c \in Consumers, NEW t \in Topics, NEW o \in batch[c][t], Handle(c, t, o),
             UNCHANGED <<outboxVars, domainVars>>
      PROVE  NoneMissing' /\ NoneStale'
  BY <1>2, <1>4, HandlersConverge
<1>5. CASE /\ notifs' = notifs
           /\ \/ (\E r \in Relays : RelayNext(r)) /\ UNCHANGED <<groupVars, domainVars>>
              \/ GroupControl /\ UNCHANGED <<outboxVars, domainVars>>
              \/ UNCHANGED <<outboxVars, groupVars, domainVars>>
  <2>1. /\ \/ \E r \in Relays : RelayNext(r) /\ UNCHANGED groupVars
           \/ GroupControl /\ UNCHANGED outboxVars
           \/ UNCHANGED <<outboxVars, groupVars>>
        /\ UNCHANGED domainVars
    BY <1>5
  <2> QED
    BY <1>2, <1>5, <2>1, OthersConverge
<1>6. ASSUME NEW n \in notifs, MarkRead(n), UNCHANGED <<outboxVars, groupVars, domainVars, drops>>
      PROVE  NoneMissing' /\ NoneStale'
  <2>1. n \in Notification
    BY DEF NotificationsIInv, NotificationsInv, TypeOK
  <2>2. PICK m : m = [n EXCEPT !.read = TRUE]
    OBVIOUS
  <2>3. m.external_id = n.external_id /\ Tuple(m) = Tuple(n)
    BY <2>1, <2>2 DEF Notification, Tuple
  <2>4. notifs' = (notifs \ {n}) \cup {m}
    BY <1>6, <2>2 DEF MarkRead
  <2>5. /\ \A k \in notifs : \E l \in notifs' : Tuple(l) = Tuple(k)
        /\ \A l \in notifs' : \E k \in notifs : l.external_id = k.external_id /\ Tuple(l) = Tuple(k)
    BY <2>3, <2>4
  <2> QED
    BY <1>2, <1>6, <2>5, OthersConverge
<1> QED
  BY <1>3, <1>4, <1>5, <1>6 DEF Next, vars

-----------------------------------------------------------------------------
(* At first nothing is wanted and nothing is there ...                      *)
LEMMA ConvergingInitial == Init => ConvergingInv
<1> SUFFICES ASSUME Init PROVE ConvergingInv
  OBVIOUS
<1>1. PipelineInit
  BY DEF Init, PipelineInit
<1>2. InOrder
  BY <1>1, IInvInit, OrderInitial DEF InOrder
<1>3. /\ likes = {} /\ comments = {} /\ written = {} /\ follows = {} /\ notifs = {}
      /\ \A id \in Ids : status[id] = "none"
  BY DEF Init, OutboxInit
<1>4. Wanted = {}
  BY <1>3 DEF Wanted
<1>5. TablesAgree /\ Alternates
  BY <1>3, <1>4 DEF TablesAgree, Alternates, Separated, Superseded, Has
<1>6. NoneMissing /\ NoneStale
  BY <1>3, <1>4 DEF NoneMissing, NoneStale
<1> QED
  BY <1>2, <1>5, <1>6, NotificationsInitial DEF ConvergingInv

(* ... and every step keeps the table about to become what is wanted.       *)
LEMMA ConvergingStep ==
  ASSUME OneRelay, OneConsumer, ConvergingInv, IInv', [Next]_vars
  PROVE  ConvergingInv'
<1>1. InOrder /\ NotificationsIInv /\ TablesAgree /\ Alternates /\ TypeOK
  BY DEF ConvergingInv, NotificationsIInv, NotificationsInv
<1>2. NotificationsIInv' /\ TypeOK'
  BY <1>1, NotificationsInductive DEF NotificationsIInv, NotificationsInv
<1>3. InOrder'
  BY <1>1, NotificationsStepPipeline, StaysInOrder
<1>4. TablesAgree' /\ Alternates'
  BY <1>1, <1>2, TablesAgreeStep, AlternatesStep
<1>5. drops' # 0 \/ (NoneMissing' /\ NoneStale')
  BY <1>1, <1>2, RowsConverge DEF ConvergingInv
<1> QED
  BY <1>2, <1>3, <1>4, <1>5 DEF ConvergingInv

(* When nothing comes any more, each notification that is wanted is there,  *)
(* no other is, and none twice.                                             *)
LEMMA NothingLeftToDo ==
  ASSUME ConvergingInv, Settled, drops = 0
  PROVE  /\ {Tuple(n) : n \in Shown} = Wanted
         /\ \A m, n \in Shown : Tuple(m) = Tuple(n) => m = n
<1>1. /\ InOrder /\ NotificationsIInv /\ TablesAgree /\ Alternates /\ TypeOK /\ NoneMissing /\ NoneStale
      /\ OneEach(notifs)
  BY RowsSplit DEF ConvergingInv, NotificationsIInv, NotificationsInv
<1>2. \A j \in Ids : ~OnItsWay(j)
  BY <1>1, SettledIsOver DEF InOrder, IInv, PipelineTypes
<1>3. ASSUME NEW n \in notifs
      PROVE  /\ n.external_id \in Ids /\ Tuple(n) \in Keys /\ Has(n.external_id, On(Tuple(n)))
             /\ AllToCome(n.external_id, Off(Tuple(n)))
             /\ n \in Shown <=> ~Gone(Tuple(n))
  <2>1. OfDeletedPost(n) <=> Gone(Tuple(n))
    <3>1. PICK w : w = Tuple(n)
      OBVIOUS
    <3>2. w[3] = n.type /\ w[4] = n.entity_id
      BY <3>1 DEF Tuple
    <3> QED
      BY <3>1, <3>2 DEF OfDeletedPost, Gone
  <2> QED
    BY <1>1, <2>1, RowsHaveEvents DEF NoneStale, Shown
<1>4. ASSUME NEW w \in Wanted PROVE \E n \in Shown : Tuple(n) = w
  <2>1. w \in Keys /\ ~Gone(w)
    BY <1>1, WantedStands
  <2>2. ~Coming(On(w))
    BY <1>1, NothingComes
  <2>3. PICK n \in notifs : Tuple(n) = w
    BY <1>1, <2>1, <2>2 DEF NoneMissing
  <2> QED
    BY <1>3, <2>1, <2>3
<1>5. ASSUME NEW n \in Shown PROVE Tuple(n) \in Wanted
  <2>1. n \in notifs
    BY DEF Shown
  <2>2. PICK w : w = Tuple(n)
    OBVIOUS
  <2>3. w \in Keys /\ ~Gone(w)
    BY <1>3, <2>1, <2>2
  <2>4. CASE w \notin Wanted
    <3>1. Superseded(On(w), Off(w))
      BY <1>1, <2>3, <2>4 DEF Alternates
    <3>2. PICK j \in Ids : n.external_id < j /\ Has(j, Off(w))
      BY <1>3, <2>1, <2>2, <3>1 DEF Superseded
    <3> QED
      BY <1>2, <1>3, <2>1, <2>2, <3>2 DEF AllToCome
  <2> QED
    BY <2>2, <2>4
<1>6. ASSUME NEW m \in Shown, NEW n \in Shown, Tuple(m) = Tuple(n), m.external_id < n.external_id PROVE FALSE
  <2>1. m \in notifs /\ n \in notifs
    BY DEF Shown
  <2>2. PICK w : w = Tuple(m)
    OBVIOUS
  <2>3. Separated(On(w), Off(w))
    BY <1>1, <1>3, <2>1, <2>2 DEF Alternates
  <2>4. PICK j \in Ids : m.external_id < j /\ Has(j, Off(w))
    BY <1>3, <1>6, <2>1, <2>2, <2>3 DEF Separated
  <2> QED
    BY <1>2, <1>3, <2>1, <2>2, <2>4 DEF AllToCome
<1>7. ASSUME NEW m \in Shown, NEW n \in Shown, Tuple(m) = Tuple(n) PROVE m = n
  <2>1. m \in notifs /\ n \in notifs
    BY DEF Shown
  <2>2. m.external_id \in Nat /\ n.external_id \in Nat
    BY <1>3, <2>1, MaxIdAssumption DEF Ids
  <2>3. ~(m.external_id < n.external_id) /\ ~(n.external_id < m.external_id)
    BY <1>6, <1>7
  <2>4. m.external_id = n.external_id
    BY <2>2, <2>3
  <2> QED
    BY <1>1, <2>1, <2>4 DEF OneEach
<1> QED
  BY <1>4, <1>5, <1>7

(* So the table is a copy of what is wanted, of the same size.              *)
LEMMA SettledConverged == ConvergingInv => Converged
<1> SUFFICES ASSUME ConvergingInv, Settled, drops = 0
             PROVE  /\ {Tuple(n) : n \in Shown} = Wanted
                    /\ Cardinality(Shown) = Cardinality(Wanted)
  BY DEF Converged, Tuple
<1>1. {Tuple(n) : n \in Shown} = Wanted /\ \A m, n \in Shown : Tuple(m) = Tuple(n) => m = n
  BY NothingLeftToDo
<1>2. IsFiniteSet(Shown)
  <2>1. MaxId \in Int /\ 1 \in Int
    BY MaxIdAssumption
  <2>2. IsFiniteSet(Ids)
    BY <2>1, FS_Interval DEF Ids
  <2>3. PICK f : f = [n \in Shown |-> n.external_id]
    OBVIOUS
  <2>4. \A n \in Shown : n \in notifs /\ n.external_id \in Ids
    BY RowsHaveEvents DEF Shown, ConvergingInv
  <2>5. OneEach(notifs)
    BY RowsSplit DEF ConvergingInv, NotificationsIInv, NotificationsInv
  <2>6. f \in [Shown -> Ids] /\ \A m, n \in Shown : f[m] = f[n] => m = n
    BY <2>3, <2>4, <2>5 DEF OneEach
  <2>7. f \in Injection(Shown, Ids)
    BY <2>6, Fun_IsInj
  <2> QED
    BY <2>2, <2>7, FS_Injection
<1>3. PICK g : g = [n \in Shown |-> Tuple(n)]
  OBVIOUS
<1>4. g \in [Shown -> Wanted] /\ (\A m, n \in Shown : g[m] = g[n] => m = n) /\ (\A w \in Wanted : \E n \in Shown : g[n] = w)
  BY <1>1, <1>3
<1>5. g \in Bijection(Shown, Wanted)
  BY <1>4, Fun_IsBij
<1>6. ExistsBijection(Shown, Wanted)
  BY <1>5, Fun_ExistsBij
<1> QED
  BY <1>1, <1>2, <1>6, FS_Bijection

(* With one relay and one consumer, however often records are repeated and  *)
(* whatever crashes, the notifications settle on exactly those that the     *)
(* likes, comments and follows that stand ask for, provided no handler      *)
(* failed.                                                                  *)
THEOREM NotificationsConverge ==
  ASSUME OneRelay, OneConsumer
  PROVE  Spec => []Converged
<1>1. ConvergingInv /\ IInv' /\ [Next]_vars => ConvergingInv'
  BY ConvergingStep
<1>2. ConvergingInv => Converged
  BY SettledConverged
<1> QED
  BY <1>1, <1>2, ConvergingInitial, NotificationsUsePipeline, PipelineInvariant, PTL DEF Spec
=============================================================================
