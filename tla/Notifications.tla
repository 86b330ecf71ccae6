---------------------------- MODULE Notifications ----------------------------
(***************************************************************************)
(* Notifications (internal/notifications) on top of the event pipeline.    *)
(*                                                                         *)
(* Likes, comments, follows and post deletions are domain transactions     *)
(* that each write an outbox row; the notifications consumer turns the     *)
(* records it is handed into rows of the notifications table.  Nothing     *)
(* ties the two together but the pipeline, so the table is right only if   *)
(* handling records again, or in another order, comes to the same rows.    *)
(*                                                                         *)
(* A domain transaction is one step: two that touch the same post, like or *)
(* follow are serialised by row locks held to the commit, and the outbox   *)
(* row is inserted last, so their ids follow their commit order.  The      *)
(* outbox sweep is left out: nothing here reads a published row.           *)
(***************************************************************************)
EXTENDS ConsumerGroup

CONSTANTS
  Users,
  Posts,                \* public ids of the posts that exist at the start
  Author,               \* Author[p]: the user who made post p
  Comments,             \* public ids that comments can be given
  Workload,             \* the domain operations a run exercises
  MaxDrops              \* bound: records whose handler fails

Activity == "activity"
EntityChanges == "entity-changes"

ASSUME TopicsAssumption == Topics = {Activity, EntityChanges}
ASSUME AuthorAssumption == Author \in [Posts -> Users]
ASSUME DropsAssumption == MaxDrops \in Nat
ASSUME WorkloadAssumption ==
  Workload \subseteq {"like", "unlike", "comment", "uncomment", "follow", "unfollow", "delete", "read"}

VARIABLES
  posts,                \* the posts that exist
  likes,                \* pairs <<user, post>>
  comments,             \* records [id, post, actor]
  written,              \* the comments ever written, deleted ones too
  follows,              \* pairs <<follower, followee>>
  notifs,               \* the notifications table
  drops                 \* handlers that failed so far

domainVars == <<posts, likes, comments, written, follows>>
vars == <<outboxVars, groupVars, domainVars, notifs, drops>>

Activities(ops) ==
  [topic : {Activity}, op : ops, actor : Users, recipient : Users, entity : Posts \cup Comments \cup Users]
PostDeletions == [topic : {EntityChanges}, op : {"delete"}, post : Posts, comments : SUBSET Comments]
NotificationEvents ==
  Activities({"like", "unlike", "comment", "uncomment", "follow", "unfollow"}) \cup PostDeletions

ASSUME EventsOfNotificationsAssumption == NotificationEvents \subseteq Events

Notification ==
  [external_id : Ids, user_id : Users, actor_id : Users, type : {"like", "comment", "follow"},
   entity_id : Posts \cup Comments \cup Users, read : BOOLEAN]

Init ==
  /\ OutboxInit
  /\ GroupInit
  /\ posts = Posts
  /\ likes = {}
  /\ comments = {}
  /\ written = {}
  /\ follows = {}
  /\ notifs = {}
  /\ drops = 0

-----------------------------------------------------------------------------
(* The domain transactions and the event each of them inserts. *)
Act(op, actor, recipient, entity) ==
  InsertNext([topic |-> Activity, op |-> op, actor |-> actor, recipient |-> recipient, entity |-> entity])

(* A like that is already there, or an unlike of none, commits no event. *)
LikePost(u, p) ==
  /\ "like" \in Workload
  /\ p \in posts /\ <<u, p>> \notin likes
  /\ likes' = likes \cup {<<u, p>>}
  /\ Act("like", u, Author[p], p)
  /\ UNCHANGED <<posts, comments, written, follows>>

UnlikePost(u, p) ==
  /\ "unlike" \in Workload
  /\ <<u, p>> \in likes
  /\ likes' = likes \ {<<u, p>>}
  /\ Act("unlike", u, Author[p], p)
  /\ UNCHANGED <<posts, comments, written, follows>>

CreateComment(u, p, c) ==
  /\ "comment" \in Workload
  /\ p \in posts
  /\ \A k \in written : k.id # c
  /\ comments' = comments \cup {[id |-> c, post |-> p, actor |-> u]}
  /\ written' = written \cup {[id |-> c, post |-> p, actor |-> u]}
  /\ Act("comment", u, Author[p], c)
  /\ UNCHANGED <<posts, likes, follows>>

(* By its author or by the owner of the post; the event has no recipient,   *)
(* which the handler does not look at (here: the post's author).            *)
DeleteComment(u, k) ==
  /\ "uncomment" \in Workload
  /\ u = k.actor \/ u = Author[k.post]
  /\ comments' = comments \ {k}
  /\ Act("uncomment", u, Author[k.post], k.id)
  /\ UNCHANGED <<posts, likes, written, follows>>

FollowUser(u, v) ==
  /\ "follow" \in Workload
  /\ u # v /\ <<u, v>> \notin follows
  /\ follows' = follows \cup {<<u, v>>}
  /\ Act("follow", u, v, u)
  /\ UNCHANGED <<posts, likes, comments, written>>

UnfollowUser(u, v) ==
  /\ "unfollow" \in Workload
  /\ <<u, v>> \in follows
  /\ follows' = follows \ {<<u, v>>}
  /\ Act("unfollow", u, v, u)
  /\ UNCHANGED <<posts, likes, comments, written>>

(* The row of the post goes and takes its likes and comments with it. *)
DeletePost(p) ==
  LET lost == {k \in comments : k.post = p}
  IN /\ "delete" \in Workload
     /\ p \in posts
     /\ posts' = posts \ {p}
     /\ likes' = {l \in likes : l[2] # p}
     /\ comments' = comments \ lost
     /\ InsertNext([topic |-> EntityChanges, op |-> "delete", post |-> p, comments |-> {k.id : k \in lost}])
     /\ UNCHANGED <<written, follows>>

Domain ==
  \/ \E u \in Users, p \in Posts : LikePost(u, p) \/ UnlikePost(u, p)
  \/ \E u \in Users, p \in Posts, c \in Comments : CreateComment(u, p, c)
  \/ \E u \in Users, k \in comments : DeleteComment(u, k)
  \/ \E u, v \in Users : FollowUser(u, v) \/ UnfollowUser(u, v)
  \/ \E p \in Posts : DeletePost(p)

-----------------------------------------------------------------------------
(* What the handlers do to the notifications table. *)

(* Fault: the insert becomes an upsert that starts the row afresh. *)
CreateNotificationUpsert(id, type, e) ==
  {n \in notifs : n.external_id # id}
  \cup {[external_id |-> id, user_id |-> e.recipient, actor_id |-> e.actor,
         type |-> type, entity_id |-> e.entity, read |-> FALSE]}

(* INSERT ... ON CONFLICT (external_id) DO NOTHING *)
CreateNotification(id, type, e) ==
  IF \E n \in notifs : n.external_id = id
  THEN notifs
  ELSE notifs \cup {[external_id |-> id, user_id |-> e.recipient, actor_id |-> e.actor,
                     type |-> type, entity_id |-> e.entity, read |-> FALSE]}

(* Fault: the two user ids of the DELETE change places. *)
DeleteByActorAndTypeSwapped(type, e) ==
  {n \in notifs : ~(/\ n.type = type
                    /\ n.actor_id = e.recipient
                    /\ n.user_id = e.actor
                    /\ n.entity_id = e.entity)}

DeleteByActorAndType(type, e) ==
  {n \in notifs : ~(/\ n.type = type
                    /\ n.actor_id = e.actor
                    /\ n.user_id = e.recipient
                    /\ n.entity_id = e.entity)}

DeleteByEntity(type, entities) == {n \in notifs : ~(n.type = type /\ n.entity_id \in entities)}

(* Fault: nobody asks whether actor and recipient are the same user. *)
HandleActivityOfOneself(id, e) ==
  CASE e.op \in {"like", "comment", "follow"} -> CreateNotification(id, e.op, e)
    [] e.op = "unlike"    -> DeleteByActorAndType("like", e)
    [] e.op = "unfollow"  -> DeleteByActorAndType("follow", e)
    [] e.op = "uncomment" -> DeleteByEntity("comment", {e.entity})

HandleActivity(id, e) ==
  CASE e.op \in {"like", "comment", "follow"} ->
         IF e.actor = e.recipient THEN notifs ELSE CreateNotification(id, e.op, e)
    [] e.op = "unlike"    -> DeleteByActorAndType("like", e)
    [] e.op = "unfollow"  -> DeleteByActorAndType("follow", e)
    [] e.op = "uncomment" -> DeleteByEntity("comment", {e.entity})

HandleEntityChanges(e) == DeleteByEntity("like", {e.post}) \cap DeleteByEntity("comment", e.comments)

(* A DELETE that fails is logged and does not keep the others from running. *)
HandleEntityChangesPartly(e) ==
  {DeleteByEntity("like", likeable) \cap DeleteByEntity("comment", some) :
     likeable \in SUBSET {e.post}, some \in SUBSET e.comments}

(* A failing handler is logged; its record is not handed over again. *)
Handle(c, t, o) ==
  LET record == log[t][o]
  IN /\ HandleRecord(c, t, o)
     /\ \/ /\ notifs' = IF t = Activity
                        THEN HandleActivity(record.key, record.value)
                        ELSE HandleEntityChanges(record.value)
           /\ UNCHANGED drops
        \/ /\ drops < MaxDrops
           /\ drops' = drops + 1
           /\ notifs' \in IF t = Activity THEN {notifs} ELSE HandleEntityChangesPartly(record.value)

MarkRead(n) ==
  /\ "read" \in Workload
  /\ ~n.read
  /\ notifs' = (notifs \ {n}) \cup {[n EXCEPT !.read = TRUE]}

-----------------------------------------------------------------------------
Next ==
  \/ Domain /\ UNCHANGED <<groupVars, notifs, drops>>
  \/ (\E r \in Relays : RelayNext(r)) /\ UNCHANGED <<groupVars, domainVars, notifs, drops>>
  \/ GroupControl /\ UNCHANGED <<outboxVars, domainVars, notifs, drops>>
  \/ (\E c \in Consumers, t \in Topics : \E o \in batch[c][t] : Handle(c, t, o))
     /\ UNCHANGED <<outboxVars, domainVars>>
  \/ (\E n \in notifs : MarkRead(n)) /\ UNCHANGED <<outboxVars, groupVars, domainVars, drops>>

Spec == Init /\ [][Next]_vars

-----------------------------------------------------------------------------
TypeOK ==
  /\ posts \subseteq Posts
  /\ likes \subseteq Users \X Posts
  /\ comments \subseteq written
  /\ written \subseteq [id : Comments, post : Posts, actor : Users]
  /\ follows \subseteq Users \X Users
  /\ notifs \subseteq Notification
  /\ drops \in 0..MaxDrops

(* Every row stands for an event that was published, with the fields of     *)
(* that event, one row per event, and nobody is notified of their own act.  *)
RowsComeFromEvents ==
  /\ \A n \in notifs :
       /\ n.user_id # n.actor_id
       /\ \E i \in 1..Len(log[Activity]) :
            LET r == log[Activity][i]
            IN /\ r.key = n.external_id
               /\ r.value.op = n.type
               /\ r.value.actor = n.actor_id
               /\ r.value.recipient = n.user_id
               /\ r.value.entity = n.entity_id
  /\ \A m, n \in notifs : m.external_id = n.external_id => m = n

(* Types, and: the handlers make no notification that no event asked for, and *)
(* none twice.                                                                *)
NotificationsInv == TypeOK /\ RowsComeFromEvents

(* The notifications the domain tables ask for. *)
Wanted ==
  {<<Author[l[2]], l[1], "like", l[2]>> : l \in {l \in likes : l[1] # Author[l[2]]}}
  \cup {<<Author[k.post], k.actor, "comment", k.id>> : k \in {k \in comments : k.actor # Author[k.post]}}
  \cup {<<f[2], f[1], "follow", f[1]>> : f \in follows}

(* The notifications there are, but for those about posts that are gone. *)
OfDeletedPost(n) ==
  \/ n.type = "like" /\ n.entity_id \notin posts
  \/ n.type = "comment" /\ \E k \in written : k.id = n.entity_id /\ k.post \notin posts
Shown == {n \in notifs : ~OfDeletedPost(n)}

(* With one relay and one consumer, duplicated and replayed records and all,*)
(* the table settles on exactly one notification for each like, comment and *)
(* follow that still stands.  (Notifications about a deleted post may stay  *)
(* behind: its deletion travels on another topic than its likes.)           *)
Converged ==
  Settled /\ drops = 0 =>
    /\ {<<n.user_id, n.actor_id, n.type, n.entity_id>> : n \in Shown} = Wanted
    /\ Cardinality(Shown) = Cardinality(Wanted)

(* A notification that was read never turns unread again: a record handled  *)
(* once more leaves the row it made alone.                                  *)
ReadStaysRead ==
  [][\A m \in notifs, n \in notifs' :
       m.external_id = n.external_id /\ m.read => n.read]_vars
==============================================================================
