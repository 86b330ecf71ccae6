--------------------------------- MODULE Feed ---------------------------------
(***************************************************************************)
(* The feed (internal/feed) on top of the event pipeline.                  *)
(*                                                                         *)
(* A post is fanned out to the feed rows of its author's followers when    *)
(* the feed consumer handles its event; following somebody backfills their *)
(* recent posts and unfollowing prunes them, also when the event is        *)
(* handled.  Authors with more than CelebThreshold followers are latched   *)
(* as celebrities: their posts are not fanned out but merged into the feed *)
(* when it is read, for 90 days.  The cursors of the feed are left out.    *)
(*                                                                         *)
(* A handler reads follows, users and posts and then writes the feed; the  *)
(* domain transactions and the handlers of the other consumer run in       *)
(* between.  Domain transactions about one author are serialised by the    *)
(* lock on the author's row, which the outbox insert follows, so the ids   *)
(* of their events follow their commit order.                              *)
(***************************************************************************)
EXTENDS ConsumerGroup

CONSTANTS
  Users,
  Posts,                \* bound: posts are created with ids from this initial segment of Nat
  Author,               \* Author[p]
  CelebThreshold,       \* 10 000 in the code; also the LIMIT on followers read
  BackfillLimit,        \* followBackfillLimit (50 in the code)
  MaxDrops              \* bound: handlers that fail for no reason of their own

Activity == "activity"
EntityChanges == "entity-changes"

ASSUME TopicsAssumption == Topics = {Activity, EntityChanges}
ASSUME PostsAssumption == Posts \subseteq Nat
ASSUME AuthorAssumption == Author \in [Posts -> Users]

VARIABLES
  posts,                \* the posts that exist
  made,                 \* the posts that were ever made
  follows,              \* pairs <<follower, followee>>
  celebrity,            \* users with is_celebrity
  feed,                 \* pairs <<user, post>>
  work,                 \* work[c]: what the handler of c has read, before it writes
  drops,                \* handlers that failed for no reason of their own
  lost                  \* some handler failed

domainVars == <<posts, made, follows, celebrity>>
vars == <<outboxVars, groupVars, domainVars, feed, work, drops, lost>>

Follows == [topic : {Activity}, op : {"follow", "unfollow"}, actor : Users, recipient : Users]
Upserts == [topic : {EntityChanges}, op : {"upsert"}, post : Posts, author : Users, is_celebrity : BOOLEAN]
Deletions == [topic : {EntityChanges}, op : {"delete"}, post : Posts]
FeedEvents == Follows \cup Upserts \cup Deletions

ASSUME EventsOfFeedAssumption == FeedEvents \subseteq Events
ASSUME LimitsAssumption == CelebThreshold \in Nat /\ BackfillLimit \in Nat /\ MaxDrops \in Nat

Nothing == [step |-> "idle", record |-> <<>>, entries |-> {}]
Followers(a) == {u \in Users : <<u, a>> \in follows}

(* LIMIT n: some n of the rows, or all of them if there are fewer. *)
Limited(S, n) == {T \in SUBSET S : Cardinality(T) <= n /\ (T # S => Cardinality(T) = n)}

(* The newest posts of a; ids grow with time. *)
PostsOf(a) == {p \in posts : Author[p] = a}
Recent(a) == {p \in PostsOf(a) : Cardinality({q \in PostsOf(a) : q > p}) < BackfillLimit}

Init ==
  /\ OutboxInit
  /\ GroupInit
  /\ posts = {} /\ made = {}
  /\ follows = {} /\ celebrity = {}
  /\ feed = {}
  /\ work = [c \in Consumers |-> Nothing]
  /\ drops = 0 /\ lost = FALSE

-----------------------------------------------------------------------------
(* The domain transactions. *)
CreatePost(p) ==
  /\ p \notin made
  /\ \A q \in Posts : q < p => q \in made
  /\ posts' = posts \cup {p}
  /\ made' = made \cup {p}
  /\ InsertNext([topic |-> EntityChanges, op |-> "upsert", post |-> p, author |-> Author[p],
                 is_celebrity |-> Author[p] \in celebrity])
  /\ UNCHANGED <<follows, celebrity, feed>>

(* ON DELETE CASCADE takes the feed rows along. *)
DeletePost(p) ==
  /\ p \in posts
  /\ posts' = posts \ {p}
  /\ feed' = {row \in feed : row[2] # p}
  /\ InsertNext([topic |-> EntityChanges, op |-> "delete", post |-> p])
  /\ UNCHANGED <<made, follows, celebrity>>

FollowUser(u, a) ==
  /\ u # a /\ <<u, a>> \notin follows
  /\ follows' = follows \cup {<<u, a>>}
  /\ celebrity' = IF Cardinality(Followers(a)) + 1 > CelebThreshold THEN celebrity \cup {a} ELSE celebrity
  /\ InsertNext([topic |-> Activity, op |-> "follow", actor |-> u, recipient |-> a])
  /\ UNCHANGED <<posts, made, feed>>

(* is_celebrity is never taken back. *)
UnfollowUser(u, a) ==
  /\ <<u, a>> \in follows
  /\ follows' = follows \ {<<u, a>>}
  /\ InsertNext([topic |-> Activity, op |-> "unfollow", actor |-> u, recipient |-> a])
  /\ UNCHANGED <<posts, made, celebrity, feed>>

Domain ==
  \/ \E p \in Posts : CreatePost(p) \/ DeletePost(p)
  \/ \E u, a \in Users : FollowUser(u, a) \/ UnfollowUser(u, a)

-----------------------------------------------------------------------------
(* The handlers.  Each possible set of rows a handler can come to write:    *)
(* handleEntityChanges, where the author's row is always among them, and    *)
(* handleFollow.                                                            *)
FanOut(e) ==
  IF e.is_celebrity
  THEN {{<<e.author, e.post>>}}
  ELSE {{<<u, e.post>> : u \in readers \cup {e.author}} : readers \in Limited(Followers(e.author), CelebThreshold)}

Backfill(e) == {{<<e.actor, p>> : p \in Recent(e.recipient)}}

FirstOf(c, t, o) == phase[c] = "work" /\ \A other \in batch[c][t] : o <= other

(* handleFollow first reads is_celebrity: a celebrity's posts are served on *)
(* read and there is nothing to write.                                      *)
ReadCelebrity(c, t, o) ==
  /\ FirstOf(c, t, o)
  /\ work[c] = Nothing
  /\ log[t][o].value.op = "follow"
  /\ log[t][o].value.recipient \notin celebrity
  /\ work' = [work EXCEPT ![c] = [step |-> "cleared", record |-> <<t, o>>, entries |-> {}]]
  /\ UNCHANGED <<outboxVars, groupVars, domainVars, feed, drops, lost>>

SkipCelebrity(c, t, o) ==
  /\ work[c] = Nothing
  /\ log[t][o].value.op = "follow"
  /\ log[t][o].value.recipient \in celebrity
  /\ HandleRecord(c, t, o)
  /\ UNCHANGED <<outboxVars, domainVars, feed, work, drops, lost>>

(* A handler that is going to insert reads the followers or the posts ... *)
ReadForInsert(c, t, o) ==
  LET e == log[t][o].value
  IN /\ FirstOf(c, t, o)
     /\ \/ e.op = "upsert" /\ work[c] = Nothing
        \/ e.op = "follow" /\ work[c].step = "cleared" /\ work[c].record = <<t, o>>
     /\ \E entries \in IF e.op = "upsert" THEN FanOut(e) ELSE Backfill(e) :
          work' = [work EXCEPT ![c] = [step |-> "write", record |-> <<t, o>>, entries |-> entries]]
     /\ UNCHANGED <<outboxVars, groupVars, domainVars, feed, drops, lost>>

(* ... and inserts all the rows, or none if a post is gone meanwhile: the   *)
(* foreign key fails the statement and the handler logs it.                 *)
InsertEntries(c, t, o) ==
  /\ work[c].step = "write" /\ work[c].record = <<t, o>>
  /\ HandleRecord(c, t, o)
  /\ work' = [work EXCEPT ![c] = Nothing]
  /\ IF \A row \in work[c].entries : row[2] \in posts
     THEN feed' = feed \cup work[c].entries /\ UNCHANGED lost
     ELSE lost' = TRUE /\ UNCHANGED feed
  /\ UNCHANGED <<outboxVars, domainVars, drops>>

(* Fault: the DELETE has its parameters the other way round. *)
PruneByFollowerOf(c, t, o) ==
  LET e == log[t][o].value
  IN /\ e.op \in {"unfollow", "delete"}
     /\ work[c] = Nothing
     /\ HandleRecord(c, t, o)
     /\ feed' = IF e.op = "unfollow"
                THEN {row \in feed : ~(row[1] = e.recipient /\ Author[row[2]] = e.actor)}
                ELSE feed
     /\ UNCHANGED <<outboxVars, domainVars, work, drops, lost>>

(* handleUnfollow is one DELETE; other events are none of the feed's.       *)
PruneByFollowee(c, t, o) ==
  LET e == log[t][o].value
  IN /\ e.op \in {"unfollow", "delete"}
     /\ work[c] = Nothing
     /\ HandleRecord(c, t, o)
     /\ feed' = IF e.op = "unfollow"
                THEN {row \in feed : ~(row[1] = e.actor /\ Author[row[2]] = e.recipient)}
                ELSE feed
     /\ UNCHANGED <<outboxVars, domainVars, work, drops, lost>>

(* A handler fails, which is logged and not tried again. *)
DropRecord(c, t, o) ==
  /\ drops < MaxDrops
  /\ work[c].record \in {<<>>, <<t, o>>}
  /\ drops' = drops + 1
  /\ lost' = TRUE
  /\ HandleRecord(c, t, o)
  /\ work' = [work EXCEPT ![c] = Nothing]
  /\ UNCHANGED <<outboxVars, domainVars, feed>>

-----------------------------------------------------------------------------
Handlers ==
  \E c \in Consumers, t \in Topics : \E o \in batch[c][t] :
    \/ ReadCelebrity(c, t, o)
    \/ SkipCelebrity(c, t, o)
    \/ ReadForInsert(c, t, o)
    \/ InsertEntries(c, t, o)
    \/ PruneByFollowee(c, t, o)
    \/ DropRecord(c, t, o)

(* A consumer that dies forgets what it was doing. *)
Group ==
  /\ GroupControl
  /\ work' = [c \in Consumers |-> IF phase'[c] = "work" THEN work[c] ELSE Nothing]
  /\ UNCHANGED <<outboxVars, domainVars, feed, drops, lost>>

Next ==
  \/ Domain /\ UNCHANGED <<groupVars, work, drops, lost>>
  \/ (\E r \in Relays : RelayNext(r)) /\ UNCHANGED <<groupVars, domainVars, feed, work, drops, lost>>
  \/ Group
  \/ Handlers

Spec == Init /\ [][Next]_vars

-----------------------------------------------------------------------------
TypeOK ==
  /\ posts \subseteq made /\ made \subseteq Posts
  /\ follows \subseteq Users \X Users
  /\ celebrity \subseteq Users
  /\ feed \subseteq Users \X posts
  /\ work \in [Consumers -> [step : {"idle", "cleared", "write"},
                           record : {<<>>} \cup (Topics \X Nat),
                           entries : SUBSET (Users \X Posts)]]
  /\ drops \in 0..MaxDrops /\ lost \in BOOLEAN

(* Fault: the live part of the query shows a viewer's own posts only. *)
ListFeedRows(u, since) == {p \in posts : <<u, p>> \in feed \/ (p > since /\ Author[p] = u)}

(* ListFeed: the viewer's feed rows, and of the last 90 days the viewer's   *)
(* own posts and those of the celebrities the viewer follows.  Ids grow     *)
(* with time: since is the last of the posts that are older than that.      *)
ListFeed(u, since) ==
  {p \in posts : \/ <<u, p>> \in feed
                 \/ /\ p > since
                    /\ \/ Author[p] = u
                       \/ Author[p] \in celebrity /\ <<u, Author[p]>> \in follows}

(* The posts a backfill takes whenever it runs: only posts made later push  *)
(* a post out of the LIMIT, deleted ones included.                          *)
AlwaysRecent(a) ==
  {p \in PostsOf(a) : Cardinality({q \in made : Author[q] = a /\ q > p}) < BackfillLimit}

(* Where the feed does have a gap: a celebrity's post that was not fanned   *)
(* out, or not backfilled to who followed later, gets older than what is    *)
(* read live.                                                               *)
OutlivedLiveRead(p, since) == p <= since /\ Author[p] \in celebrity

(* Once everything is handled, a viewer is shown the recent posts of        *)
(* everybody they follow: fan-out, backfill and live read leave no other    *)
(* gap between them, in whatever order the topics are handled and however   *)
(* often, also while an author turns into a celebrity, and whenever the     *)
(* feed is read.  Their own posts viewers are always shown, celebrities     *)
(* too: what is too old to be read live has a row by then.                  *)
FeedIsComplete ==
  Settled /\ ~lost => \A since \in Posts \cup {0} :
    /\ \A f \in follows : \A p \in AlwaysRecent(f[2]) :
         p \in ListFeed(f[1], since) \/ OutlivedLiveRead(p, since)
    /\ \A p \in posts : p \in ListFeed(Author[p], since)

(* With one consumer, nobody is left with the posts of an author they do    *)
(* not follow.                                                              *)
FeedIsSound ==
  Settled /\ ~lost =>
    \A row \in feed : row[1] = Author[row[2]] \/ <<row[1], Author[row[2]]>> \in follows

(* Types, and: handleUnfollow and the fan-out leave nobody with posts of an *)
(* author they do not follow.                                               *)
FeedInv == TypeOK /\ FeedIsSound
==============================================================================
