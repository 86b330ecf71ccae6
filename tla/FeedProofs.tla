----------------------------- MODULE FeedProofs -----------------------------
(***************************************************************************)
(* Theorems about Feed, for any users, posts, authors and limits, where    *)
(* one relay writes the log and one consumer handles it (the instance of   *)
(* the feed_converge run; other orders are known to differ).               *)
(*                                                                         *)
(* What a feed row needs, or what is missing from the feed, is either so   *)
(* now or is put right by an event that is on its way: the pipeline's      *)
(* Coming and Superseded say when.  When everything has settled nothing is *)
(* on its way any more, and what is left is the property.                  *)
(***************************************************************************)
EXTENDS Feed, EventPipelineProofs

(* The events, as the domain transactions write them.                       *)
FollowEvent(u, a) == [topic |-> Activity, op |-> "follow", actor |-> u, recipient |-> a]
UnfollowEvent(u, a) == [topic |-> Activity, op |-> "unfollow", actor |-> u, recipient |-> a]
UpsertEvent(p) ==
  [topic |-> EntityChanges, op |-> "upsert", post |-> p, author |-> Author[p],
   is_celebrity |-> Author[p] \in celebrity]
DeleteEvent(p) == [topic |-> EntityChanges, op |-> "delete", post |-> p]

(* The events the domain transactions write are events of the feed.         *)
LEMMA EventsWritten ==
  /\ \A u, a \in Users : FollowEvent(u, a) \in Follows /\ UnfollowEvent(u, a) \in Follows
  /\ \A p \in Posts : UpsertEvent(p) \in Upserts /\ DeleteEvent(p) \in Deletions
  /\ FeedEvents \subseteq Events
<1>1. \A u, a \in Users : FollowEvent(u, a) \in Follows /\ UnfollowEvent(u, a) \in Follows
  BY DEF FollowEvent, UnfollowEvent, Follows
<1>2. \A p \in Posts : UpsertEvent(p) \in Upserts
  <2>1. \A p \in Posts : Author[p] \in Users
    BY AuthorAssumption
  <2> QED
    BY <2>1 DEF UpsertEvent, Upserts
<1>3. \A p \in Posts : DeleteEvent(p) \in Deletions
  BY DEF DeleteEvent, Deletions
<1> QED
  BY <1>1, <1>2, <1>3, EventsOfFeedAssumption

(* What each domain transaction writes.                                     *)
LEMMA DomainInserts ==
  /\ \A p \in Posts : CreatePost(p) => InsertNext(UpsertEvent(p))
  /\ \A p \in Posts : DeletePost(p) => InsertNext(DeleteEvent(p))
  /\ \A u, a \in Users : FollowUser(u, a) => InsertNext(FollowEvent(u, a))
  /\ \A u, a \in Users : UnfollowUser(u, a) => InsertNext(UnfollowEvent(u, a))
BY DEF CreatePost, DeletePost, FollowUser, UnfollowUser, UpsertEvent, DeleteEvent, FollowEvent, UnfollowEvent

(* Only the domain transactions insert rows, and touch who follows whom and *)
(* what was posted.                                                         *)
LEMMA OnlyDomain ==
  ASSUME [Next]_vars
  PROVE  \/ Domain /\ UNCHANGED <<groupVars, work, drops, lost>>
         \/ QuietStep /\ UNCHANGED domainVars
<1>1. CASE (\E r \in Relays : RelayNext(r)) /\ UNCHANGED <<groupVars, domainVars, feed, work, drops, lost>>
  BY <1>1 DEF QuietStep
<1>2. CASE Group
  BY <1>2 DEF Group, QuietStep
<1>3. CASE Handlers
  <2>1. PICK c \in Consumers, t \in Topics : \E o \in batch[c][t] :
          \/ ReadCelebrity(c, t, o) \/ SkipCelebrity(c, t, o) \/ ReadForInsert(c, t, o)
          \/ InsertEntries(c, t, o) \/ PruneByFollowee(c, t, o) \/ DropRecord(c, t, o)
    BY <1>3 DEF Handlers
  <2>2. PICK o \in batch[c][t] :
          \/ ReadCelebrity(c, t, o) \/ SkipCelebrity(c, t, o) \/ ReadForInsert(c, t, o)
          \/ InsertEntries(c, t, o) \/ PruneByFollowee(c, t, o) \/ DropRecord(c, t, o)
    BY <2>1
  <2>3. CASE ReadCelebrity(c, t, o) \/ ReadForInsert(c, t, o)
    BY <2>3 DEF ReadCelebrity, ReadForInsert, QuietStep
  <2>4. CASE SkipCelebrity(c, t, o) \/ InsertEntries(c, t, o) \/ PruneByFollowee(c, t, o) \/ DropRecord(c, t, o)
    <3>1. HandleRecord(c, t, o) /\ UNCHANGED <<outboxVars, domainVars>>
      BY <2>4 DEF SkipCelebrity, InsertEntries, PruneByFollowee, DropRecord
    <3> QED
      BY <3>1 DEF QuietStep
  <2> QED
    BY <2>2, <2>3, <2>4
<1>4. CASE UNCHANGED vars
  BY <1>4 DEF vars, QuietStep
<1> QED
  BY <1>1, <1>2, <1>3, <1>4 DEF Next

(* Either way it is a step of the pipeline.                                 *)
LEMMA FeedStepsPipeline == [Next]_vars => PipelineStep
<1>1. Domain => \E e \in FeedEvents : InsertNext(e)
  BY EventsWritten, DomainInserts DEF Domain, FeedEvents
<1> QED
  BY <1>1, OnlyDomain, EventsWritten DEF PipelineStep

(* The feed is a client of the pipeline: every behaviour of it is one of    *)
(* the pipeline, so all that is proved of the pipeline holds under it.      *)
THEOREM FeedUsesPipeline == Spec => PipelineSpec
<1>1. Init => PipelineInit
  BY DEF Init, PipelineInit
<1>2. [Next]_vars => [PipelineNext]_pipelineVars
  BY FeedStepsPipeline, StepIsPipelines
<1> QED
  BY <1>1, <1>2, PTL DEF Spec, PipelineSpec

-----------------------------------------------------------------------------
(* The events that make a pair of users follower and followee, those that   *)
(* part them, and those of a post.                                          *)
On(u, a) == {FollowEvent(u, a)}
Off(u, a) == {UnfollowEvent(u, a)}
Upsert(p) == {e \in Upserts : e.post = p}

(* The event of the handler that c is in the middle of.                     *)
EventOf(c) == log[work[c].record[1]][work[c].record[2]].value

(* What an event says of its post and its author; nobody follows themselves. *)
Genuine(e) ==
  /\ e \in FeedEvents
  /\ e.op = "unfollow" => e.actor # e.recipient
  /\ e.op = "upsert" => e.author = Author[e.post] /\ (e.is_celebrity => e.author \in celebrity)

AtWork(c) ==
  /\ phase[c] = "work"
  /\ \E t \in Topics : \E o \in batch[c][t] : work[c].record = <<t, o>>
  /\ \/ work[c].step = "cleared" /\ EventOf(c).op = "follow" /\ work[c].entries = {}
     \/ work[c].step = "write" /\ EventOf(c).op \in {"follow", "upsert"}

(* Types, and what holds of the state whatever the order of events: a       *)
(* user followed by more than the threshold is a celebrity.                 *)
FeedShape ==
  /\ TypeOK
  /\ \A u \in Users : <<u, u>> \notin follows
  /\ IsFiniteSet(made)
  /\ \A a \in Users :
       /\ IsFiniteSet(Followers(a))
       /\ a \notin celebrity => Cardinality(Followers(a)) <= CelebThreshold
  /\ \A id \in Ids : status[id] # "none" => Genuine(outbox[id])
  /\ \A c \in Consumers : work[c] = Nothing \/ AtWork(c)

(* The last event of a pair says what they are to each other.               *)
Alternates ==
  \A u, a \in Users :
    IF <<u, a>> \in follows THEN Superseded(Off(u, a), On(u, a)) ELSE Superseded(On(u, a), Off(u, a))

(* A row is the author's own, or a follower's, or about to be pruned.       *)
Allowed(row) ==
  \/ row[1] = Author[row[2]]
  \/ <<row[1], Author[row[2]]>> \in follows
  \/ Coming(Off(row[1], Author[row[2]]))

RowsAllowed ==
  /\ \A row \in feed : Allowed(row)
  /\ \A c \in Consumers : \A row \in work[c].entries : Allowed(row)

(* A recent post of a followee is there, or its fan-out or the backfill is  *)
(* about to bring it.                                                       *)
NothingMissing ==
  \A u, a \in Users : <<u, a>> \in follows /\ a \notin celebrity =>
    \A p \in AlwaysRecent(a) : <<u, p>> \in feed \/ Coming(Upsert(p)) \/ Coming(On(u, a))

(* A handler in the middle is not behind either: a follower that its fan-out *)
(* missed, or a post that its backfill missed, has an event to come.         *)
FanOutComplete(c, e) ==
  e.author \notin celebrity =>
    \A u \in Followers(e.author) : <<u, e.post>> \in work[c].entries \/ Coming(On(u, e.author))
BackfillComplete(c, e) ==
  e.recipient \notin celebrity =>
    \A p \in AlwaysRecent(e.recipient) : <<e.actor, p>> \in work[c].entries \/ Coming(Upsert(p))
WritesComplete ==
  \A c \in Consumers : work[c].step = "write" =>
    IF EventOf(c).op = "upsert" THEN FanOutComplete(c, EventOf(c)) ELSE BackfillComplete(c, EventOf(c))

(* The author's own row is there or on its way, whoever the author is.      *)
OwnRowsThere == \A p \in posts : <<Author[p], p>> \in feed \/ Coming(Upsert(p))
OwnRowRead(c, e) == e.op = "upsert" => <<Author[e.post], e.post>> \in work[c].entries
OwnRows == OwnRowsThere /\ \A c \in Consumers : work[c].step = "write" => OwnRowRead(c, EventOf(c))

(* As long as no handler has failed.                                        *)
FeedInOrder == lost \/ (RowsAllowed /\ NothingMissing /\ WritesComplete /\ OwnRows)

(* The inductive invariant.                                                 *)
FeedIInv == InOrder /\ FeedShape /\ Alternates /\ FeedInOrder

-----------------------------------------------------------------------------
(* Posts that a backfill is sure to take are among those it takes ...       *)
LEMMA AlwaysRecentIsRecent ==
  ASSUME FeedShape, NEW a \in Users
  PROVE  AlwaysRecent(a) \subseteq Recent(a)
<1> SUFFICES ASSUME NEW p \in AlwaysRecent(a) PROVE p \in Recent(a)
  OBVIOUS
<1>1. PICK later : later = {q \in made : Author[q] = a /\ q > p}
  OBVIOUS
<1>2. PICK newer : newer = {q \in PostsOf(a) : q > p}
  OBVIOUS
<1>3. p \in PostsOf(a) /\ Cardinality(later) < BackfillLimit
  BY <1>1 DEF AlwaysRecent
<1>4. newer \subseteq later
  BY <1>1, <1>2 DEF PostsOf, FeedShape, TypeOK
<1>5. IsFiniteSet(later)
  BY <1>1, FS_Subset DEF FeedShape
<1>6. Cardinality(newer) <= Cardinality(later) /\ Cardinality(newer) \in Nat /\ Cardinality(later) \in Nat
  BY <1>4, <1>5, FS_Subset, FS_CardinalityType
<1>7. Cardinality(newer) < BackfillLimit
  BY <1>3, <1>6, LimitsAssumption
<1> QED
  BY <1>2, <1>3, <1>7 DEF Recent

(* ... and with time there are fewer, but for the one just made.            *)
LEMMA AlwaysRecentShrinks ==
  ASSUME FeedShape, NEW a \in Users, NEW New, posts' \subseteq posts \cup New,
         made \subseteq made', IsFiniteSet(made')
  PROVE  \A p \in AlwaysRecent(a)' : p \in AlwaysRecent(a) \/ p \in New
<1> SUFFICES ASSUME NEW p \in AlwaysRecent(a)', p \notin New PROVE p \in AlwaysRecent(a)
  OBVIOUS
<1>1. PICK before : before = {q \in made : Author[q] = a /\ q > p}
  OBVIOUS
<1>2. PICK after : after = {q \in made' : Author[q] = a /\ q > p}
  OBVIOUS
<1>3. p \in posts' /\ Author[p] = a /\ Cardinality(after) < BackfillLimit
  BY <1>2 DEF AlwaysRecent, PostsOf
<1>4. before \subseteq after /\ IsFiniteSet(after)
  BY <1>1, <1>2, FS_Subset
<1>5. Cardinality(before) <= Cardinality(after) /\ Cardinality(before) \in Nat /\ Cardinality(after) \in Nat
  BY <1>4, FS_Subset, FS_CardinalityType
<1>6. Cardinality(before) < BackfillLimit
  BY <1>3, <1>5, LimitsAssumption
<1> QED
  BY <1>1, <1>3, <1>6 DEF AlwaysRecent, PostsOf

(* The LIMIT on the followers read cuts nothing off an author who is not a  *)
(* celebrity.                                                               *)
LEMMA LimitCutsNothing ==
  ASSUME NEW S, NEW n \in Nat, IsFiniteSet(S), Cardinality(S) <= n, NEW T \in Limited(S, n)
  PROVE  T = S
<1>1. T \in SUBSET S /\ (T # S => Cardinality(T) = n)
  BY DEF Limited
<1> SUFFICES ASSUME T # S PROVE FALSE
  OBVIOUS
<1>2. PICK x \in S : x \notin T
  BY <1>1
<1>3. IsFiniteSet(S \ {x}) /\ Cardinality(S \ {x}) = Cardinality(S) - 1 /\ Cardinality(S) \in Nat
  BY <1>2, FS_RemoveElement, FS_CardinalityType
<1>4. T \subseteq S \ {x}
  BY <1>1, <1>2
<1>5. Cardinality(T) <= Cardinality(S \ {x}) /\ Cardinality(T) \in Nat
  BY <1>3, <1>4, FS_Subset, FS_CardinalityType
<1> QED
  BY <1>1, <1>3, <1>5

-----------------------------------------------------------------------------
(* An event is of the pair or the post that it names, and of no other.      *)
LEMMA EventKinds ==
  ASSUME NEW e \in FeedEvents
  PROVE  /\ e.op \in {"follow", "unfollow", "upsert", "delete"}
         /\ e.op \in {"follow", "unfollow"} => e.actor \in Users /\ e.recipient \in Users
         /\ e.op = "upsert" => e.post \in Posts /\ e.author \in Users
         /\ \A u, a \in Users :
              /\ e \in On(u, a) <=> e.op = "follow" /\ e.actor = u /\ e.recipient = a
              /\ e \in Off(u, a) <=> e.op = "unfollow" /\ e.actor = u /\ e.recipient = a
         /\ \A p : e \in Upsert(p) <=> e.op = "upsert" /\ e.post = p
<1>1. CASE e \in Follows
  <2>1. /\ e.topic = Activity /\ e.op \in {"follow", "unfollow"} /\ e.actor \in Users /\ e.recipient \in Users
        /\ e = [topic |-> e.topic, op |-> e.op, actor |-> e.actor, recipient |-> e.recipient]
    BY <1>1 DEF Follows
  <2>2. \A u, a \in Users :
          /\ e = FollowEvent(u, a) <=> e.op = "follow" /\ e.actor = u /\ e.recipient = a
          /\ e = UnfollowEvent(u, a) <=> e.op = "unfollow" /\ e.actor = u /\ e.recipient = a
    BY <2>1 DEF FollowEvent, UnfollowEvent
  <2>3. \A p : e \notin Upsert(p)
    BY <2>1 DEF Upsert, Upserts
  <2> QED
    BY <2>1, <2>2, <2>3 DEF On, Off
<1>2. CASE e \in Upserts
  <2>1. e.op = "upsert" /\ e.post \in Posts /\ e.author \in Users
    BY <1>2 DEF Upserts
  <2>2. \A u, a \in Users : e # FollowEvent(u, a) /\ e # UnfollowEvent(u, a)
    BY <2>1 DEF FollowEvent, UnfollowEvent
  <2> QED
    BY <1>2, <2>1, <2>2 DEF On, Off, Upsert
<1>3. CASE e \in Deletions
  <2>1. e.op = "delete"
    BY <1>3 DEF Deletions
  <2>2. \A u, a \in Users : e # FollowEvent(u, a) /\ e # UnfollowEvent(u, a)
    BY <2>1 DEF FollowEvent, UnfollowEvent
  <2>3. \A p : e \notin Upsert(p)
    BY <2>1 DEF Upsert, Upserts
  <2> QED
    BY <2>1, <2>2, <2>3 DEF On, Off
<1> QED
  BY <1>1, <1>2, <1>3 DEF FeedEvents

(* A handler is handed one of them, as it was written.                      *)
LEMMA HandedEvent ==
  ASSUME InOrder, FeedShape, NEW c \in Consumers, NEW t \in Topics, NEW o \in batch[c][t]
  PROVE  Genuine(log[t][o].value) /\ log[t][o].value \in FeedEvents /\ o \in 1..Len(log[t])
BY HandedOver DEF FeedShape, Genuine

(* The rows that a handler can come to write are rows of users and posts.   *)
LEMMA EntriesAreRows ==
  ASSUME FeedShape, NEW e, Genuine(e), NEW entries,
         \/ e.op = "upsert" /\ entries \in FanOut(e)
         \/ e.op = "follow" /\ entries \in Backfill(e)
  PROVE  entries \subseteq Users \X Posts
<1>1. e \in FeedEvents
  BY DEF Genuine
<1>2. CASE e.op = "upsert"
  <2>1. e.post \in Posts /\ e.author \in Users
    BY <1>1, <1>2, EventKinds
  <2>2. \A row \in entries : \E u \in Users : row = <<u, e.post>>
    <3>1. CASE e.is_celebrity
      BY <1>2, <2>1, <3>1 DEF FanOut
    <3>2. CASE ~e.is_celebrity
      <4>1. PICK readers \in Limited(Followers(e.author), CelebThreshold) :
              entries = {<<u, e.post>> : u \in readers \cup {e.author}}
        BY <1>2, <3>2 DEF FanOut
      <4>2. readers \subseteq Users
        BY DEF Limited, Followers
      <4> QED
        BY <2>1, <4>1, <4>2
    <3> QED
      BY <3>1, <3>2
  <2> QED
    BY <2>1, <2>2
<1>3. CASE e.op = "follow"
  <2>1. e.actor \in Users /\ entries = {<<e.actor, p>> : p \in Recent(e.recipient)}
    BY <1>1, <1>3, EventKinds DEF Backfill
  <2>2. Recent(e.recipient) \subseteq Posts
    BY DEF Recent, PostsOf, FeedShape, TypeOK
  <2> QED
    BY <2>1, <2>2
<1> QED
  BY <1>2, <1>3

(* Types.                                                                   *)
LEMMA DomainTypes ==
  ASSUME FeedShape, Domain, UNCHANGED <<groupVars, work, drops, lost>>
  PROVE  TypeOK'
<1> USE DEF FeedShape, TypeOK
<1>1. ASSUME NEW p \in Posts, CreatePost(p) PROVE TypeOK'
  BY <1>1 DEF CreatePost
<1>2. ASSUME NEW p \in Posts, DeletePost(p) PROVE TypeOK'
  <2>1. posts' = posts \ {p} /\ feed' = {row \in feed : row[2] # p} /\ UNCHANGED <<made, follows, celebrity>>
    BY <1>2 DEF DeletePost
  <2>2. feed' \subseteq Users \X posts'
    BY <2>1
  <2> QED
    BY <2>1, <2>2
<1>3. ASSUME NEW u \in Users, NEW a \in Users, FollowUser(u, a) PROVE TypeOK'
  BY <1>3 DEF FollowUser
<1>4. ASSUME NEW u \in Users, NEW a \in Users, UnfollowUser(u, a) PROVE TypeOK'
  BY <1>4 DEF UnfollowUser
<1> QED
  BY <1>1, <1>2, <1>3, <1>4 DEF Domain

(* Handlers keep the types ...                                              *)
LEMMA HandlerTypes ==
  ASSUME InOrder, FeedShape, NEW c \in Consumers, NEW t \in Topics, NEW o \in batch[c][t],
         \/ ReadCelebrity(c, t, o) \/ SkipCelebrity(c, t, o) \/ ReadForInsert(c, t, o)
         \/ InsertEntries(c, t, o) \/ PruneByFollowee(c, t, o) \/ DropRecord(c, t, o)
  PROVE  TypeOK'
<1>0. o \in Nat /\ <<t, o>> \in Topics \X Nat
  BY DEF InOrder, IInv, PipelineTypes, GroupTypeOK
<1>1. TypeOK /\ Nothing \in [step : {"idle", "cleared", "write"}, record : {<<>>} \cup (Topics \X Nat),
                            entries : SUBSET (Users \X Posts)]
  BY DEF FeedShape, Nothing
<1>2. CASE ReadCelebrity(c, t, o)
  BY <1>0, <1>1, <1>2 DEF ReadCelebrity, domainVars, TypeOK
<1>3. CASE SkipCelebrity(c, t, o)
  BY <1>1, <1>3 DEF SkipCelebrity, domainVars, TypeOK
<1>4. CASE ReadForInsert(c, t, o)
  <2>1. PICK e : e = log[t][o].value
    OBVIOUS
  <2>2. PICK entries \in (IF e.op = "upsert" THEN FanOut(e) ELSE Backfill(e)) :
          work' = [work EXCEPT ![c] = [step |-> "write", record |-> <<t, o>>, entries |-> entries]]
    BY <1>4, <2>1 DEF ReadForInsert
  <2>3. e.op \in {"upsert", "follow"}
    BY <1>4, <2>1 DEF ReadForInsert
  <2>4. entries \subseteq Users \X Posts
    BY <2>1, <2>2, <2>3, HandedEvent, EntriesAreRows
  <2> QED
    BY <1>0, <1>1, <1>4, <2>2, <2>4 DEF ReadForInsert, domainVars, TypeOK
<1>5. CASE InsertEntries(c, t, o)
  <2>1. work' = [work EXCEPT ![c] = Nothing] /\ UNCHANGED <<posts, made, follows, celebrity, drops>>
    BY <1>5 DEF InsertEntries, domainVars
  <2>2. work[c].entries \subseteq Users \X Posts
    BY <1>1 DEF TypeOK
  <2>3. feed' \subseteq Users \X posts /\ lost' \in BOOLEAN
    <3>1. CASE \A row \in work[c].entries : row[2] \in posts
      <4>1. work[c].entries \subseteq Users \X posts
        BY <2>2, <3>1
      <4>2. feed' = feed \cup work[c].entries /\ UNCHANGED lost
        BY <1>5, <3>1 DEF InsertEntries
      <4> QED
        BY <1>1, <2>1, <4>1, <4>2 DEF TypeOK
    <3>2. CASE ~\A row \in work[c].entries : row[2] \in posts
      <4>1. lost' = TRUE /\ UNCHANGED feed
        BY <1>5, <3>2 DEF InsertEntries
      <4> QED
        BY <1>1, <2>1, <4>1 DEF TypeOK
    <3> QED
      BY <3>1, <3>2
  <2> QED
    BY <1>1, <2>1, <2>3 DEF TypeOK
<1>6. CASE PruneByFollowee(c, t, o)
  <2>1. feed' \subseteq feed
    BY <1>6 DEF PruneByFollowee
  <2> QED
    BY <1>1, <1>6, <2>1 DEF PruneByFollowee, domainVars, TypeOK
<1>7. CASE DropRecord(c, t, o)
  <2>1. drops' \in 0..MaxDrops
    BY <1>1, <1>7, LimitsAssumption DEF DropRecord, TypeOK
  <2> QED
    BY <1>1, <1>7, <2>1 DEF DropRecord, domainVars, TypeOK
<1> QED
  BY <1>2, <1>3, <1>4, <1>5, <1>6, <1>7

(* ... and so does every step.                                              *)
LEMMA TypesStep ==
  ASSUME InOrder, FeedShape, [Next]_vars
  PROVE  TypeOK'
<1>1. CASE Domain /\ UNCHANGED <<groupVars, work, drops, lost>>
  BY <1>1, DomainTypes
<1>2. CASE (\E r \in Relays : RelayNext(r)) /\ UNCHANGED <<groupVars, domainVars, feed, work, drops, lost>>
  BY <1>2 DEF FeedShape, TypeOK, domainVars
<1>3. CASE Group
  <2>1. Nothing \in [step : {"idle", "cleared", "write"}, record : {<<>>} \cup (Topics \X Nat),
                    entries : SUBSET (Users \X Posts)]
    BY DEF Nothing
  <2> QED
    BY <1>3, <2>1 DEF Group, FeedShape, TypeOK, domainVars
<1>4. CASE Handlers
  BY <1>4, HandlerTypes DEF Handlers
<1>5. CASE UNCHANGED vars
  BY <1>5 DEF vars, FeedShape, TypeOK, domainVars
<1> QED
  BY <1>1, <1>2, <1>3, <1>4, <1>5 DEF Next

(* Posts stay finitely many, and the latch on is_celebrity keeps pace with  *)
(* the number of followers.                                                 *)
LEMMA FollowersStep ==
  ASSUME FeedShape, [Next]_vars
  PROVE  /\ IsFiniteSet(made')
         /\ \A a \in Users :
              /\ IsFiniteSet(Followers(a)')
              /\ a \notin celebrity' => Cardinality(Followers(a)') <= CelebThreshold
         /\ celebrity \subseteq celebrity'
         /\ \A u \in Users : <<u, u>> \notin follows'
<1>0. \A u \in Users : <<u, u>> \notin follows'
  <2>1. UNCHANGED follows \/ \E u, a \in Users : FollowUser(u, a) \/ UnfollowUser(u, a)
    BY OnlyDomain DEF Domain, CreatePost, DeletePost, domainVars
  <2>2. ASSUME NEW u \in Users, NEW a \in Users, FollowUser(u, a) \/ UnfollowUser(u, a)
        PROVE  u # a /\ follows' \subseteq follows \cup {<<u, a>>}
    BY <2>2 DEF FollowUser, UnfollowUser, FeedShape
  <2> QED
    BY <2>1, <2>2 DEF FeedShape
<1>1. ASSUME NEW p \in Posts, CreatePost(p)
      PROVE  IsFiniteSet(made') /\ UNCHANGED <<follows, celebrity>>
  BY <1>1, FS_AddElement DEF CreatePost, FeedShape
<1>2. ASSUME NEW p \in Posts, DeletePost(p)
      PROVE  UNCHANGED <<made, follows, celebrity>>
  BY <1>2 DEF DeletePost
<1>3. ASSUME UNCHANGED <<follows, celebrity>>, IsFiniteSet(made')
      PROVE  /\ \A a \in Users :
                  /\ IsFiniteSet(Followers(a)')
                  /\ a \notin celebrity' => Cardinality(Followers(a)') <= CelebThreshold
             /\ celebrity \subseteq celebrity'
  <2>1. \A a \in Users : Followers(a)' = Followers(a)
    BY <1>3 DEF Followers
  <2> QED
    BY <1>3, <2>1 DEF FeedShape
<1>4. ASSUME NEW u \in Users, NEW b \in Users, FollowUser(u, b)
      PROVE  /\ \A a \in Users :
                  /\ IsFiniteSet(Followers(a)')
                  /\ a \notin celebrity' => Cardinality(Followers(a)') <= CelebThreshold
             /\ celebrity \subseteq celebrity' /\ UNCHANGED made
  <2>1. /\ <<u, b>> \notin follows /\ follows' = follows \cup {<<u, b>>} /\ UNCHANGED made
        /\ celebrity' = IF Cardinality(Followers(b)) + 1 > CelebThreshold THEN celebrity \cup {b} ELSE celebrity
    BY <1>4 DEF FollowUser
  <2>2. Followers(b)' = Followers(b) \cup {u} /\ u \notin Followers(b)
    BY <2>1 DEF Followers
  <2>3. \A a \in Users : a # b => Followers(a)' = Followers(a)
    BY <2>1 DEF Followers
  <2>4. IsFiniteSet(Followers(b)) /\ Cardinality(Followers(b)) \in Nat
    BY FS_CardinalityType DEF FeedShape
  <2>5. IsFiniteSet(Followers(b)') /\ Cardinality(Followers(b)') = Cardinality(Followers(b)) + 1
    BY <2>2, <2>4, FS_AddElement
  <2>6. b \notin celebrity' => Cardinality(Followers(b)') <= CelebThreshold
    BY <2>1, <2>4, <2>5, LimitsAssumption
  <2> QED
    BY <2>1, <2>3, <2>5, <2>6 DEF FeedShape
<1>5. ASSUME NEW u \in Users, NEW b \in Users, UnfollowUser(u, b)
      PROVE  /\ \A a \in Users :
                  /\ IsFiniteSet(Followers(a)')
                  /\ a \notin celebrity' => Cardinality(Followers(a)') <= CelebThreshold
             /\ UNCHANGED <<made, celebrity>>
  <2>1. follows' = follows \ {<<u, b>>} /\ UNCHANGED <<made, celebrity>>
    BY <1>5 DEF UnfollowUser
  <2>2. ASSUME NEW a \in Users
        PROVE  /\ IsFiniteSet(Followers(a)')
               /\ a \notin celebrity => Cardinality(Followers(a)') <= CelebThreshold
    <3>1. Followers(a)' \subseteq Followers(a) /\ IsFiniteSet(Followers(a))
      BY <2>1 DEF Followers, FeedShape
    <3>2. /\ IsFiniteSet(Followers(a)') /\ Cardinality(Followers(a)') <= Cardinality(Followers(a))
          /\ Cardinality(Followers(a)') \in Nat /\ Cardinality(Followers(a)) \in Nat
      BY <3>1, FS_Subset, FS_CardinalityType
    <3> QED
      BY <3>2, LimitsAssumption DEF FeedShape
  <2> QED
    BY <2>1, <2>2
<1>6. CASE Domain
  BY <1>0, <1>1, <1>2, <1>3, <1>4, <1>5, <1>6 DEF Domain, FeedShape
<1>7. CASE UNCHANGED domainVars
  <2>1. UNCHANGED <<made, follows, celebrity>>
    BY <1>7 DEF domainVars
  <2> QED
    BY <1>3, <2>1 DEF FeedShape
<1> QED
  BY <1>0, <1>6, <1>7, OnlyDomain

(* What a row says of its post stays true: the flag on the event of an      *)
(* author who was a celebrity does, as the latch is never taken back.       *)
LEMMA GenuineStep ==
  ASSUME InOrder, IInv', OneRelay, OneConsumer, FeedShape, [Next]_vars
  PROVE  (\A id \in Ids : status[id] # "none" => Genuine(outbox[id]))'
<1> SUFFICES ASSUME NEW id \in Ids, status'[id] # "none"
             PROVE  Genuine(outbox[id])'
  OBVIOUS
<1>1. PICK x : x = outbox'[id]
  OBVIOUS
<1>2. Has(id, {x})'
  BY <1>1 DEF Has
<1>3. celebrity \subseteq celebrity'
  BY FollowersStep
<1>4. Has(id, {x}) => Genuine(x)
  BY DEF Has, FeedShape
<1>5. CASE Domain /\ UNCHANGED <<groupVars, work, drops, lost>>
  <2>1. PICK e : e \in FeedEvents /\ Genuine(e) /\ InsertNext(e)
    <3>1. \A p \in Posts : Genuine(UpsertEvent(p)) /\ Genuine(DeleteEvent(p))
      BY EventsWritten DEF Genuine, FeedEvents, UpsertEvent, DeleteEvent
    <3>2. \A u, a \in Users : Genuine(FollowEvent(u, a)) /\ (u # a => Genuine(UnfollowEvent(u, a)))
      BY EventsWritten DEF Genuine, FeedEvents, FollowEvent, UnfollowEvent
    <3>3. \A u, a \in Users : UnfollowUser(u, a) => u # a
      BY DEF UnfollowUser, FeedShape
    <3> QED
      BY <1>5, <3>1, <3>2, <3>3, DomainInserts DEF Domain, Genuine
  <2>2. \A S : \A i \in Ids : Has(i, S)' => Has(i, S) \/ e \in S
    BY <1>5, <2>1, EventsWritten, EventInserted
  <2>3. Has(id, {x}) \/ e = x
    BY <1>2, <2>2
  <2>4. Genuine(x)
    BY <1>4, <2>1, <2>3
  <2> QED
    BY <1>1, <1>3, <2>4 DEF Genuine
<1>6. CASE QuietStep
  <2>1. Has(id, {x})
    BY <1>2, <1>6, EventsRelayed, EventsPolled, EventHandled DEF QuietStep, Has, outboxVars
  <2> QED
    BY <1>1, <1>3, <1>4, <2>1 DEF Genuine
<1> QED
  BY <1>5, <1>6, OnlyDomain

(* A record keeps its place, so a handler in the middle keeps its event.    *)
LEMMA EventStays ==
  ASSUME InOrder, FeedShape, [Next]_vars, NEW c \in Consumers, work[c] # Nothing, work'[c] = work[c]
  PROVE  EventOf(c)' = EventOf(c)
<1>1. TableInv /\ OffsetsInLog
  BY DEF InOrder, IInv, PipelineTypes, TableInv
<1>2. LogGrows
  <2>1. PipelineStep
    BY FeedStepsPipeline
  <2>2. OutboxNext \/ UNCHANGED log
    <3>1. ASSUME NEW e \in Events, InsertNext(e) PROVE OutboxNext
      BY <3>1 DEF InsertNext, OutboxNext
    <3>2. ASSUME NEW r \in Relays, RelayNext(r) PROVE OutboxNext
      BY <3>2 DEF OutboxNext, OutboxMaintenance
    <3> QED
      BY <2>1, <3>1, <3>2 DEF PipelineStep, QuietStep, outboxVars
  <2> QED
    BY <1>1, <2>2, OutboxGrowsLog, LogUnchanged
<1>3. PICK t \in Topics : \E o \in batch[c][t] : work[c].record = <<t, o>>
  BY DEF FeedShape, AtWork
<1>4. PICK o \in batch[c][t] : work[c].record = <<t, o>>
  BY <1>3
<1>5. log'[t][o] = log[t][o]
  BY <1>1, <1>2 DEF OffsetsInLog, LogGrows
<1> QED
  BY <1>4, <1>5 DEF EventOf

(* Unless its consumer hands over the record, reads or dies, a handler      *)
(* stays where it is.                                                       *)
LEMMA AtWorkStays ==
  ASSUME InOrder, FeedShape, [Next]_vars, NEW c \in Consumers, AtWork(c),
         work'[c] = work[c], phase'[c] = phase[c], batch'[c] = batch[c]
  PROVE  AtWork(c)'
<1>1. work[c] # Nothing
  BY DEF AtWork, Nothing
<1>2. EventOf(c)' = EventOf(c)
  BY <1>1, EventStays
<1> QED
  BY <1>2 DEF AtWork

(* The handlers of other consumers go on as they were.                      *)
LEMMA HandlerLeavesOthers ==
  ASSUME IInv, FeedShape, NEW c \in Consumers, NEW t \in Topics, NEW o \in batch[c][t],
         \/ ReadCelebrity(c, t, o) \/ SkipCelebrity(c, t, o) \/ ReadForInsert(c, t, o)
         \/ InsertEntries(c, t, o) \/ PruneByFollowee(c, t, o) \/ DropRecord(c, t, o)
  PROVE  \A d \in Consumers \ {c} : work'[d] = work[d] /\ phase'[d] = phase[d] /\ batch'[d] = batch[d]
<1>1. \A d \in Consumers \ {c} : work'[d] = work[d]
  BY DEF ReadCelebrity, SkipCelebrity, ReadForInsert, InsertEntries, PruneByFollowee, DropRecord,
         FeedShape, TypeOK
<1>2. HandleRecord(c, t, o) \/ UNCHANGED groupVars
  BY DEF ReadCelebrity, SkipCelebrity, ReadForInsert, InsertEntries, PruneByFollowee, DropRecord
<1>3. \A d \in Consumers \ {c} : phase'[d] = phase[d] /\ batch'[d] = batch[d]
  BY <1>2 DEF HandleRecord, groupVars, IInv, PipelineTypes, GroupTypeOK
<1> QED
  BY <1>1, <1>3

(* The group ends what a handler is doing, or leaves it as it is.           *)
LEMMA GroupStopsOrStays ==
  ASSUME IInv, FeedShape, Group, NEW c \in Consumers
  PROVE  \/ work'[c] = Nothing
         \/ work'[c] = work[c] /\ phase'[c] = phase[c] /\ batch'[c] = batch[c]
<1>1. work'[c] = Nothing \/ (work'[c] = work[c] /\ phase'[c] = "work")
  BY DEF Group
<1> SUFFICES ASSUME work[c] # Nothing, work'[c] = work[c], phase'[c] = "work"
             PROVE  phase'[c] = phase[c] /\ batch'[c] = batch[c]
  BY <1>1
<1>2. phase[c] = "work" /\ batch[c] # NoRecords
  <2>1. phase[c] = "work" /\ \E t \in Topics : batch[c][t] # {}
    BY DEF FeedShape, AtWork
  <2> QED
    BY <2>1 DEF NoRecords
<1>3. GroupControl /\ IInv /\ GroupTypeOK
  BY DEF Group, IInv, PipelineTypes
<1>4. ASSUME NEW t \in Topics, NEW d \in Consumers, Assign(t, d) PROVE phase' = phase /\ batch' = batch
  BY <1>4 DEF Assign
<1>5. ASSUME NEW d \in Consumers, PollFetches(d) PROVE phase'[c] = phase[c] /\ batch'[c] = batch[c]
  <2>1. d # c
    BY <1>2, <1>5 DEF PollFetches
  <2> QED
    BY <1>3, <1>5, <2>1 DEF PollFetches, GroupTypeOK
<1>6. ASSUME NEW d \in Consumers, CommitOffsets(d) \/ CommitFails(d) PROVE phase'[c] = phase[c] /\ batch'[c] = batch[c]
  <2>1. d # c
    BY <1>2, <1>6 DEF CommitOffsets, CommitFails
  <2> QED
    BY <1>3, <1>6, <2>1 DEF CommitOffsets, CommitFails, GroupTypeOK
<1>7. ASSUME NEW d \in Consumers, Crash(d) PROVE phase'[c] = phase[c] /\ batch'[c] = batch[c]
  <2>1. d # c
    BY <1>3, <1>7 DEF Crash, GroupTypeOK
  <2> QED
    BY <1>3, <1>7, <2>1 DEF Crash, GroupTypeOK
<1> QED
  BY <1>3, <1>4, <1>5, <1>6, <1>7 DEF GroupControl

(* A handler is either idle or in the middle of a record it holds.          *)
LEMMA WorkStep ==
  ASSUME InOrder, FeedShape, [Next]_vars
  PROVE  \A c \in Consumers : work'[c] = Nothing \/ AtWork(c)'
<1>1. ASSUME NEW c \in Consumers, work'[c] = work[c], phase'[c] = phase[c], batch'[c] = batch[c]
      PROVE  work'[c] = Nothing \/ AtWork(c)'
  BY <1>1, AtWorkStays DEF FeedShape
<1>2. CASE UNCHANGED <<groupVars, work>>
  BY <1>1, <1>2 DEF groupVars
<1>3. CASE Group
  BY <1>1, <1>3, GroupStopsOrStays DEF InOrder
<1>4. CASE Handlers
  <2>1. PICK c \in Consumers, t \in Topics : \E o \in batch[c][t] :
          \/ ReadCelebrity(c, t, o) \/ SkipCelebrity(c, t, o) \/ ReadForInsert(c, t, o)
          \/ InsertEntries(c, t, o) \/ PruneByFollowee(c, t, o) \/ DropRecord(c, t, o)
    BY <1>4 DEF Handlers
  <2>2. PICK o \in batch[c][t] :
          \/ ReadCelebrity(c, t, o) \/ SkipCelebrity(c, t, o) \/ ReadForInsert(c, t, o)
          \/ InsertEntries(c, t, o) \/ PruneByFollowee(c, t, o) \/ DropRecord(c, t, o)
    BY <2>1
  <2>3. \A d \in Consumers \ {c} : work'[d] = work[d] /\ phase'[d] = phase[d] /\ batch'[d] = batch[d]
    BY <2>2, HandlerLeavesOthers DEF InOrder
  <2>4. work'[c] = Nothing \/ AtWork(c)'
    <3>1. CASE SkipCelebrity(c, t, o) \/ PruneByFollowee(c, t, o)
      BY <3>1 DEF SkipCelebrity, PruneByFollowee
    <3>2. CASE InsertEntries(c, t, o) \/ DropRecord(c, t, o)
      BY <3>2 DEF InsertEntries, DropRecord, FeedShape, TypeOK
    <3>3. CASE ReadCelebrity(c, t, o)
      <4>1. /\ work'[c] = [step |-> "cleared", record |-> <<t, o>>, entries |-> {}]
            /\ phase[c] = "work" /\ log[t][o].value.op = "follow" /\ UNCHANGED <<log, phase, batch>>
        BY <3>3 DEF ReadCelebrity, FirstOf, outboxVars, groupVars, FeedShape, TypeOK
      <4>2. EventOf(c)' = log[t][o].value
        BY <4>1 DEF EventOf
      <4> QED
        BY <4>1, <4>2 DEF AtWork
    <3>4. CASE ReadForInsert(c, t, o)
      <4>1. PICK entries : work' = [work EXCEPT ![c] = [step |-> "write", record |-> <<t, o>>, entries |-> entries]]
        BY <3>4 DEF ReadForInsert
      <4>2. /\ work'[c] = [step |-> "write", record |-> <<t, o>>, entries |-> entries]
            /\ phase[c] = "work" /\ log[t][o].value.op \in {"follow", "upsert"} /\ UNCHANGED <<log, phase, batch>>
        BY <3>4, <4>1 DEF ReadForInsert, FirstOf, outboxVars, groupVars, FeedShape, TypeOK
      <4>3. EventOf(c)' = log[t][o].value
        BY <4>2 DEF EventOf
      <4> QED
        BY <4>2, <4>3 DEF AtWork
    <3> QED
      BY <2>2, <3>1, <3>2, <3>3, <3>4
  <2> QED
    BY <1>1, <2>3, <2>4
<1> QED
  BY <1>2, <1>3, <1>4 DEF Next, vars

(* All of the shape.                                                        *)
LEMMA ShapeStays ==
  ASSUME InOrder, IInv', OneRelay, OneConsumer, FeedShape, [Next]_vars
  PROVE  FeedShape'
BY TypesStep, FollowersStep, GenuineStep, WorkStep DEF FeedShape

-----------------------------------------------------------------------------
(* What a domain transaction puts on its way, and that it leaves the rest.  *)
LEMMA DomainComing ==
  ASSUME InOrder, IInv', Domain, UNCHANGED groupVars
  PROVE  /\ \A S : Coming(S) => Coming(S)'
         /\ \A p \in Posts : CreatePost(p) => Coming(Upsert(p))'
         /\ \A u, a \in Users : FollowUser(u, a) => Coming(On(u, a))'
         /\ \A u, a \in Users : UnfollowUser(u, a) => Coming(Off(u, a))'
<1>1. ASSUME NEW p \in Posts, CreatePost(p)
      PROVE  (\A S : Coming(S) => Coming(S)') /\ Coming(Upsert(p))'
  <2>1. PICK e : e = UpsertEvent(p)
    OBVIOUS
  <2>2. e \in Events /\ InsertNext(e) /\ e \in Upsert(p)
    BY <1>1, <2>1, EventsWritten, DomainInserts DEF FeedEvents, Upsert, UpsertEvent
  <2>3. \A S : e \in S \/ Coming(S) => Coming(S)'
    BY <2>2, EventInserted
  <2> QED
    BY <2>2, <2>3
<1>2. ASSUME NEW p \in Posts, DeletePost(p)
      PROVE  \A S : Coming(S) => Coming(S)'
  BY <1>2, EventsWritten, DomainInserts, EventInserted DEF FeedEvents
<1>3. ASSUME NEW u \in Users, NEW a \in Users, FollowUser(u, a)
      PROVE  (\A S : Coming(S) => Coming(S)') /\ Coming(On(u, a))'
  <2>1. PICK e : e = FollowEvent(u, a)
    OBVIOUS
  <2>2. e \in Events /\ InsertNext(e) /\ e \in On(u, a)
    BY <1>3, <2>1, EventsWritten, DomainInserts DEF FeedEvents, On
  <2>3. \A S : e \in S \/ Coming(S) => Coming(S)'
    BY <2>2, EventInserted
  <2> QED
    BY <2>2, <2>3
<1>4. ASSUME NEW u \in Users, NEW a \in Users, UnfollowUser(u, a)
      PROVE  (\A S : Coming(S) => Coming(S)') /\ Coming(Off(u, a))'
  <2>1. PICK e : e = UnfollowEvent(u, a)
    OBVIOUS
  <2>2. e \in Events /\ InsertNext(e) /\ e \in Off(u, a)
    BY <1>4, <2>1, EventsWritten, DomainInserts DEF FeedEvents, Off
  <2>3. \A S : e \in S \/ Coming(S) => Coming(S)'
    BY <2>2, EventInserted
  <2> QED
    BY <2>2, <2>3
<1> QED
  BY <1>1, <1>2, <1>3, <1>4 DEF Domain

(* A pair follows and unfollows in turn, and each event supersedes those of *)
(* the other kind.                                                          *)
LEMMA AlternatesStep ==
  ASSUME InOrder, IInv', OneRelay, OneConsumer, Alternates, [Next]_vars
  PROVE  Alternates'
<1>1. ASSUME NEW e \in FeedEvents, InsertNext(e), UNCHANGED groupVars
      PROVE  /\ \A S, T : e \in T /\ e \notin S => Superseded(S, T)'
             /\ \A S, T : e \notin S /\ Superseded(S, T) => Superseded(S, T)'
  BY <1>1, EventsWritten, EventInserted
<1>2. ASSUME NEW e \in FeedEvents, InsertNext(e), UNCHANGED groupVars, UNCHANGED follows,
             \A u, a \in Users : e \notin On(u, a) /\ e \notin Off(u, a)
      PROVE  Alternates'
  BY <1>1, <1>2 DEF Alternates
<1>3. ASSUME NEW p \in Posts, CreatePost(p) \/ DeletePost(p), UNCHANGED groupVars
      PROVE  Alternates'
  <2>1. PICK e \in Upserts \cup Deletions : InsertNext(e)
    BY <1>3, EventsWritten, DomainInserts
  <2>2. e \in FeedEvents /\ e.op \in {"upsert", "delete"}
    BY DEF FeedEvents, Upserts, Deletions
  <2>3. \A u, a \in Users : e \notin On(u, a) /\ e \notin Off(u, a)
    BY <2>2, EventKinds
  <2>4. UNCHANGED follows
    BY <1>3 DEF CreatePost, DeletePost
  <2> QED
    BY <1>2, <1>3, <2>1, <2>2, <2>3, <2>4
<1>4. ASSUME NEW u \in Users, NEW a \in Users, FollowUser(u, a), UNCHANGED groupVars
      PROVE  Alternates'
  <2>1. PICK e : e = FollowEvent(u, a)
    OBVIOUS
  <2>2. e \in FeedEvents /\ InsertNext(e) /\ e.op = "follow" /\ e.actor = u /\ e.recipient = a
    BY <1>4, <2>1, EventsWritten, DomainInserts DEF FeedEvents, FollowEvent
  <2>3. follows' = follows \cup {<<u, a>>}
    BY <1>4 DEF FollowUser
  <2>4. ASSUME NEW v \in Users, NEW b \in Users
        PROVE  IF <<v, b>> \in follows' THEN Superseded(Off(v, b), On(v, b))' ELSE Superseded(On(v, b), Off(v, b))'
    <3>1. e \notin Off(v, b) /\ (e \in On(v, b) <=> <<v, b>> = <<u, a>>)
      BY <2>2, EventKinds
    <3>2. CASE <<v, b>> = <<u, a>>
      BY <1>1, <1>4, <2>2, <2>3, <3>1, <3>2
    <3>3. CASE <<v, b>> # <<u, a>>
      BY <1>1, <1>4, <2>2, <2>3, <3>1, <3>3 DEF Alternates
    <3> QED
      BY <3>2, <3>3
  <2> QED
    BY <2>4 DEF Alternates
<1>5. ASSUME NEW u \in Users, NEW a \in Users, UnfollowUser(u, a), UNCHANGED groupVars
      PROVE  Alternates'
  <2>1. PICK e : e = UnfollowEvent(u, a)
    OBVIOUS
  <2>2. e \in FeedEvents /\ InsertNext(e) /\ e.op = "unfollow" /\ e.actor = u /\ e.recipient = a
    BY <1>5, <2>1, EventsWritten, DomainInserts DEF FeedEvents, UnfollowEvent
  <2>3. follows' = follows \ {<<u, a>>}
    BY <1>5 DEF UnfollowUser
  <2>4. ASSUME NEW v \in Users, NEW b \in Users
        PROVE  IF <<v, b>> \in follows' THEN Superseded(Off(v, b), On(v, b))' ELSE Superseded(On(v, b), Off(v, b))'
    <3>1. e \notin On(v, b) /\ (e \in Off(v, b) <=> <<v, b>> = <<u, a>>)
      BY <2>2, EventKinds
    <3>2. CASE <<v, b>> = <<u, a>>
      BY <1>1, <1>5, <2>2, <2>3, <3>1, <3>2
    <3>3. CASE <<v, b>> # <<u, a>>
      BY <1>1, <1>5, <2>2, <2>3, <3>1, <3>3 DEF Alternates
    <3> QED
      BY <3>2, <3>3
  <2> QED
    BY <2>4 DEF Alternates
<1>6. CASE QuietStep /\ UNCHANGED domainVars
  <2>1. \A S, T : Superseded(S, T) => Superseded(S, T)'
    BY <1>6, EventsRelayed, EventsPolled, EventHandled DEF QuietStep, Superseded, Has, outboxVars
  <2> QED
    BY <1>6, <2>1 DEF Alternates, domainVars
<1> QED
  BY <1>3, <1>4, <1>5, <1>6, OnlyDomain DEF Domain

-----------------------------------------------------------------------------
(* While nothing is handled, what the feed lacks or has too much stays on   *)
(* its way: a transaction that calls for a change of the feed has sent for  *)
(* it.                                                                      *)
LEMMA OrderCarriesOver ==
  ASSUME InOrder, FeedShape, RowsAllowed, NothingMissing, WritesComplete, [Next]_vars, celebrity \subseteq celebrity',
         \A S : Coming(S) => Coming(S)',
         \A u, a \in Users : <<u, a>> \in follows' => <<u, a>> \in follows \/ Coming(On(u, a))',
         \A u, a \in Users : <<u, a>> \in follows => <<u, a>> \in follows' \/ Coming(Off(u, a))',
         \A a \in Users : \A p \in AlwaysRecent(a)' : p \in AlwaysRecent(a) \/ Coming(Upsert(p))',
         feed' \subseteq feed, \A row \in feed : row \in feed' \/ row[2] \notin posts',
         \A c \in Consumers : work'[c] = work[c] \/ (work'[c].step # "write" /\ work'[c].entries = {})
  PROVE  RowsAllowed' /\ NothingMissing' /\ WritesComplete'
<1>1. ASSUME NEW row \in Users \X Posts, Allowed(row) PROVE Allowed(row)'
  <2>1. row[1] \in Users /\ Author[row[2]] \in Users
    BY AuthorAssumption
  <2> QED
    BY <1>1, <2>1 DEF Allowed
<1>2. feed \subseteq Users \X Posts /\ \A c \in Consumers : work[c].entries \subseteq Users \X Posts
  BY DEF FeedShape, TypeOK
<1>3. RowsAllowed'
  BY <1>1, <1>2 DEF RowsAllowed
<1>4. \A a \in Users : \A p \in AlwaysRecent(a)' : p \in posts'
  BY DEF AlwaysRecent, PostsOf
<1>5. ASSUME NEW u \in Users, NEW a \in Users, <<u, a>> \in follows', a \notin celebrity', NEW p \in AlwaysRecent(a)'
      PROVE  <<u, p>> \in feed' \/ Coming(Upsert(p))' \/ Coming(On(u, a))'
  <2>1. a \notin celebrity
    BY <1>5
  <2>2. CASE <<u, a>> \in follows /\ p \in AlwaysRecent(a)
    <3>1. <<u, p>> \in feed \/ Coming(Upsert(p)) \/ Coming(On(u, a))
      BY <2>1, <2>2 DEF NothingMissing
    <3>2. <<u, p>> \in feed => <<u, p>> \in feed'
      BY <1>4, <1>5
    <3> QED
      BY <3>1, <3>2
  <2> QED
    BY <1>5, <2>2
<1>6. ASSUME NEW c \in Consumers, work'[c].step = "write"
      PROVE  IF EventOf(c)'.op = "upsert" THEN FanOutComplete(c, EventOf(c))' ELSE BackfillComplete(c, EventOf(c))'
  <2>1. work'[c] = work[c] /\ work[c] # Nothing /\ work[c].step = "write"
    BY <1>6 DEF Nothing
  <2>2. EventOf(c)' = EventOf(c)
    BY <2>1, EventStays
  <2>3. PICK e : e = EventOf(c)
    OBVIOUS
  <2>4. e \in FeedEvents /\ e.op \in {"follow", "upsert"}
    <3>1. AtWork(c)
      BY <2>1 DEF FeedShape
    <3>2. PICK t \in Topics : \E o \in batch[c][t] : work[c].record = <<t, o>>
      BY <3>1 DEF AtWork
    <3>3. PICK o \in batch[c][t] : work[c].record = <<t, o>>
      BY <3>2
    <3> QED
      BY <2>1, <2>3, <3>1, <3>3, HandedEvent DEF AtWork, EventOf
  <2>5. CASE e.op = "upsert"
    <3>1. FanOutComplete(c, e) /\ e.author \in Users
      BY <2>1, <2>3, <2>4, <2>5, EventKinds DEF WritesComplete
    <3>2. ASSUME e.author \notin celebrity', NEW u \in Followers(e.author)'
          PROVE  <<u, e.post>> \in work'[c].entries \/ Coming(On(u, e.author))'
      <4>1. u \in Users /\ <<u, e.author>> \in follows' /\ e.author \notin celebrity
        BY <3>2 DEF Followers
      <4>2. CASE <<u, e.author>> \in follows
        <5>1. u \in Followers(e.author)
          BY <4>1, <4>2 DEF Followers
        <5>2. <<u, e.post>> \in work[c].entries \/ Coming(On(u, e.author))
          BY <3>1, <4>1, <5>1 DEF FanOutComplete
        <5> QED
          BY <2>1, <5>2
      <4> QED
        BY <3>1, <4>1, <4>2
    <3> QED
      BY <2>2, <2>3, <2>5, <3>2 DEF FanOutComplete
  <2>6. CASE e.op = "follow"
    <3>1. BackfillComplete(c, e) /\ e.recipient \in Users
      BY <2>1, <2>3, <2>4, <2>6, EventKinds DEF WritesComplete
    <3>2. ASSUME e.recipient \notin celebrity', NEW p \in AlwaysRecent(e.recipient)'
          PROVE  <<e.actor, p>> \in work'[c].entries \/ Coming(Upsert(p))'
      <4>1. e.recipient \notin celebrity
        BY <3>2
      <4>2. CASE p \in AlwaysRecent(e.recipient)
        <5>1. <<e.actor, p>> \in work[c].entries \/ Coming(Upsert(p))
          BY <3>1, <4>1, <4>2 DEF BackfillComplete
        <5> QED
          BY <2>1, <5>1
      <4> QED
        BY <3>1, <3>2, <4>2
    <3> QED
      BY <2>2, <2>3, <2>6, <3>2 DEF BackfillComplete
  <2> QED
    BY <2>4, <2>5, <2>6
<1> QED
  BY <1>3, <1>5, <1>6 DEF NothingMissing, WritesComplete

(* A transaction keeps the rows allowed and none missing.                   *)
LEMMA DomainInOrder ==
  ASSUME InOrder, IInv', FeedShape, RowsAllowed, NothingMissing, WritesComplete, [Next]_vars,
         Domain, UNCHANGED <<groupVars, work>>
  PROVE  RowsAllowed' /\ NothingMissing' /\ WritesComplete'
<1>1. \A S : Coming(S) => Coming(S)'
  BY DomainComing
<1>2. celebrity \subseteq celebrity' /\ IsFiniteSet(made')
  BY FollowersStep
<1>3. ASSUME NEW p \in Posts, CreatePost(p)
      PROVE  RowsAllowed' /\ NothingMissing' /\ WritesComplete'
  <2>1. Coming(Upsert(p))'
    BY <1>3, DomainComing
  <2>2. posts' \subseteq posts \cup {p} /\ made \subseteq made' /\ UNCHANGED <<follows, feed>>
    BY <1>3 DEF CreatePost
  <2>3. \A a \in Users : \A q \in AlwaysRecent(a)' : q \in AlwaysRecent(a) \/ q \in {p}
    BY <1>2, <2>2, AlwaysRecentShrinks
  <2>4. \A a \in Users : \A q \in AlwaysRecent(a)' : q \in AlwaysRecent(a) \/ Coming(Upsert(q))'
    BY <2>1, <2>3
  <2> QED
    BY <1>1, <1>2, <2>2, <2>4, OrderCarriesOver
<1>4. ASSUME NEW p \in Posts, DeletePost(p)
      PROVE  RowsAllowed' /\ NothingMissing' /\ WritesComplete'
  <2>1. posts' = posts \ {p} /\ feed' = {row \in feed : row[2] # p} /\ UNCHANGED <<made, follows>>
    BY <1>4 DEF DeletePost
  <2>2. \A a \in Users : \A q \in AlwaysRecent(a)' : q \in AlwaysRecent(a) \/ q \in {}
    BY <1>2, <2>1, AlwaysRecentShrinks
  <2>3. feed' \subseteq feed /\ \A row \in feed : row \in feed' \/ row[2] \notin posts'
    BY <2>1
  <2> QED
    BY <1>1, <1>2, <2>1, <2>2, <2>3, OrderCarriesOver
<1>5. ASSUME NEW u \in Users, NEW b \in Users, FollowUser(u, b) \/ UnfollowUser(u, b)
      PROVE  RowsAllowed' /\ NothingMissing' /\ WritesComplete'
  <2>1. UNCHANGED <<posts, made, feed>>
    BY <1>5 DEF FollowUser, UnfollowUser
  <2>2. \A a \in Users : AlwaysRecent(a)' = AlwaysRecent(a)
    BY <2>1 DEF AlwaysRecent, PostsOf
  <2>3. \A v, a \in Users : <<v, a>> \in follows' => <<v, a>> \in follows \/ Coming(On(v, a))'
    <3>1. CASE FollowUser(u, b)
      BY <3>1, DomainComing DEF FollowUser
    <3>2. CASE UnfollowUser(u, b)
      BY <3>2 DEF UnfollowUser
    <3> QED
      BY <1>5, <3>1, <3>2
  <2>4. \A v, a \in Users : <<v, a>> \in follows => <<v, a>> \in follows' \/ Coming(Off(v, a))'
    <3>1. CASE FollowUser(u, b)
      BY <3>1 DEF FollowUser
    <3>2. CASE UnfollowUser(u, b)
      BY <3>2, DomainComing DEF UnfollowUser
    <3> QED
      BY <1>5, <3>1, <3>2
  <2> QED
    BY <1>1, <1>2, <2>1, <2>2, <2>3, <2>4, OrderCarriesOver
<1> QED
  BY <1>3, <1>4, <1>5 DEF Domain

(* The relay and the group only move what is on its way; and the first read *)
(* of handleFollow.                                                         *)
LEMMA OthersInOrder ==
  ASSUME InOrder, IInv', OneRelay, OneConsumer, FeedShape, RowsAllowed, NothingMissing, WritesComplete, [Next]_vars,
         UNCHANGED <<domainVars, feed>>, \A S : Coming(S) => Coming(S)',
         \A c \in Consumers : work'[c] = work[c] \/ (work'[c].step # "write" /\ work'[c].entries = {})
  PROVE  RowsAllowed' /\ NothingMissing' /\ WritesComplete'
<1>1. UNCHANGED <<posts, made, follows, celebrity, feed>>
  BY DEF domainVars
<1>2. \A a \in Users : AlwaysRecent(a)' = AlwaysRecent(a)
  BY <1>1 DEF AlwaysRecent, PostsOf
<1> QED
  BY <1>1, <1>2, OrderCarriesOver

(* So do the relay and the group.                                           *)
LEMMA PipelineInOrder ==
  ASSUME InOrder, IInv', OneRelay, OneConsumer, FeedShape, RowsAllowed, NothingMissing, WritesComplete, [Next]_vars,
         \/ (\E r \in Relays : RelayNext(r)) /\ UNCHANGED <<groupVars, domainVars, feed, work>>
         \/ Group
         \/ UNCHANGED vars
  PROVE  RowsAllowed' /\ NothingMissing' /\ WritesComplete'
<1>1. UNCHANGED <<domainVars, feed>>
  BY DEF Group, vars, domainVars
<1>2. \A S : Coming(S) => Coming(S)'
  <2>1. CASE (\E r \in Relays : RelayNext(r)) /\ UNCHANGED groupVars
    BY <2>1, EventsRelayed
  <2>2. CASE Group
    BY <2>2, EventsPolled DEF Group
  <2>3. CASE UNCHANGED vars
    BY <2>3 DEF vars, outboxVars, groupVars, Coming, Has, OnItsWay, Unsent, ToCome
  <2> QED
    BY <2>1, <2>2, <2>3
<1>3. \A c \in Consumers : work'[c] = work[c] \/ (work'[c].step # "write" /\ work'[c].entries = {})
  BY DEF Group, vars, Nothing
<1> QED
  BY <1>1, <1>2, <1>3, OthersInOrder

-----------------------------------------------------------------------------
(* The handlers.  With one consumer, no other is in the middle.             *)
LEMMA NobodyElse ==
  ASSUME OneConsumer, NEW c \in Consumers, work'[c] = Nothing
  PROVE  WritesComplete' /\ \A d \in Consumers : work'[d].entries = {}
<1>1. \A d \in Consumers : work'[d] = Nothing
  BY DEF OneConsumer
<1> QED
  BY <1>1 DEF WritesComplete, Nothing

(* handleFollow of a celebrity: nothing has to be backfilled.               *)
LEMMA SkipInOrder ==
  ASSUME InOrder, OneConsumer, FeedShape, RowsAllowed, NothingMissing,
         NEW c \in Consumers, NEW t \in Topics, NEW o \in batch[c][t], SkipCelebrity(c, t, o)
  PROVE  RowsAllowed' /\ NothingMissing' /\ WritesComplete'
<1>1. PICK e : e = log[t][o].value
  OBVIOUS
<1>2. /\ work'[c] = Nothing /\ e.op = "follow" /\ e.recipient \in celebrity
      /\ HandleRecord(c, t, o) /\ UNCHANGED <<outboxVars, posts, made, follows, celebrity, feed>>
  BY <1>1 DEF SkipCelebrity, domainVars
<1>3. e \in FeedEvents
  BY <1>1, HandedEvent
<1>4. \A S : e \notin S /\ Coming(S) => Coming(S)'
  BY <1>1, <1>2, EventHandled
<1>5. /\ \A u, a \in Users : e \notin Off(u, a) /\ (a \notin celebrity => e \notin On(u, a))
      /\ \A p : e \notin Upsert(p)
  BY <1>2, <1>3, EventKinds
<1>6. WritesComplete' /\ \A d \in Consumers : work'[d].entries = {}
  BY <1>2, NobodyElse
<1>7. RowsAllowed'
  <2>1. \A row \in feed : row[1] \in Users /\ Author[row[2]] \in Users
    BY AuthorAssumption DEF FeedShape, TypeOK
  <2>2. ASSUME NEW row \in feed PROVE Allowed(row)'
    BY <1>2, <1>4, <1>5, <2>1 DEF RowsAllowed, Allowed
  <2> QED
    BY <1>2, <1>6, <2>2 DEF RowsAllowed
<1>8. NothingMissing'
  <2>1. \A a \in Users : AlwaysRecent(a)' = AlwaysRecent(a)
    BY <1>2 DEF AlwaysRecent, PostsOf
  <2> QED
    BY <1>2, <1>4, <1>5, <2>1 DEF NothingMissing
<1> QED
  BY <1>6, <1>7, <1>8

(* handleUnfollow: whoever follows again has a backfill to come, as the     *)
(* follow came after the unfollow.                                          *)
LEMMA PruneInOrder ==
  ASSUME InOrder, OneConsumer, FeedShape, Alternates, RowsAllowed, NothingMissing,
         NEW c \in Consumers, NEW t \in Topics, NEW o \in batch[c][t], PruneByFollowee(c, t, o)
  PROVE  RowsAllowed' /\ NothingMissing' /\ WritesComplete'
<1>1. PICK e : e = log[t][o].value
  OBVIOUS
<1>2. /\ work'[c] = Nothing /\ e.op \in {"unfollow", "delete"}
      /\ HandleRecord(c, t, o) /\ UNCHANGED <<outboxVars, posts, made, follows, celebrity>>
      /\ feed' = IF e.op = "unfollow"
                 THEN {row \in feed : ~(row[1] = e.actor /\ Author[row[2]] = e.recipient)}
                 ELSE feed
  BY <1>1 DEF PruneByFollowee, domainVars
<1>3. e \in FeedEvents
  BY <1>1, HandedEvent
<1>4. \A S : e \notin S /\ Coming(S) => Coming(S)'
  BY <1>1, <1>2, EventHandled
<1>5. /\ \A u, a \in Users : e \notin On(u, a) /\ (e \in Off(u, a) <=> e.op = "unfollow" /\ e.actor = u /\ e.recipient = a)
      /\ \A p : e \notin Upsert(p)
  BY <1>2, <1>3, EventKinds
<1>6. WritesComplete' /\ \A d \in Consumers : work'[d].entries = {}
  BY <1>2, NobodyElse
<1>7. RowsAllowed'
  <2>1. \A row \in feed : row[1] \in Users /\ Author[row[2]] \in Users
    BY AuthorAssumption DEF FeedShape, TypeOK
  <2>2. ASSUME NEW row \in feed' PROVE Allowed(row)'
    <3>1. row \in feed /\ e \notin Off(row[1], Author[row[2]])
      BY <1>2, <1>5, <2>1, <2>2
    <3> QED
      BY <1>2, <1>4, <2>1, <3>1 DEF RowsAllowed, Allowed
  <2> QED
    BY <1>6, <2>2 DEF RowsAllowed
<1>8. NothingMissing'
  <2>1. \A a \in Users : AlwaysRecent(a)' = AlwaysRecent(a)
    BY <1>2 DEF AlwaysRecent, PostsOf
  <2>2. ASSUME NEW u \in Users, NEW a \in Users, <<u, a>> \in follows, a \notin celebrity, NEW p \in AlwaysRecent(a)
        PROVE  <<u, p>> \in feed' \/ Coming(Upsert(p))' \/ Coming(On(u, a))'
    <3>1. <<u, p>> \in feed \/ Coming(Upsert(p)) \/ Coming(On(u, a))
      BY <2>2 DEF NothingMissing
    <3>2. CASE e \in Off(u, a)
      <4>1. Superseded(Off(u, a), On(u, a))
        BY <2>2 DEF Alternates
      <4>2. t = Activity
        <5>1. e.topic = t
          BY <1>1, HandedOver
        <5> QED
          BY <3>2, <5>1 DEF Off, UnfollowEvent
      <4>3. \A x \in On(u, a) : x.topic = t
        BY <4>2 DEF On, FollowEvent
      <4>4. Coming(On(u, a))
        BY <1>1, <3>2, <4>1, <4>3, SupersedingComes
      <4> QED
        BY <1>4, <1>5, <4>4
    <3>3. CASE e \notin Off(u, a)
      <4>1. Author[p] = a
        BY <2>2 DEF AlwaysRecent, PostsOf
      <4>2. <<u, p>> \in feed => <<u, p>> \in feed'
        BY <1>2, <1>5, <3>3, <4>1
      <4> QED
        BY <1>4, <1>5, <3>1, <4>2
    <3> QED
      BY <3>2, <3>3
  <2> QED
    BY <1>2, <2>1, <2>2 DEF NothingMissing
<1> QED
  BY <1>6, <1>7, <1>8

(* The rows that a handler reads are allowed to be written: a follower who  *)
(* has unfollowed since then has an unfollow event behind this one.         *)
LEMMA EntriesAllowed ==
  ASSUME InOrder, FeedShape, Alternates, NEW c \in Consumers, NEW t \in Topics, NEW o \in batch[c][t],
         NEW e, e = log[t][o].value, NEW entries,
         \/ e.op = "upsert" /\ entries \in FanOut(e)
         \/ e.op = "follow" /\ entries \in Backfill(e)
  PROVE  \A row \in entries : Allowed(row)
<1>1. Genuine(e) /\ e \in FeedEvents
  BY HandedEvent
<1>2. CASE e.op = "upsert"
  <2>1. e.post \in Posts /\ e.author \in Users /\ e.author = Author[e.post]
    BY <1>1, <1>2, EventKinds DEF Genuine
  <2>2. \A row \in entries : \E u \in Followers(e.author) \cup {e.author} : row = <<u, e.post>>
    <3>1. CASE e.is_celebrity
      BY <1>2, <3>1 DEF FanOut
    <3>2. CASE ~e.is_celebrity
      <4>1. PICK readers \in Limited(Followers(e.author), CelebThreshold) :
              entries = {<<u, e.post>> : u \in readers \cup {e.author}}
        BY <1>2, <3>2 DEF FanOut
      <4>2. readers \subseteq Followers(e.author)
        BY DEF Limited
      <4> QED
        BY <4>1, <4>2
    <3> QED
      BY <3>1, <3>2
  <2>3. ASSUME NEW u \in Followers(e.author) \cup {e.author} PROVE Allowed(<<u, e.post>>)
    BY <2>1, <2>3 DEF Allowed, Followers
  <2> QED
    BY <2>2, <2>3
<1>3. CASE e.op = "follow"
  <2>1. /\ entries = {<<e.actor, p>> : p \in Recent(e.recipient)}
        /\ e.actor \in Users /\ e.recipient \in Users /\ e \in On(e.actor, e.recipient)
    BY <1>1, <1>3, EventKinds DEF Backfill
  <2>2. \A p \in Recent(e.recipient) : Author[p] = e.recipient
    BY DEF Recent, PostsOf
  <2>3. <<e.actor, e.recipient>> \in follows \/ Coming(Off(e.actor, e.recipient))
    <3>1. CASE <<e.actor, e.recipient>> \notin follows
      <4>1. Superseded(On(e.actor, e.recipient), Off(e.actor, e.recipient))
        BY <2>1, <3>1 DEF Alternates
      <4>2. t = Activity
        <5>1. e.topic = t
          BY HandedOver
        <5> QED
          BY <2>1, <5>1 DEF On, FollowEvent
      <4>3. \A x \in Off(e.actor, e.recipient) : x.topic = t
        BY <4>2 DEF Off, UnfollowEvent
      <4> QED
        BY <2>1, <4>1, <4>3, SupersedingComes
    <3> QED
      BY <3>1
  <2>4. ASSUME NEW p \in Recent(e.recipient) PROVE Allowed(<<e.actor, p>>)
    BY <2>2, <2>3 DEF Allowed
  <2> QED
    BY <2>1, <2>4
<1> QED
  BY <1>2, <1>3

(* ... and at the time of the read none is missing.                         *)
LEMMA EntriesComplete ==
  ASSUME FeedShape, NEW e, Genuine(e), NEW entries
  PROVE  /\ e.op = "upsert" /\ entries \in FanOut(e) /\ e.author \notin celebrity =>
              \A u \in Followers(e.author) : <<u, e.post>> \in entries
         /\ e.op = "follow" /\ entries \in Backfill(e) =>
              \A p \in AlwaysRecent(e.recipient) : <<e.actor, p>> \in entries
<1>1. e \in FeedEvents
  BY DEF Genuine
<1>2. ASSUME e.op = "upsert", entries \in FanOut(e), e.author \notin celebrity, NEW u \in Followers(e.author)
      PROVE  <<u, e.post>> \in entries
  <2>1. e.author \in Users /\ ~e.is_celebrity
    BY <1>1, <1>2, EventKinds DEF Genuine
  <2>2. PICK readers \in Limited(Followers(e.author), CelebThreshold) :
          entries = {<<v, e.post>> : v \in readers \cup {e.author}}
    BY <1>2, <2>1 DEF FanOut
  <2>3. readers = Followers(e.author)
    BY <1>2, <2>1, LimitCutsNothing, LimitsAssumption DEF FeedShape
  <2> QED
    BY <1>2, <2>2, <2>3
<1>3. ASSUME e.op = "follow", entries \in Backfill(e), NEW p \in AlwaysRecent(e.recipient)
      PROVE  <<e.actor, p>> \in entries
  <2>1. p \in Recent(e.recipient)
    BY <1>1, <1>3, EventKinds, AlwaysRecentIsRecent
  <2> QED
    BY <1>3, <2>1 DEF Backfill
<1> QED
  BY <1>2, <1>3

(* What a handler has read will be complete when it is inserted.            *)
LEMMA ReadInOrder ==
  ASSUME InOrder, OneConsumer, FeedShape, Alternates, RowsAllowed, NothingMissing,
         NEW c \in Consumers, NEW t \in Topics, NEW o \in batch[c][t], ReadForInsert(c, t, o)
  PROVE  RowsAllowed' /\ NothingMissing' /\ WritesComplete'
<1>1. PICK e : e = log[t][o].value
  OBVIOUS
<1>2. PICK entries :
        /\ \/ e.op = "upsert" /\ entries \in FanOut(e)
           \/ e.op = "follow" /\ entries \in Backfill(e)
        /\ work' = [work EXCEPT ![c] = [step |-> "write", record |-> <<t, o>>, entries |-> entries]]
  <2>1. e.op \in {"upsert", "follow"}
    BY <1>1 DEF ReadForInsert
  <2>2. PICK entries \in (IF e.op = "upsert" THEN FanOut(e) ELSE Backfill(e)) :
          work' = [work EXCEPT ![c] = [step |-> "write", record |-> <<t, o>>, entries |-> entries]]
    BY <1>1 DEF ReadForInsert
  <2> QED
    BY <2>1, <2>2
<1>3. UNCHANGED <<outboxVars, groupVars, domainVars, feed>>
  BY DEF ReadForInsert
<1>4. UNCHANGED <<log, status, outbox, relay, owner, committed, position, batch, posts, made, follows, celebrity, feed>>
  BY <1>3 DEF outboxVars, groupVars, domainVars
<1>5. \A S : Coming(S)' <=> Coming(S)
  BY <1>4 DEF Coming, Has, OnItsWay, Unsent, ToCome
<1>6. \A d \in Consumers :
        d = c /\ work'[d].step = "write" /\ work'[d].record = <<t, o>> /\ work'[d].entries = entries
  BY <1>2 DEF OneConsumer, FeedShape, TypeOK
<1>7. \A row : Allowed(row)' <=> Allowed(row)
  BY <1>4, <1>5 DEF Allowed
<1>8. RowsAllowed'
  BY <1>1, <1>2, <1>4, <1>6, <1>7, EntriesAllowed DEF RowsAllowed
<1>9. \A a : AlwaysRecent(a)' = AlwaysRecent(a) /\ Followers(a)' = Followers(a)
  BY <1>4 DEF AlwaysRecent, PostsOf, Followers
<1>10. NothingMissing'
  BY <1>4, <1>5, <1>9 DEF NothingMissing
<1>11. EventOf(c)' = e
  BY <1>1, <1>4, <1>6 DEF EventOf
<1>12. Genuine(e)
  BY <1>1, HandedEvent
<1>13. CASE e.op = "upsert"
  <2>1. e.author \notin celebrity => \A u \in Followers(e.author) : <<u, e.post>> \in entries
    BY <1>2, <1>12, <1>13, EntriesComplete
  <2>2. FanOutComplete(c, e)'
    BY <1>4, <1>6, <1>9, <2>1 DEF FanOutComplete
  <2> QED
    BY <1>6, <1>8, <1>10, <1>11, <1>13, <2>2 DEF WritesComplete, FanOutComplete
<1>14. CASE e.op = "follow"
  <2>1. \A p \in AlwaysRecent(e.recipient) : <<e.actor, p>> \in entries
    BY <1>2, <1>12, <1>14, EntriesComplete
  <2>2. BackfillComplete(c, e)'
    BY <1>4, <1>6, <1>9, <2>1 DEF BackfillComplete
  <2> QED
    BY <1>6, <1>8, <1>10, <1>11, <1>14, <2>2 DEF WritesComplete, BackfillComplete
<1> QED
  BY <1>2, <1>13, <1>14

(* The insert brings what the event was to bring, or fails as a whole.      *)
LEMMA InsertInOrder ==
  ASSUME InOrder, OneConsumer, FeedShape, RowsAllowed, NothingMissing, WritesComplete,
         NEW c \in Consumers, NEW t \in Topics, NEW o \in batch[c][t], InsertEntries(c, t, o),
         \A row \in work[c].entries : row[2] \in posts
  PROVE  RowsAllowed' /\ NothingMissing' /\ WritesComplete'
<1>1. PICK e : e = log[t][o].value
  OBVIOUS
<1>2. /\ work[c].step = "write" /\ work[c].record = <<t, o>> /\ work' = [work EXCEPT ![c] = Nothing]
      /\ HandleRecord(c, t, o) /\ UNCHANGED <<outboxVars, posts, made, follows, celebrity>>
      /\ feed' = feed \cup work[c].entries
  BY DEF InsertEntries, domainVars
<1>3. e = EventOf(c) /\ e \in FeedEvents /\ e.op \in {"follow", "upsert"}
  <2>1. AtWork(c)
    BY <1>2 DEF FeedShape, Nothing
  <2>2. e = EventOf(c)
    BY <1>1, <1>2 DEF EventOf
  <2> QED
    BY <1>1, <1>2, <2>1, <2>2, HandedEvent DEF AtWork
<1>4. \A S : e \notin S /\ Coming(S) => Coming(S)'
  BY <1>1, <1>2, EventHandled
<1>5. /\ \A u, a \in Users : e \notin Off(u, a) /\ (e \in On(u, a) <=> e.op = "follow" /\ e.actor = u /\ e.recipient = a)
      /\ \A p : e \in Upsert(p) <=> e.op = "upsert" /\ e.post = p
  BY <1>3, EventKinds
<1>6. WritesComplete' /\ \A d \in Consumers : work'[d].entries = {}
  BY <1>2, NobodyElse DEF FeedShape, TypeOK
<1>7. RowsAllowed'
  <2>1. feed \subseteq Users \X Posts /\ work[c].entries \subseteq Users \X Posts
    BY DEF FeedShape, TypeOK
  <2>2. \A row \in feed' : row[1] \in Users /\ Author[row[2]] \in Users
    BY <1>2, <2>1, AuthorAssumption
  <2>3. ASSUME NEW row \in feed' PROVE Allowed(row)'
    <3>1. Allowed(row)
      BY <1>2, <2>3 DEF RowsAllowed
    <3> QED
      BY <1>2, <1>4, <1>5, <2>2, <3>1 DEF Allowed
  <2> QED
    BY <1>6, <2>3 DEF RowsAllowed
<1>8. NothingMissing'
  <2>1. \A a \in Users : AlwaysRecent(a)' = AlwaysRecent(a)
    BY <1>2 DEF AlwaysRecent, PostsOf
  <2>2. ASSUME NEW u \in Users, NEW a \in Users, <<u, a>> \in follows, a \notin celebrity, NEW p \in AlwaysRecent(a)
        PROVE  <<u, p>> \in feed' \/ Coming(Upsert(p))' \/ Coming(On(u, a))'
    <3>1. <<u, p>> \in feed \/ Coming(Upsert(p)) \/ Coming(On(u, a))
      BY <2>2 DEF NothingMissing
    <3>2. CASE e.op = "upsert" /\ e.post = p
      <4>1. e.author = a
        <5>1. Author[p] = a
          BY <2>2 DEF AlwaysRecent, PostsOf
        <5>2. Genuine(e)
          BY <1>1, HandedEvent
        <5> QED
          BY <3>2, <5>1, <5>2 DEF Genuine
      <4>2. u \in Followers(a)
        BY <2>2 DEF Followers
      <4>3. <<u, p>> \in work[c].entries \/ Coming(On(u, a))
        BY <1>2, <1>3, <2>2, <3>2, <4>1, <4>2 DEF WritesComplete, FanOutComplete
      <4> QED
        BY <1>2, <1>4, <1>5, <3>2, <4>3
    <3>3. CASE e.op = "follow" /\ e.actor = u /\ e.recipient = a
      <4>1. <<u, p>> \in work[c].entries \/ Coming(Upsert(p))
        BY <1>2, <1>3, <2>2, <3>3 DEF WritesComplete, BackfillComplete
      <4> QED
        BY <1>2, <1>4, <1>5, <3>3, <4>1
    <3>4. CASE e \notin Upsert(p) /\ e \notin On(u, a)
      BY <1>2, <1>4, <3>1, <3>4
    <3> QED
      BY <1>5, <3>2, <3>3, <3>4
  <2> QED
    BY <1>2, <2>1, <2>2 DEF NothingMissing
<1> QED
  BY <1>6, <1>7, <1>8

-----------------------------------------------------------------------------
(* The author's own row: it is written with the fan-out, celebrity or not,  *)
(* and no unfollow prunes it.                                               *)
LEMMA OwnRowsStep ==
  ASSUME InOrder, IInv', OneRelay, OneConsumer, FeedShape, OwnRows, [Next]_vars, ~lost'
  PROVE  OwnRows'
<1>1. ASSUME \A S : Coming(S) => Coming(S)', \A p \in posts' : p \in posts \/ Coming(Upsert(p))',
             \A row \in feed : row \in feed' \/ row[2] \notin posts',
             \A c \in Consumers : work'[c] = work[c] \/ work'[c].step # "write"
      PROVE  OwnRows'
  <2>1. OwnRowsThere'
    BY <1>1 DEF OwnRows, OwnRowsThere
  <2>2. ASSUME NEW c \in Consumers, work'[c].step = "write"
        PROVE  OwnRowRead(c, EventOf(c))'
    <3>1. work'[c] = work[c] /\ work[c].step = "write" /\ work[c] # Nothing
      BY <1>1, <2>2 DEF Nothing
    <3>2. EventOf(c)' = EventOf(c)
      BY <3>1, EventStays
    <3> QED
      BY <3>1, <3>2 DEF OwnRows, OwnRowRead
  <2> QED
    BY <2>1, <2>2 DEF OwnRows
<1>2. CASE Domain /\ UNCHANGED <<groupVars, work, drops, lost>>
  <2>1. \A S : Coming(S) => Coming(S)'
    BY <1>2, DomainComing
  <2>2. ASSUME NEW p \in Posts, CreatePost(p) PROVE OwnRows'
    <3>1. posts' = posts \cup {p} /\ feed' = feed /\ Coming(Upsert(p))'
      BY <1>2, <2>2, DomainComing DEF CreatePost
    <3> QED
      BY <1>1, <1>2, <2>1, <3>1
  <2>3. ASSUME NEW p \in Posts, DeletePost(p) PROVE OwnRows'
    <3>1. posts' = posts \ {p} /\ feed' = {row \in feed : row[2] # p}
      BY <2>3 DEF DeletePost
    <3> QED
      BY <1>1, <1>2, <2>1, <3>1
  <2>4. ASSUME NEW u \in Users, NEW a \in Users, FollowUser(u, a) \/ UnfollowUser(u, a) PROVE OwnRows'
    <3>1. UNCHANGED <<posts, feed>>
      BY <2>4 DEF FollowUser, UnfollowUser
    <3> QED
      BY <1>1, <1>2, <2>1, <3>1
  <2> QED
    BY <1>2, <2>2, <2>3, <2>4 DEF Domain
<1>3. CASE (\E r \in Relays : RelayNext(r)) /\ UNCHANGED <<groupVars, domainVars, feed, work, drops, lost>>
  <2>1. \A S : Coming(S) => Coming(S)'
    BY <1>3, EventsRelayed
  <2> QED
    BY <1>1, <1>3, <2>1 DEF domainVars
<1>4. CASE Group
  <2>1. \A S : Coming(S) => Coming(S)'
    BY <1>4, EventsPolled DEF Group
  <2>2. \A c \in Consumers : work'[c] = work[c] \/ work'[c].step # "write"
    BY <1>4 DEF Group, Nothing
  <2> QED
    BY <1>1, <1>4, <2>1, <2>2 DEF Group, domainVars
<1>5. CASE UNCHANGED vars
  <2>1. \A S : Coming(S) => Coming(S)'
    BY <1>5 DEF vars, outboxVars, groupVars, Coming, Has, OnItsWay, Unsent, ToCome
  <2> QED
    BY <1>1, <1>5, <2>1 DEF vars, domainVars
<1>6. CASE Handlers
  <2>1. PICK c \in Consumers, t \in Topics : \E o \in batch[c][t] :
          \/ ReadCelebrity(c, t, o) \/ SkipCelebrity(c, t, o) \/ ReadForInsert(c, t, o)
          \/ InsertEntries(c, t, o) \/ PruneByFollowee(c, t, o) \/ DropRecord(c, t, o)
    BY <1>6 DEF Handlers
  <2>2. PICK o \in batch[c][t] :
          \/ ReadCelebrity(c, t, o) \/ SkipCelebrity(c, t, o) \/ ReadForInsert(c, t, o)
          \/ InsertEntries(c, t, o) \/ PruneByFollowee(c, t, o) \/ DropRecord(c, t, o)
    BY <2>1
  <2>3. PICK e : e = log[t][o].value
    OBVIOUS
  <2>4. Genuine(e) /\ e \in FeedEvents
    BY <2>3, HandedEvent
  <2>5. CASE ReadCelebrity(c, t, o)
    <3>1. UNCHANGED <<outboxVars, groupVars, domainVars, feed>>
      BY <2>5 DEF ReadCelebrity
    <3>2. \A S : Coming(S) => Coming(S)'
      BY <3>1 DEF outboxVars, groupVars, Coming, Has, OnItsWay, Unsent, ToCome
    <3>3. \A d \in Consumers : work'[d].step # "write"
      BY <2>5 DEF ReadCelebrity, OneConsumer, FeedShape, TypeOK
    <3> QED
      BY <1>1, <3>1, <3>2, <3>3 DEF domainVars
  <2>6. CASE ReadForInsert(c, t, o)
    <3>1. UNCHANGED <<outboxVars, groupVars, posts, feed>>
      BY <2>6 DEF ReadForInsert, domainVars
    <3>2. \A S : Coming(S) => Coming(S)'
      BY <3>1 DEF outboxVars, groupVars, Coming, Has, OnItsWay, Unsent, ToCome
    <3>3. OwnRowsThere'
      BY <3>1, <3>2 DEF OwnRows, OwnRowsThere
    <3>4. PICK entries \in (IF e.op = "upsert" THEN FanOut(e) ELSE Backfill(e)) :
            work' = [work EXCEPT ![c] = [step |-> "write", record |-> <<t, o>>, entries |-> entries]]
      BY <2>3, <2>6 DEF ReadForInsert
    <3>5. \A d \in Consumers : d = c /\ work'[d].record = <<t, o>> /\ work'[d].entries = entries
      BY <3>4 DEF OneConsumer, FeedShape, TypeOK
    <3>6. EventOf(c)' = e
      BY <2>3, <3>1, <3>5 DEF EventOf, outboxVars
    <3>7. e.op = "upsert" => <<Author[e.post], e.post>> \in entries
      <4>1. ASSUME e.op = "upsert" PROVE <<e.author, e.post>> \in entries
        BY <3>4, <4>1 DEF FanOut
      <4> QED
        BY <2>4, <4>1 DEF Genuine
    <3> QED
      BY <3>3, <3>5, <3>6, <3>7 DEF OwnRows, OwnRowRead
  <2>7. CASE SkipCelebrity(c, t, o) \/ InsertEntries(c, t, o) \/ PruneByFollowee(c, t, o)
    <3>1. HandleRecord(c, t, o) /\ UNCHANGED <<outboxVars, posts>> /\ work'[c] = Nothing
      BY <2>7 DEF SkipCelebrity, InsertEntries, PruneByFollowee, domainVars, FeedShape, TypeOK
    <3>2. \A d \in Consumers : work'[d].step # "write"
      BY <3>1 DEF OneConsumer, Nothing
    <3>3. \A S : e \notin S /\ Coming(S) => Coming(S)'
      BY <2>3, <3>1, EventHandled
    <3>4. e.op = "upsert" => InsertEntries(c, t, o)
      BY <2>3, <2>7 DEF SkipCelebrity, PruneByFollowee
    <3>5. ASSUME NEW p \in posts, e \in Upsert(p) PROVE <<Author[p], p>> \in feed'
      <4>1. e.op = "upsert" /\ e.post = p
        BY <2>4, <3>5, EventKinds
      <4>2. InsertEntries(c, t, o)
        BY <3>4, <4>1
      <4>3. work[c].step = "write" /\ EventOf(c) = e
        BY <2>3, <4>2 DEF InsertEntries, EventOf
      <4>4. <<Author[p], p>> \in work[c].entries
        BY <4>1, <4>3 DEF OwnRows, OwnRowRead
      <4>5. feed' = feed \cup work[c].entries
        BY <4>2 DEF InsertEntries
      <4> QED
        BY <4>4, <4>5
    <3>6. ASSUME NEW p \in posts, <<Author[p], p>> \in feed PROVE <<Author[p], p>> \in feed'
      <4>1. CASE PruneByFollowee(c, t, o)
        <5>1. feed' = IF e.op = "unfollow"
                      THEN {row \in feed : ~(row[1] = e.actor /\ Author[row[2]] = e.recipient)}
                      ELSE feed
          BY <2>3, <4>1 DEF PruneByFollowee
        <5>2. e.op = "unfollow" => e.actor # e.recipient
          BY <2>4 DEF Genuine
        <5> QED
          BY <3>6, <5>1, <5>2
      <4>2. CASE SkipCelebrity(c, t, o) \/ InsertEntries(c, t, o)
        BY <3>6, <4>2 DEF SkipCelebrity, InsertEntries
      <4> QED
        BY <2>7, <4>1, <4>2
    <3>7. OwnRowsThere'
      BY <3>1, <3>3, <3>5, <3>6 DEF OwnRows, OwnRowsThere
    <3> QED
      BY <3>2, <3>7 DEF OwnRows
  <2>8. CASE DropRecord(c, t, o)
    BY <2>8 DEF DropRecord
  <2> QED
    BY <2>2, <2>5, <2>6, <2>7, <2>8
<1> QED
  BY <1>2, <1>3, <1>4, <1>5, <1>6 DEF Next

-----------------------------------------------------------------------------
(* All steps together.                                                      *)
LEMMA FeedInOrderStep ==
  ASSUME InOrder, IInv', OneRelay, OneConsumer, FeedShape, Alternates, FeedInOrder, [Next]_vars
  PROVE  FeedInOrder'
<1>1. CASE lost
  <2>1. lost'
    <3>1. Handlers => lost' = lost \/ lost' = TRUE
      BY DEF Handlers, ReadCelebrity, SkipCelebrity, ReadForInsert, InsertEntries, PruneByFollowee, DropRecord
    <3>2. lost' = lost \/ lost' = TRUE
      BY <3>1 DEF Next, Group, vars
    <3> QED
      BY <1>1, <3>2
  <2> QED
    BY <2>1 DEF FeedInOrder
<1>2. CASE ~lost
  <2>0. ~lost' => OwnRows'
    BY <1>2, OwnRowsStep DEF FeedInOrder
  <2> SUFFICES ASSUME ~lost' PROVE RowsAllowed' /\ NothingMissing' /\ WritesComplete'
    BY <2>0 DEF FeedInOrder
  <2>1. RowsAllowed /\ NothingMissing /\ WritesComplete
    BY <1>2 DEF FeedInOrder
  <2>2. CASE Domain /\ UNCHANGED <<groupVars, work, drops, lost>>
    BY <2>1, <2>2, DomainInOrder
  <2>3. CASE (\E r \in Relays : RelayNext(r)) /\ UNCHANGED <<groupVars, domainVars, feed, work, drops, lost>>
    BY <2>1, <2>3, PipelineInOrder
  <2>4. CASE Group \/ UNCHANGED vars
    BY <2>1, <2>4, PipelineInOrder
  <2>5. CASE Handlers
    <3>1. PICK c \in Consumers, t \in Topics : \E o \in batch[c][t] :
            \/ ReadCelebrity(c, t, o) \/ SkipCelebrity(c, t, o) \/ ReadForInsert(c, t, o)
            \/ InsertEntries(c, t, o) \/ PruneByFollowee(c, t, o) \/ DropRecord(c, t, o)
      BY <2>5 DEF Handlers
    <3>2. PICK o \in batch[c][t] :
            \/ ReadCelebrity(c, t, o) \/ SkipCelebrity(c, t, o) \/ ReadForInsert(c, t, o)
            \/ InsertEntries(c, t, o) \/ PruneByFollowee(c, t, o) \/ DropRecord(c, t, o)
      BY <3>1
    <3>3. CASE ReadCelebrity(c, t, o)
      <4>1. UNCHANGED <<outboxVars, groupVars, domainVars, feed>>
        BY <3>3 DEF ReadCelebrity
      <4>2. \A S : Coming(S) => Coming(S)'
        BY <4>1 DEF outboxVars, groupVars, Coming, Has, OnItsWay, Unsent, ToCome
      <4>3. \A d \in Consumers : work'[d].step # "write" /\ work'[d].entries = {}
        BY <3>3 DEF ReadCelebrity, OneConsumer, FeedShape, TypeOK
      <4> QED
        BY <2>1, <4>1, <4>2, <4>3, OthersInOrder
    <3>4. CASE InsertEntries(c, t, o)
      <4>1. \A row \in work[c].entries : row[2] \in posts
        BY <3>4 DEF InsertEntries
      <4> QED
        BY <2>1, <3>4, <4>1, InsertInOrder
    <3>5. CASE DropRecord(c, t, o)
      BY <3>5 DEF DropRecord
    <3> QED
      BY <2>1, <3>2, <3>3, <3>4, <3>5, SkipInOrder, ReadInOrder, PruneInOrder
  <2> QED
    BY <2>2, <2>3, <2>4, <2>5 DEF Next
<1> QED
  BY <1>1, <1>2

(* At first there is nothing to be in order.                                *)
LEMMA FeedInitial == Init => FeedIInv
<1> SUFFICES ASSUME Init PROVE FeedIInv
  OBVIOUS
<1>1. PipelineInit
  BY DEF Init, PipelineInit
<1>2. InOrder
  BY <1>1, IInvInit, OrderInitial DEF InOrder
<1>3. /\ posts = {} /\ made = {} /\ follows = {} /\ celebrity = {} /\ feed = {}
      /\ work = [c \in Consumers |-> Nothing] /\ drops = 0 /\ lost = FALSE
      /\ \A id \in Ids : status[id] = "none"
  BY DEF Init, OutboxInit
<1>4. Nothing.step = "idle" /\ Nothing.entries = {}
  BY DEF Nothing
<1>5. TypeOK
  <2>1. Nothing \in [step : {"idle", "cleared", "write"}, record : {<<>>} \cup (Topics \X Nat),
                    entries : SUBSET (Users \X Posts)]
    BY DEF Nothing
  <2>2. work \in [Consumers -> [step : {"idle", "cleared", "write"}, record : {<<>>} \cup (Topics \X Nat),
                               entries : SUBSET (Users \X Posts)]]
    BY <1>3, <2>1
  <2>3. 0 \in 0..MaxDrops
    BY LimitsAssumption
  <2> QED
    BY <1>3, <2>2, <2>3 DEF TypeOK
<1>6. \A a \in Users : Followers(a) = {} /\ AlwaysRecent(a) = {}
  BY <1>3 DEF Followers, AlwaysRecent, PostsOf
<1>7. FeedShape
  <2>1. Cardinality({}) <= CelebThreshold
    BY FS_EmptySet, LimitsAssumption
  <2> QED
    BY <1>3, <1>5, <1>6, <2>1, FS_EmptySet DEF FeedShape
<1>8. Alternates
  BY <1>3 DEF Alternates, Superseded, Has
<1>9. FeedInOrder
  BY <1>3, <1>4 DEF FeedInOrder, RowsAllowed, NothingMissing, WritesComplete, OwnRows, OwnRowsThere
<1> QED
  BY <1>2, <1>7, <1>8, <1>9 DEF FeedIInv

(* Every step keeps the invariant.                                          *)
LEMMA FeedStep ==
  ASSUME OneRelay, OneConsumer, FeedIInv, IInv', [Next]_vars
  PROVE  FeedIInv'
<1>1. PipelineStep
  BY FeedStepsPipeline
<1>2. InOrder'
  BY <1>1, StaysInOrder DEF FeedIInv
<1> QED
  BY <1>2, ShapeStays, AlternatesStep, FeedInOrderStep DEF FeedIInv

(* In every order in which one relay and one consumer can bring the events  *)
(* of the two topics, and however often after a crash or a failed commit,   *)
(* the invariant holds.                                                     *)
THEOREM FeedInvariant ==
  ASSUME OneRelay, OneConsumer
  PROVE  Spec => []FeedIInv
<1>1. FeedIInv /\ IInv' /\ [Next]_vars => FeedIInv'
  BY FeedStep
<1> QED
  BY <1>1, FeedInitial, FeedUsesPipeline, PipelineInvariant, PTL DEF Spec

(* handleUnfollow and the fan-out leave nobody with posts of an author they *)
(* do not follow, and all is of its type.                                   *)
THEOREM FeedStaysSound ==
  ASSUME OneRelay, OneConsumer
  PROVE  Spec => []FeedInv
<1>1. FeedIInv => FeedInv
  <2> SUFFICES ASSUME FeedIInv PROVE FeedInv
    OBVIOUS
  <2>1. ASSUME Settled, ~lost, NEW row \in feed
        PROVE  row[1] = Author[row[2]] \/ <<row[1], Author[row[2]]>> \in follows
    BY <2>1, NothingComes DEF FeedIInv, FeedInOrder, RowsAllowed, Allowed
  <2> QED
    BY <2>1 DEF FeedInv, FeedIsSound, FeedIInv, FeedShape
<1> QED
  BY <1>1, FeedInvariant, PTL

(* Once everything is handled, a viewer is shown the recent posts of        *)
(* everybody they follow, but for posts of celebrities that are older than  *)
(* what is read live, and all of their own.                                 *)
THEOREM FeedLeavesNoGap ==
  ASSUME OneRelay, OneConsumer
  PROVE  Spec => []FeedIsComplete
<1>1. FeedIInv => FeedIsComplete
  <2> SUFFICES ASSUME FeedIInv, Settled, ~lost, NEW since \in Posts \cup {0}
               PROVE  /\ \A f \in follows : \A p \in AlwaysRecent(f[2]) :
                           p \in ListFeed(f[1], since) \/ OutlivedLiveRead(p, since)
                      /\ \A p \in posts : p \in ListFeed(Author[p], since)
    BY DEF FeedIsComplete
  <2>1. \A S : ~Coming(S)
    BY NothingComes DEF FeedIInv
  <2>2. ASSUME NEW f \in follows, NEW p \in AlwaysRecent(f[2])
        PROVE  p \in ListFeed(f[1], since) \/ OutlivedLiveRead(p, since)
    <3>1. f[1] \in Users /\ f[2] \in Users /\ f = <<f[1], f[2]>>
      BY DEF FeedIInv, FeedShape, TypeOK
    <3>2. p \in posts /\ Author[p] = f[2] /\ (p > since \/ p <= since)
      <4>1. p \in posts /\ Author[p] = f[2]
        BY DEF AlwaysRecent, PostsOf
      <4>2. p \in Nat /\ since \in Nat
        BY <4>1, PostsAssumption DEF FeedIInv, FeedShape, TypeOK
      <4> QED
        BY <4>1, <4>2
    <3>3. f[2] \notin celebrity => <<f[1], p>> \in feed
      BY <2>1, <3>1 DEF FeedIInv, FeedInOrder, NothingMissing
    <3> QED
      BY <3>1, <3>2, <3>3 DEF ListFeed, OutlivedLiveRead
  <2>3. ASSUME NEW p \in posts PROVE p \in ListFeed(Author[p], since)
    BY <2>1 DEF FeedIInv, FeedInOrder, OwnRows, OwnRowsThere, ListFeed
  <2> QED
    BY <2>2, <2>3
<1> QED
  BY <1>1, FeedInvariant, PTL
=============================================================================
