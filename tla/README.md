# A verification of Phasma's backend in TLA+

Phasma is a photo-sharing service: a Go backend (`src/apps/backend`, two replicas), a SvelteKit
frontend in front of it, PostgreSQL, an S3-compatible blob store, a Kafka-compatible broker, a search
engine and a cache. This directory models the parts of it in which several processes touch the same
state, checks them with TLC on small instances, and proves with TLAPS, for instances of any size, every safety
property that TLC checks: of the event pipeline and its two consumers (notifications and feed), uploads and media,
counters, sessions, the login with its circuit breaker and rate limiter, the pipeline monitor, and the searches and lists.

Run a check with `tlc -config EventPipelineSafety.cfg MCEventPipeline.tla` (module and configuration
of each run are in `PROJECT.json`), the proofs of a component with `tlapm`, as in `tlapm EventPipelineProofs.tla`.

## 1. The system

| Component | Code | State | Operations | Talks to |
|---|---|---|---|---|
| Outbox, relay, sweep | `cmd/api/outbox_relay.go`, `cmd/api/jobs.go` | table `outbox` | insert with a domain transaction; once a second: lock a batch, produce, mark; hourly sweep | every domain transaction (shared table), broker (messages) |
| Consumer loop | `notifications/consumer.go`, `feed/consumer.go` | polled batch, group offsets at the broker | poll, handle record by record, commit | broker |
| Notifications | `internal/notifications` | table `notifications` | create, delete by entity, delete by actor, mark read, list | events of likes, comments, follows, deleted posts |
| Feed | `internal/feed` | table `feed` | fan out a post, backfill on follow, prune on unfollow, list | events of posts and follows; reads `follows`, `users`, `posts` |
| Uploads | `internal/uploads` | table `uploads`, blobs | CreateFile | posts and users consume its rows |
| Posts, likes | `internal/posts` | `posts`, `likes`, `hashtags`, counters | create, delete, like, unlike, lists | uploads, users.avatar, outbox, blobs |
| Comments | `internal/comments` | `comments`, counter | create, delete, list | outbox |
| Users | `internal/users` | `users`, `follows`, counters | register, profile, password, follow, connections | uploads, posts, sessions, outbox, blobs |
| Sessions | `internal/sessions` | `sessions`, failure counters in the cache | login, refresh, revoke, sweep | users |
| Resilience | `internal/resilience`, `store/database` | circuit breaker per process | allow, success, failure, retry | every repository |
| Pipeline monitor | `internal/pipeline` | last progress and errors per pipeline | start, progress, error, stop, check | relay, consumers, readiness probe |
| Rate limiter | `internal/httpx/ratelimit.go` | token buckets in the cache | allow | every request |
| Search | `internal/search` | recent searches; the index is external | blended search, record, delete | search engine |
| Pages and lists | `internal/pagination`, `apps/frontend/src/lib/createPagination.svelte.ts` | cursor and items in the browser | load, load more, reset | every list of the backend |

What makes it hard. Two replicas run everything at once: requests, relays and consumers. PostgreSQL
runs at READ COMMITTED, so statements of one transaction see different states, and correctness hangs
on row locks. The broker delivers at least once: relays roll back after producing, consumers die
between handling and committing, topics change owner. Consumers swallow the errors of their handlers.
The blob store takes part in no transaction. The cache and the database fail in the middle of a login.
Lists are paged while their rows come and go. `PROJECT.json` lists these hazards line by line, with
the properties that cover each.

What makes each component correct:

* pipeline: no committed event is lost; duplicates come only from failures; offsets never pass an
  unhandled record; every event is eventually handled;
* notifications: the table settles on what the domain tables say, whatever was delivered twice; read
  stays read;
* feed: followers see what they follow, through fan-out, backfill or live read, and not what they left;
* media: an upload is consumed once; a blob outlives every row that needs it and goes when none does;
* sessions: at most 100 per user; a change of password ends the others and is final;
* counters: counts agree with the rows they count;
* breaker, limits: a failing database is left alone and asked again, a bucket admits no more than its
  rate and keeps its Retry-After, failed logins are counted and lockouts end;
* monitor: a pipeline that is lost is reported, a replica recovers;
* pages: no item of a list is skipped or shown twice, and every list has an end.

## 2. Modules

```
AtLeastOnce                    the promise of the pipeline
   ^ implemented by
EventPipeline  = Outbox + ConsumerGroup                    <- MCEventPipeline, EventPipelineProofs
Notifications  = ConsumerGroup (with Outbox) + transactions + handlers      <- MCNotifications, NotificationsProofs
Feed           = ConsumerGroup (with Outbox) + transactions + handlers      <- MCFeed, FeedProofs
Media          (stand-alone)                                                <- MCMedia, MediaProofs
Counters       (stand-alone)                                 <- MCCounters, CountersProofs
Sessions       (stand-alone)                                 <- MCSessions, SessionsProofs
LoginGate      = TokenBucket + Breaker + throttle            <- MCLoginGate, ResilienceProofs
Monitor        (stand-alone)                                 <- ResilienceProofs
Search         = ListPages (SearchPages, KeysetPages, Cursors) + RecentSearches
                                                             <- MCSearch, SearchProofs
```

**Outbox** (`outbox_relay.go`, `jobs.go`). `status[id]` is the life of a row: `none`, `pending`
(committed, `published_at` null), `published`, `swept`. `relay[r]` is the open transaction of a relay:
the rows it has locked and those the broker has taken. `log[t]` is the broker's topic. One action per
step of `relayOutboxBatch`, because other relays, commits and the sweep run between them:
`SelectUnpublished`, `ProduceRecord`, `MarkPublished`, `AbortBatch`. Ids become visible in any order
(`InsertEvent`), as a sequence allows. A produce request that is under way when its relay gives up has
either reached the log before or is lost; that it lands later still is left out.

**ConsumerGroup** (`Consumer.Run`, the same code in two packages). `PollFetches`, `HandleRecord`,
`CommitOffsets` are the loop; `CommitFails` its logged error, which the next poll, idle or not, makes
good; `Assign` and `Crash` what the broker and the deployment do to it. A consumer whose topic was taken
away goes on with what it has polled, which is how the loop behaves. Only the owner's commit counts. The
client library also commits, in the background, offsets of polls before the current one; those records
are handled, so this moves an offset only where `CommitOffsets` had tried to move it, and is left out. A
handler's error or panic counts as handled, as in `handleRecordSafely`.

**EventPipeline** puts the two together, states their properties and the refinement: a row that is
not `none` is accepted, a key in the log is recorded, a published or swept row is forgotten, a handled
offset is delivered.

**Notifications** adds the domain transactions whose events the consumer handles. Each is one step:
two that concern the same like, follow or post are serialised by row locks held to the commit, and
insert the outbox row, which draws its id, only when they hold the lock (`CreatePost` writes the hashtags and their
events after it, under the same lock). The handlers are functions of the table. One failing handler is `drops`.

**Feed** does the same for posts and follows, but its handlers take two or three steps: they read
followers, or `is_celebrity` and then recent posts, and insert later, in one statement that a missing
post fails as a whole. `Limited` is SQL's LIMIT without an order. `is_celebrity` latches at the
follower that exceeds the threshold. `ListFeed(u, since)` reads the feed table as it is, and live - the viewer's own posts
and those of celebrities they follow - only the posts after `since`: ids grow with time, and `since` is the last post
that is older than 90 days when the feed is read. The cursors of `ListFeed` are left out.

**Media** models requests statement by statement with row locks: a `DELETE` locks what it deletes, `SELECT
... FOR UPDATE` returns rows of its start, an `UPDATE ... WHERE` passes over a locked row that does
not match, a foreign key waits for `FOR UPDATE` on the referenced row. `doomed` are blobs a request
will delete after its transaction. `Fail`, `Die` and `BreakDeadlock` end transactions at any point.
Three history variables (`deleted`, `undone`, `abandoned`) name the exceptions exactly.

**Counters** (`posts/database.go`, `comments/database.go`, `users/database.go`, `jobs.go`) models the
transactions that keep a number beside what it counts, in the same way. `req[q]` is the open transaction;
locks are predicates on it (`HoldsPost`, `HoldsAuthor`, `HoldsMark`, `HoldsTag`, `HoldsFollowed`), what it has
written shows at its commit. An UPDATE that waits continues from the row's latest version (`CountMark`,
`CountFollow` read at the lock), but a subquery in it counts in the snapshot of the statement (`CountTag`
before the wait, `WriteTag` after it; `BeginReconciliation`, `WriteReconciled`). `misfits` is history: which
recounts stored something else than there was. A like and a comment are both a `mark`.

**Sessions** (`sessions/database.go`, `service.go`, `handler.go`, `users/database.go:ChangePassword`,
`httpx/middleware.go`) has the sessions of one user. A login reads the hash, verifies it, possibly upgrades
it (`UpgradeHash`, outside any transaction), and in `LockUser`, `InsertAndTrim`, `CommitSession` runs the
transaction of `CreateSession`; a change of password is `ReadHash`, `VerifyCurrent`, `UpdatePassword`,
`DeleteOthers`, `CommitChange`. Use, logout, revocation and sweep are one statement each. Expiry is a number of
ticks left, stamped only in the inner half of the window as `RefreshSession` does.

**TokenBucket** (`ratelimit.go`) is `tokenBucketLua` for one key with the arithmetic of the script: whole tokens
only, the fraction lost, the clock stamped by the replica and therefore up to `MaxDelay` late, the key's
expiry. `credit` is history: an ideal meter in ticks.

**Breaker** (`resilience/breaker.go`, `retry.go`, `store/database/database.go`) has one action per critical section
of the breaker's mutex: `Begin` (Allow), `Answered`, `Refused`, `Failed`, `Retry`. Calls overlap freely, so that one let
through long ago reports to a circuit that was opened and half opened since.

**LoginGate** composes the two with the throttle of failed logins: `PassLimit`, `CheckThrottle`, `CallDatabase`,
`EndFind`, `Verify`, `RecordFailure`, `EndUpgrade`, `EndCreate`, `ClearThrottle`. All three database calls go through the
breaker; that of a hash upgrade (`EndUpgrade`) may fail or be turned away, and the login goes on. A cache call may fail with or without effect; the
throttle then lets pass, the limiter refuses (`FailOpen` is a constant).

**Monitor** (`pipeline/monitor.go`, and the loops that report to it) has the relay and the consumers as loops that
take time, fail, panic, hang and end; `Check` is the readiness probe's.

**Search**. **SearchPages** holds the pure operators of `GET /search`: the shares of a page (`Targets`), what is taken of
each type (`Consumed`, `HasMore`), followed users first (`Arranged`), the pattern of `interleaveBlended` (a page fills the
slots of the pattern that offer something, `Slot` and `Filled`, in order: `Blend`), and the two kinds of page (`Blended`,
`Single`). **KeysetPages** holds a table whose rows are inserted with the time their transaction began and appear when it
commits, and `KeysetPage`, the query by `(created, id)` with one row beyond the limit. **ListPages** is the client that shows
either: `Navigate` resets the list, `More` asks for a page, `Answer` is the server reading it, `Loaded` appends whatever comes when it
comes, `LoadFails` keeps the cursor. Resets and changes of the table fall between the three, so that a page can be appended
that is older than the list it is appended to. `overtaken` is history: the list has received a page that another list, or
another cursor of this one, had asked for. `stayed` is history, too: the rows that have been there ever since the oldest of
the pages shown was read (a request carries its own, `load.stayed`, from `Answer` on). **RecentSearches** is the transaction of
`RecordRecentSearch` with its lock, upsert and trim, and the two deletions. Its clock gives every transaction a time of its
own; two `now()` can be equal, and the trim then goes by id, which leaves as many rows. **Search** runs them side by side, as the search
page does when it submits a search and records it without waiting.

## 3. Runs

| Run | Instance | What it shows |
|---|---|---|
| `pipeline_safety` | 2 topics, 2 relays, 2 consumers, 2 events, 1 roll-back, 2 mishaps | `NoEventLost`, `DuplicatesArePaid`, `CommittedMeansHandled`, `ReplayOnlyAfterMishap`, the inductive invariant `IInv`, and that the pipeline refines `AtLeastOnce` (`KeepsPromise`) |
| `pipeline_liveness` | 1 topic, same faults once each, no symmetry | `EventuallyHandled`, `EventuallyPublished` under `FairSpec` |
| `notifications_converge` | 1 relay, 1 consumer, 2 users, 1 post, 1 comment, any 3 transactions, 1 fault | `NotificationsInv` (a row only for what an event asked for), `Converged`, `ReadStaysRead` |
| `media_safety` | 1 user, 2 concurrent requests, 3 file names, limit 1, faults anywhere, deadlock checked | `ConsumedOnce`, `BlobsKept` (posts and avatars keep their blobs), `NoOrphanBlobs`, `PendingNearLimit` |
| `feed_converge` | 1 author, 2 users, 2 posts, threshold 1, backfill 1, any 4 transactions, 1 fault | `FeedIsComplete` (whenever the feed is read, early or late), `FeedInv` (nobody keeps posts of an author they left) |
| `sessions_safety` | 2 requests, 3 session ids, limit 2, 2 passwords, lifetimes of 4 ticks | `SessionsInv` (bounded), `TrimmedAreOldest`, `OtherSessionsEnd`, `UsedStaysLive`, `OnlyUpgradeUndoesChange` |
| `sessions_upgrade` | 2 requests, 1 session | violation: `LatestChangeStands` |
| `counters_exact` | 2 requests, 2 authors, 3 posts, 2 hashtags in opposite orders, 2 likes, 1 comment, 2 followers, reconciliation; deadlock checked | `CountersInv` (exact counts, and when the recounts are not), `CountLatches`, `KnownDeadlocks` |
| `counters_hashtag` | the same without marks and follows | violation: `HashtagCountsMaintained` |
| `login_gate` | 2 logins at once, burst 2, one token in 2 ticks, calls 1 tick late, circuit threshold 2, 1 cache failure | `GateInv` (guesses bounded, lockouts end), `AdmittedWithinRate`, `RetryAfterSuffices`, `CircuitTellsFailures`, `OnlyAnsweredCount`, `LeavesDatabaseAlone` |
| `monitor_readiness` | relay and 1 consumer, staleness 5, error window 2, timeouts 1 and 2 ticks, under `FairSpec` | `MonitorInv`, `LostPipelineShows`, `RecoversReady`, `BrokenBrokerShows` |
| `search` | 2 blended searches, 1 post search, 1 table of 3 rows with 2 times and pages of 1; 3 recordings, limit 2 | `PagesInv`, `RowsAreInOrder`, `NothingLeftOut`, `PagesAdvance`, `RecentBounded` |

### Bounds

`MaxId` bounds the events of a run, `MaxAborts` and `MaxMishaps` its failures, `MaxDrops` its failing handlers,
`MaxSubmits` the recorded searches, `MaxTime` the times at which rows begin; they are guards in the actions. Two events
are enough for the pipeline, whose events meet only pairwise: in one batch, in two relays' batches, in one topic or in
two. Two relays and two consumers are the deployed replicas. Three and four transactions let an entity be made, removed
and made again around another event. The consumers' convergence runs spend one fault of any kind (`OneFault`), since a
fault leaves no trace but the replay it causes. In Media three files make an upload expire, another be pending and a
third be counted, and two requests interleave every pair of the four operations. `FollowTheStar` restricts follows to the
one author of the run: follows of people who post nothing concern no row of the feed.

Two requests meet in every pair of operations of Sessions, Counters and LoginGate; their invariants speak of pairs, and
what a third transaction could add is covered by the proofs about Sessions, Counters, Breaker and TokenBucket, which
hold for any number. Three ids exceed a limit of two sessions, three posts let a third recount an overtaken hashtag, two
followers exceed a threshold of one. In LoginGate the bucket refills while requests are late, and the counters
expire (`Window` 2) between a failure and the next. In Monitor each time-out is shorter than the windows it is
compared with, as in the code (`FetchTimeout` and `ErrorWindow` are both 30 s there, `StaleAfter` 120 s). In `search`
the blended limits of 6, 2 and 3 hit each branch of `Targets`, and the hits are short of each type in turn. Ties in time
between three rows need two times only. A behaviour shows either searches or a table, as one page of the frontend does:
`Submit` moves between searches, and the table changes only while it is listed.

Where symmetry is used, the sets are interchangeable in the specification and the run has no liveness property.
Deadlock checking is off where bounded runs end, on in Media, Counters, Monitor and Search, where something can always
go on.

Every property is known to be breakable: `PROJECT.json` names for each a plausible fault of the code
(definitions marked `Fault:` in the modules) under which TLC finds it violated.

### Fairness

`EventPipeline!FairSpec` assumes weak fairness only for steps the code keeps trying: the relay's ticker
(`SelectUnpublished`, then produce and mark, whose time-outs make them end), the assignment of a topic
that nobody owns (the broker's business), and the consumer loop, which never stops polling, handling or
committing. No failure is fair, and failures are finite (`MaxAborts`, `MaxMishaps`); under endless
failures nothing is promised.

`Monitor!FairSpec` assumes that time passes (`SF(TimePasses)`; a tick waits for the steps that have a deadline), that the
goroutine of a consumer starts, and weak fairness for a loop's step while the code limits it (`Limited`: a poll, a produce
or a commit has a time-out; a statement has none of its own and ends only while the database is up). Outages and panics
are not fair.

### What the violations mean

* `sessions_upgrade`: a login with a weak hash reads and verifies it, a change of password commits, and the login writes
  the upgraded *old* hash. The new password does not work, the old one does. `OnlyUpgradeUndoesChange` shows this is the
  only way, and it can happen only to the hash the user started with.
* `counters_hashtag`: `UPDATE hashtags SET post_count = (SELECT count(*) ...)` counts in the snapshot of the
  statement's start. If it then waits for the row, it stores a count that misses the other transaction's post (or
  counts one it deleted). `CountersInv` shows that nothing else makes the count wrong and that the next undisturbed
  recount repairs it.

### Deviations seen while modelling

These are behaviours of the code that the properties are stated around; each is named in a comment or a history variable.

* *Replay of a like after the unlike.* A relay that rolls back after producing a like, while the other has already
  published the unlike, publishes the like again after it. `ON CONFLICT (external_id)` does not help, since the row was
  deleted; the notification stays. With one relay (`notifications_converge`) copies repeat in order and the table settles.
* *Avatar of a deleted post.* `UpdateUser` locks the user's row, sees the post and sets its file as the avatar while
  `DeletePost` looks for avatars to clear; the row does not match yet, so the `UPDATE` does not wait for it.
* *The cap on uploads.* `FOR UPDATE` locks the rows that are counted, not the ones about to be inserted;
  `PendingNearLimit` bounds the damage by the number of racing requests.
* *Blobs of an undone upload.* A `CreateFile` that is rolled back still has the blobs of the expired rows deleted,
  and `CreatePost` accepts such a row. The variable `undone` names these files.
* *Unfollow during a fan-out.* Fan-out reads followers and inserts in two steps; the other replica's consumer can prune
  in between. With one consumer (`feed_converge`) this cannot happen.
* *A late page.* A page that was requested before the list was reset (another query, or a reload) is appended to the
  new list, and its cursor replaces the new one (`overtaken`). If the list was loaded again and has come to the same
  cursor, the page continues it, but as the table was when the server read it: a row that committed after that, with a time
  between the cursor and the page, was there when the list was loaded again and is still not shown. `RowsAreInOrder`
  promises the rows that were there since the oldest page was read (`stayed`).
* *Old posts of a celebrity.* `docs/business-rules.md:104` says that celebrity posts and the viewer's own are merged into the
  feed at query time; the query does so for 90 days (`feed/database.go:59`). A celebrity's post that was never fanned out
  disappears from their followers' feeds after that, and who follows after the latch is not backfilled and never sees the
  older ones, even if they are among the last 50. `FeedIsComplete` names this exception (`OutlivedLiveRead`) and
  shows that it is the only one; own posts are not concerned, since the author's row is always written.
* *A blended search with `limit=1`* and no posts returns an empty page whose cursor is the one it was asked with, for
  ever; `PagesAdvance` excludes that limit. The frontend asks for posts only, with 5 and 20.
* *Rows that appear late.* A row whose transaction began before a page was read can appear above the cursor later and
  is not shown: only rows that were there all the time are promised. A like taken back and given again has a new time and
  the same post; if the page has shown the post before, it may be shown again under its new key.
* *Late stamps.* Calls to the limiter carry the replica's clock; each late call can give back the ticks it was late.
  `AdmittedWithinRate` grants exactly that.
* *Retry-After* is rounded to seconds and is 0 for a policy of more than two tokens a second (the typeahead's 5/s); the
  theorem asks for a rounded wait of at least one period.
* *The limiter's key* is the client's address throughout; `docs/security.md:84` speaks of users.
* *Transient failures* of the breaker include a client that went away and a deadlock victim, so clients
  can open the circuit; the model leaves how a call ends open.
* *A commit of offsets that fails for ever* is followed by a clean poll each time, whose progress resets the
  error window; `UnreadyForAReason` and `BrokenBrokerShows` speak of what is shown. A relay whose rows are locked by another
  replica looks idle. An error of a handler's statement is only logged and its offset committed.

## 4. Proofs

All proofs are for every value of the constants that satisfies the named assumptions of the modules.

**EventPipelineProofs**: `PipelineTypeOK`, `PipelineInvariant` (`IInv`), `PublishedIsRecorded` (`NoEventLost`),
`CommitNeverSkips` (`CommittedMeansHandled`), `PipelineKeepsPromise` (the refinement of `AtLeastOnce`).
Neither safety property is inductive. `MarkPublished` keeps `NoEventLost` because what a relay has sent is in the log
(`SentRecorded`), and the log only grows. `LocksHeld` and `RowsHeld` keep a locked row pending and its event in place,
so that what is produced is of the type of an event. `CommitOffsets` keeps `CommittedMeansHandled` because the owner of
a topic has in its batch all that was polled and is not handled (`OwnerHoldsRest`), and commits with an empty
batch; `Assign` restores that by starting at the committed offset, `Crash` by leaving the topic without an owner, and
`PollEmptyHanded` makes sure a poll does not overwrite records still to be handled. The proof follows the split of the
state: `TableStep` (outbox and relays), `BrokerStep` (the log grows), `HandlingOutbox` and `HandlingGroup` (offsets),
joined in `IInvStep`. The refinement maps each action on the step of `AtLeastOnce` it is (`InsertRefines`,
`ProduceRefines`, `MarkRefines`, `HandleRefines`); all others stutter.
`RelaysAddNoCopies` (`DuplicatesArePaid`) counts copies: a record that is there more than once was produced again only after
a roll-back, because while a row is pending its copies are paid by its holder's production and the roll-backs before
(`CopiesPaid`), and what a relay has sent it holds (`SentIsHeld`). `NoReplayWithoutMishap` (`ReplayOnlyAfterMishap`) is
about the group alone: until the first mishap a topic keeps its one owner, who polls onwards and holds nothing that is
handled (`HandledBehind`).

The module also has what its clients need where one relay writes the log and one consumer handles it
(`OneRelay`, `OneConsumer`: hypotheses of the theorems that use it), and rows become visible in the order of their ids
(`InsertNext`: Feed and Notifications take each transaction as one step, see section 2). `OrderInv`: an event that was inserted later
is not yet sent, or its record follows every record of an earlier one of its topic, copies included (`LaterFollow`).
`HandsInOrder`: with one consumer, all that follows the record at hand is in its hands too or not polled. So an event is
*coming* (`Coming`) until it is handled, for the first time or again; when one is handled, those of its topic that were
inserted later are still to come (`LaterAreComing`); and when everything is settled nothing is coming (`NothingComes`). In
these terms `EventInserted`, `EventsRelayed`, `EventsPolled` and `EventHandled` say what each step does to sets of events:
which are on their way, which are superseded by later ones of another set, which are separated by them (`StaysInOrder`).

**FeedProofs**, for one relay and one consumer: `FeedUsesPipeline` (every step of Feed is one of the pipeline, so that its
theorems hold there), `FeedInvariant`, `FeedStaysSound` (`FeedInv`), `FeedLeavesNoGap` (`FeedIsComplete`). Both properties speak
of settled states only, and say nothing of the way there. The invariant (`FeedIInv`) does: the last event of a follower and
a followee says what they are to each other now (`Alternates`); a row of the feed is its author's own, a follower's, or an
unfollow is coming to prune it (`RowsAllowed`, also of the rows a handler has read and not written); a recent post of a
followee who is no celebrity is there, or its upsert or the follow is coming (`NothingMissing`); the author's own row is
there, or the upsert is coming that writes it (`OwnRows`), for no unfollow prunes it, as nobody follows themselves; and a handler between its
reads and its insert misses only what another event will bring (`WritesComplete`): a follower its fan-out did not see
has a follow to come, a post its backfill did not see has an upsert to come. A celebrity's posts are read live, and the
latch (`FeedShape`) makes sure that who is not one has at most `CelebThreshold` followers, so that the LIMIT of the fan-out
cuts nobody off. Live they are read for 90 days, which the theorem says for every `since`: a recent post of a followee is
shown, or it is a celebrity's and older than that. With two relays or two consumers an event can be handled after a later one that undoes it (see the
deviations), so that the hypotheses are needed. The sweep is no action of Feed and Notifications: it deletes rows that have
been in the log for days, and `PublishedIsRecorded` shows that nothing is lost by it.

**ResilienceProofs**, the login: first the parts. *Breaker* (`BreakerInvariant`, `CircuitTells`, `DatabaseIsLeftAlone`): its
count is the number of failures since the last success, up to the threshold, and while the circuit is not closed `openedAt`
is the time of the last failure; a call is let through to a database that keeps failing only when the cooldown has passed
since then. *TokenBucket* (`BucketInvariant`, `RateIsKept`, `RetryAfterIsEnough`): the invariant compares the credit of the
ideal meter with what the bucket holds or can refill to (`Potential`), and a key that has expired with the time a full refill
takes; the prover needs the products of tokens and periods spelled out (`Division`, `Products`). Then the composition:
`UsesBreaker` and `UsesBucket` show that each step of a login is a step of the component or leaves it alone, so that the
component's theorems hold of the composition (`LoginCircuit`, `LoginRate`) without being proved again. `LockoutsEnd` (the
life of a counter is set at its first failure and never extended) and `OutagesLockNobodyOut` are proved of the composition
itself, and so is `GateHolds` (`GateInv`), whose bound counts logins in flight. The throttle is read long before it is
written, so that `guesses[k]` may pass `Limit[k] - 1`; `GuessInv` says by how much. A guess is in the counter, or its request
has yet to count it (`Uncounted`), or it was lost to a mishap; and the guesses and the logins that were let through but have
not guessed yet (`Passed`) are together within the bound. A login that is let through has seen a counter below the limit, so
the guesses it finds are below the limit but for mishaps and the uncounted of others, who are not among the passed.

**SessionsProofs**: `SessionsInvariant`, `ChangeEndsOtherSessions` (`OtherSessionsEnd`), `OnlyFirstPasswordReturns`
(`OnlyUpgradeUndoesChange`), `SessionsAreBounded` (`SessionsInv`). The invariant says that the user's row has one holder
(`OneHolder`), so that nothing is inserted between the DELETE of a change and its COMMIT, and that the id of a session to
be inserted was in no table before. For the bound, a login that is about to commit dooms enough rows
(`TrimMakesRoom`): rows not doomed have fewer than `MaxSessions - 1` newer ones, and `FewAreNewest` counts them
by an injection of the rows kept into `0..limit-1`. `OldestArePushedOut` (`TrimmedAreOldest`) adds that a live row that is
doomed has `MaxSessions - 1` newer logins (`NewerAreFew`), stays live or dies but is not revived before the commit
(`DoomedStayDead`: it is locked), and that the commit adds the one that is missing. `UsedSessionsStayLive`
(`UsedStaysLive`): the time left and the time since the last use are half a window together at least (`UsedInv`).

**SearchProofs**: `RecentInvariant`, `HistoryIsBounded` (`RecentBounded`), `NoRowIsSkipped` (`RowsAreInOrder`). One recording
writes at a time, the times of rows and of transactions differ, and what the trim of a recording leaves is few
(`FewAreLatest`); deletions beside it only take rows away. For the lists by cursor, ORDER BY is first shown to enumerate a
finite set: the number of newer rows is an injection of the set into its positions, hence onto them (`RanksDescend`,
`NewestSorts`). So a page continues below its cursor (`KeysetPageContinues`): its last row is the next cursor, and what it
leaves is below that. The invariant (`ListIInv`) says that the list descends to the cursor and that every row that stayed is
shown or below the cursor (`Begins`); rows that come, go or commit late change neither (`TableChangesKeep`). A page that has
been read and not yet arrived holds, of the rows that have been there since, those below the cursor it was asked for, or
leaves them below its own (`HoldsRows`, part of `Request`): true when it is read (`AnswerHolds`), and whatever the list does
meanwhile. So the list may be reset while the page is under way: if it is at that cursor when the page arrives, the two fit
together for the rows both have seen (`NextPageBegins`); otherwise the list is marked as overtaken (`LoadedKeeps`). Rows are assumed finite, and the absent
cursor no row's.

For the lists of searches, `PagesAreBeginnings` (`PagesInv`), `NothingIsLeftOut` (`NothingLeftOut`),
`PagesMoveOn` (`PagesAdvance`). A page is not followed hit by hit but by the set it shows: `Shows(s, S)` says that the
sequence `s` lists each member of the set `S` once. Numbers in order show a set (`AscendingShows`), and so do two sequences
that show disjoint sets, joined (`JoinedShow`); that covers followed users first (`ArrangedShows`). The slots of the pattern
and the hits they offer determine each other (`Slots`), so that the slots that are filled show each hit once, though users,
posts and hashtags run out at different places (`FilledSlots`, `BlendShows`). So a page shows exactly the hits between its
cursor and another, the next one if there is more and else the end (`Takes`; `BlendedTakes`, `SingleTakes`), and the
invariant (`PagesIInv`) says that the list shows the hits up to the cursor, and a page under way those behind it
(`HoldsItems`, `AnswerHoldsItems`). That a page which made up for a short type
continues where it should is `ConsumedIsFetched`: nothing is consumed that was not fetched, and if no type came back in full,
all that was fetched is consumed. A blended page moves on, unless its limit is one, because users and posts then have a share
(`TargetsAreShares`). The absent cursor is assumed to be no count of hits.

**CountersProofs**: `CountersInvariant`, `CountsAreExact` (`CountersInv`), `LatchHolds` (`CountLatches`),
`DeadlocksAreKnown` (`KnownDeadlocks`), for any number of concurrent transactions. The counts are exact only because of
what transactions under way hold, so the invariant (`CountersIInv`) speaks of these. A post to be deleted is there, and the
hashtag counters it has taken one off are still what they were (`DeleteOK`); a mark to be made is not there and one to be
taken back is, and the number its UPDATE found holds until the commit (`MarkOK`, `FollowOK`). `Apart` says what the row
locks keep apart: two transactions write no hashtag, post, mark or follow in common, two that have counted a mark
work on different posts, and a post whose deletion has passed the cascade has no mark under way. The steps before a commit only
move a request (`RequestMoves`); a commit ends one (`RequestEnds`) and adds or takes away one row of what is counted
(`RowAdded`, `RowRemoved`). The deadlocks are read off the invariant: a transaction that others wait for has passed the
statements in which it could wait for them. Cycles of three or more are not spoken of; the model ends them with `Fail`.

**MediaProofs**: `MediaInvariant`, `UploadsConsumedOnce` (`ConsumedOnce`), `BlobsAreKept` (`BlobsKept`), `UselessBlobsGo`
(`NoOrphanBlobs`), `PendingStaysNearLimit` (`PendingNearLimit`), for any number of users, files and concurrent requests. None
of these is inductive: a blob is deleted after the transaction that made it useless has ended, on the word of what the request
has read. So the invariant (`MediaIInv`) says what each request knows while it holds its rows (`RequestOK`): CreateFile, that
its name is its own and the rows it has deleted were pending and expired; CreatePost and UpdateProfile, that they hold the upload
they consume; UpdateProfile also that the avatar it replaces is still the user's; DeletePost, that the profiles it has locked
are those that show the post. `LocksApart` and `OwnNames` keep that knowledge valid while others run, `Disposable` says what
a request may still delete when it holds nothing any more, and stays true of a file once it is (`StaysDisposable`);
`UselessIsSwept` is the converse, that what is of no use is on its way out. Most steps change one request and no table
(`QuietKeeps`); those that commit, roll back or die are treated one by one. The bound on pending uploads is about counting
without a lock: `FewBehind` says, for each `m` from the limit to the number of pending uploads, that the requests which know
of fewer than `m` of them and the uploads beyond `m` are together fewer than the requests. An insertion adds one upload and
takes its own request, which knew of fewer than the limit, out of every such set; a request that begins to count
knows all. Finite sets of requests are assumed (`RequestsAssumption`).

**ResilienceProofs**, the probe: `LostPipelinesShow` (`LostPipelineShows`), `UnreadyReplicasHaveAReason` (`MonitorInv`). The
properties compare what Check answers with clocks of the model that the code does not have; the invariant (`Faithful`) says
that the monitor's own times agree with them in every step of the loops, hanging and failing ones included, and that an error
that is still remembered came after the last good round.

**NotificationsProofs**: `NotificationsComeFromEvents` (`NotificationsInv`) and `WhatIsReadStaysRead` (`ReadStaysRead`), for any
number of relays and consumers. Rows stand for events because handlers are given records of the log, which are rows of the
outbox with their key and topic (`LogOK`, `OutboxOK`), at offsets that were polled (`GroupOK`), whatever is repeated after a
crash or a reassignment. What a handler can do to the table is computed once (`HandleOutcome`): rows go, or one is added for
the record at hand unless its event has one already.
For one relay and one consumer, `NotificationsUsePipeline` and `NotificationsConverge` (`Converged`). A notification is named by
its recipient, actor, type and entity. Each transaction's one event asks for it, takes it back or does not concern it
(`Tells`, transaction by transaction), so that in the log the two alternate (`Alternates`: between two that ask there is
one that takes back, and the last one says what stands). What is wanted is there, or its event is coming (`NoneMissing`);
all that takes back a row that is there is still to come (`NoneStale`), so that in a settled state no row is stale. That
there is one row for each, and not one for each event, follows from the separation: of two events that ask, the second
is handled after the one between them has deleted the row of the first.

Only model-checked: liveness (`EventuallyPublished`, `EventuallyHandled`, `RecoversReady`, `BrokenBrokerShows`), which is outside
the reach of the prover. That what TLC calls settled is reached at all is part of that: the convergence theorems speak
of settled states, and `EventuallyHandled` of the pipeline getting there.

## 5. Not modelled

* *Search index synchronisation* (`deploy/broker.yaml`): a configuration of third-party software.
* *Blob store, cache and search clients*: pure I/O. The blob store is a set of names in Media, the cache counters and a
  bucket in LoginGate.
* *Validation, encodings, hashing, image processing, logging, error replies, routing, rendering*: no state that
  interleaves. The base64 of a cursor is left out, too.
* *Registration and the edit of name, e-mail and bio*: single statements under unique constraints. Suggestions, trending
  and typeahead only read.
* *The cursor of the feed*, which pages over a union of the `feed` table and the posts of celebrities.
* *Optimistic updates of the frontend*: a flag disables the button until the answer is there.

## 6. What could come next

1. The feed's cursor, over the union of its two sources.
2. Media with three concurrent requests and two users as a run of its own: it passes, but takes longer than the others
   together.
