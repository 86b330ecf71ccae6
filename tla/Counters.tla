------------------------------ MODULE Counters ------------------------------
(***************************************************************************)
(* The counters that are stored beside what they count: users.post_count,  *)
(* posts.like_count and comment_count, hashtags.post_count and             *)
(* users.follower_count with its celebrity latch (internal/posts,          *)
(* internal/comments, internal/users, the reconciliation of                *)
(* cmd/api/jobs.go).                                                       *)
(*                                                                         *)
(* Transactions are modelled statement by statement, as PostgreSQL runs    *)
(* them at READ COMMITTED.  An UPDATE that waits for a row goes on from    *)
(* the row's latest version, so that count = count + 1 loses nothing; what *)
(* a subquery of it counts is what was committed when the statement began. *)
(*                                                                         *)
(* A mark is what one user leaves on a post: a like, which can be taken    *)
(* back and given again, or a comment.  The follows are those of one user, *)
(* whose row no other transaction of the model touches.                    *)
(***************************************************************************)
EXTENDS Integers, Sequences, FiniteSets

CONSTANTS
  Requests,             \* requests that can be served at the same time
  Users,
  Posts,
  Author,               \* Author[x]: who posts x
  Tags,
  TagsOf,               \* TagsOf[x]: the hashtags of x, in the order of the text
  Likes, Comments,      \* the marks that can be left
  On,                   \* On[m]: the post m is left on
  Followers,            \* who can follow the one user
  Threshold,            \* feed.CelebThreshold
  Nothing

Marks == Likes \cup Comments

ASSUME AuthorAssumption == Author \in [Posts -> Users]
ASSUME TagsAssumption == TagsOf \in [Posts -> Seq(Tags)] /\ "followers" \notin Tags
ASSUME MarksAssumption == Likes \cap Comments = {} /\ On \in [Marks -> Posts]
ASSUME ThresholdAssumption == Threshold \in Nat

VARIABLES
  posts, gone,          \* posts that exist, posts that were deleted
  postCount,            \* postCount[u]: users.post_count
  hashtags,             \* names in the hashtags table
  tagCount,             \* tagCount[t]: hashtags.post_count
  marks,                \* rows of likes and comments
  spent,                \* comments that have been written
  markCount,            \* markCount[x]: like_count and comment_count of post x
  follows,              \* who follows the one user
  followerCount, isCelebrity,
  reconciliation,       \* the count the running reconciliation found, or -1
  req,                  \* req[q]: the request q is serving, and how far it is
  misfits               \* history: hashtags whose last recount, and "followers" if its last
                        \* reconciliation, wrote another number than there were rows

postVars == <<posts, gone, postCount, hashtags, tagCount>>
markVars == <<marks, spent, markCount>>
followVars == <<follows, followerCount, isCelebrity>>
vars == <<postVars, markVars, followVars, reconciliation, req, misfits>>

Elements(seq) == {seq[i] : i \in 1..Len(seq)}
Most(a, b) == IF a > b THEN a ELSE b
HasTag(t) == {x \in posts : t \in Elements(TagsOf[x])}
Column(m) == IF m \in Likes THEN "likes" ELSE "comments"

(* on: the post, mark or follower; wrote: the hashtag rows written and not   *)
(* committed; seen: what a statement counted, or is to store.                *)
Idle == [op |-> "none", at |-> "start", on |-> Nothing, todo |-> << >>, seen |-> 0, wrote |-> << >>]

At(q, op, label) == req[q].op = op /\ req[q].at = label
Goto(q, label) == [req[q] EXCEPT !.at = label]
Became(q, r) == req' = [req EXCEPT ![q] = r]
Finish(q) == Became(q, Idle)
Others(q) == Requests \ {q}

(* Of the hashtag rows, q has now also written n to the one of t. *)
Write(r, t, n) ==
  [r EXCEPT !.wrote = [u \in DOMAIN r.wrote \cup {t} |-> IF u = t THEN n ELSE r.wrote[u]]]

(* Row locks: who holds a post's row, an author's, a mark's, a hashtag's and *)
(* the followed user's.                                                      *)
HoldsPost(p, x) ==
  \/ req[p].op = "delete" /\ req[p].on = x
  \/ req[p].op \in {"mark", "unmark"} /\ req[p].at = "commit" /\ On[req[p].on] = x
References(p, x) == req[p].op = "mark" /\ On[req[p].on] = x
HoldsAuthor(p, u) ==
  \/ req[p].op = "create" /\ Author[req[p].on] = u
  \/ req[p].op = "delete" /\ req[p].at \in {"tags", "commit"} /\ Author[req[p].on] = u
HoldsMark(p, m) ==
  \/ req[p].op \in {"mark", "unmark"} /\ req[p].on = m
  \/ req[p].op = "delete" /\ req[p].at # "cascade" /\ req[p].on = On[m]
HoldsTag(p, t) == t \in DOMAIN req[p].wrote
HoldsFollow(p, f) == req[p].op \in {"follow", "unfollow"} /\ req[p].on = f
HoldsFollowed(p) == req[p].op \in {"follow", "unfollow"} /\ req[p].at = "commit"

Init ==
  /\ posts = {} /\ gone = {} /\ postCount = [u \in Users |-> 0]
  /\ hashtags = {} /\ tagCount = [t \in Tags |-> 0]
  /\ marks = {} /\ spent = {} /\ markCount = [x \in Posts |-> [likes |-> 0, comments |-> 0]]
  /\ follows = {} /\ followerCount = 0 /\ isCelebrity = FALSE
  /\ reconciliation = -1
  /\ req = [q \in Requests |-> Idle]
  /\ misfits = {}

-----------------------------------------------------------------------------
(* CreatePost: INSERT the post, UPDATE users SET post_count; the author's    *)
(* row stays locked, so that an author's transactions follow each other.     *)
BeginPost(q, x) ==
  /\ req[q] = Idle
  /\ x \notin posts \cup gone
  /\ \A p \in Others(q) : ~HoldsAuthor(p, Author[x]) /\ req[p].on # x
  /\ Became(q, [Idle EXCEPT !.op = "create", !.on = x, !.todo = TagsOf[x],
                            !.at = IF TagsOf[x] = << >> THEN "commit" ELSE "insert"])
  /\ UNCHANGED <<postVars, markVars, followVars, reconciliation, misfits>>

(* For each tag: INSERT INTO hashtags ON CONFLICT DO NOTHING, which waits    *)
(* for a transaction that is inserting the same name, and INSERT INTO        *)
(* post_hashtags; ...                                                        *)
InsertTag(q) ==
  LET t == Head(req[q].todo)
  IN /\ At(q, "create", "insert")
     /\ t \in hashtags \/ \A p \in Others(q) : ~HoldsTag(p, t)
     /\ Became(q, IF t \in hashtags THEN Goto(q, "count")
                  ELSE Write(Goto(q, "count"), t, 0))
     /\ UNCHANGED <<postVars, markVars, followVars, reconciliation, misfits>>

(* ... UPDATE hashtags SET post_count = (SELECT count( * ) ...): the         *)
(* subquery sees what is committed now, and the post's own row; ...          *)
CountTag(q) ==
  /\ At(q, "create", "count")
  /\ Became(q, [Goto(q, "write") EXCEPT !.seen = Cardinality(HasTag(Head(req[q].todo))) + 1])
  /\ UNCHANGED <<postVars, markVars, followVars, reconciliation, misfits>>

(* ... and that is what it stores when it has the row's lock.                *)
WriteTag(q) ==
  LET t == Head(req[q].todo)
      rest == Tail(req[q].todo)
  IN /\ At(q, "create", "write")
     /\ \A p \in Others(q) : ~HoldsTag(p, t)
     /\ Became(q, Write([Goto(q, IF rest = << >> THEN "commit" ELSE "insert") EXCEPT
                           !.todo = rest, !.seen = 0], t, req[q].seen))
     /\ UNCHANGED <<postVars, markVars, followVars, reconciliation, misfits>>

Stored(wrote) == [t \in Tags |-> IF t \in DOMAIN wrote THEN wrote[t] ELSE tagCount[t]]

CommitPost(q) ==
  LET x == req[q].on
      wrote == req[q].wrote
  IN /\ At(q, "create", "commit")
     /\ posts' = posts \cup {x}
     /\ postCount' = [postCount EXCEPT ![Author[x]] = @ + 1]
     /\ hashtags' = hashtags \cup DOMAIN wrote
     /\ tagCount' = Stored(wrote)
     /\ misfits' = (misfits \ DOMAIN wrote) \cup {t \in DOMAIN wrote : wrote[t] # Cardinality(HasTag(t)) + 1}
     /\ Finish(q)
     /\ UNCHANGED <<gone, markVars, followVars, reconciliation>>

-----------------------------------------------------------------------------
(* DeletePost: SELECT ... FOR UPDATE, which waits for rows that refer to the *)
(* post as well; ...                                                         *)
LockPost(q, x) ==
  /\ req[q] = Idle
  /\ x \in posts
  /\ \A p \in Others(q) : ~HoldsPost(p, x) /\ ~References(p, x)
  /\ Became(q, [Idle EXCEPT !.op = "delete", !.on = x, !.at = "cascade"])
  /\ UNCHANGED <<postVars, markVars, followVars, reconciliation, misfits>>

(* Fault: the hashtags are looked up after the deletion, and there are none. *)
CascadeFirst(q) ==
  LET x == req[q].on
  IN /\ At(q, "delete", "cascade")
     /\ \A p \in Others(q), m \in Marks : On[m] = x => ~HoldsMark(p, m)
     /\ Became(q, Goto(q, "author"))
     /\ UNCHANGED <<postVars, markVars, followVars, reconciliation, misfits>>

(* ... the hashtags are looked up, and DELETE FROM posts, which cascades to  *)
(* the marks; ...                                                            *)
Cascade(q) ==
  LET x == req[q].on
  IN /\ At(q, "delete", "cascade")
     /\ \A p \in Others(q), m \in Marks : On[m] = x => ~HoldsMark(p, m)
     /\ Became(q, [Goto(q, "author") EXCEPT !.todo = TagsOf[x]])
     /\ UNCHANGED <<postVars, markVars, followVars, reconciliation, misfits>>

TagsLeft(q) == Elements(req[q].todo) \ DOMAIN req[q].wrote

(* Fault: the author's row is left for the end. *)
AuthorLast(q) ==
  /\ At(q, "delete", "author")
  /\ IF TagsLeft(q) # {}
     THEN \E t \in TagsLeft(q) :
            /\ \A p \in Others(q) : ~HoldsTag(p, t)
            /\ Became(q, Write(req[q], t, Most(tagCount[t] - 1, 0)))
     ELSE /\ \A p \in Others(q) : ~HoldsAuthor(p, Author[req[q].on])
          /\ Became(q, Goto(q, "commit"))
  /\ UNCHANGED <<postVars, markVars, followVars, reconciliation, misfits>>

(* ... UPDATE users SET post_count; ...                                      *)
UncountPost(q) ==
  /\ At(q, "delete", "author")
  /\ \A p \in Others(q) : ~HoldsAuthor(p, Author[req[q].on])
  /\ Became(q, Goto(q, IF TagsLeft(q) = {} THEN "commit" ELSE "tags"))
  /\ UNCHANGED <<postVars, markVars, followVars, reconciliation, misfits>>

(* ... and the hashtags, in the order the query returned them.               *)
UncountTag(q, t) ==
  /\ At(q, "delete", "tags")
  /\ t \in TagsLeft(q)
  /\ \A p \in Others(q) : ~HoldsTag(p, t)
  /\ Became(q, Write(Goto(q, IF TagsLeft(q) = {t} THEN "commit" ELSE "tags"),
                     t, Most(tagCount[t] - 1, 0)))
  /\ UNCHANGED <<postVars, markVars, followVars, reconciliation, misfits>>

CommitDelete(q) ==
  LET x == req[q].on
  IN /\ At(q, "delete", "commit")
     /\ posts' = posts \ {x}
     /\ gone' = gone \cup {x}
     /\ postCount' = [postCount EXCEPT ![Author[x]] = Most(@ - 1, 0)]
     /\ tagCount' = Stored(req[q].wrote)
     /\ marks' = {m \in marks : On[m] # x}
     /\ markCount' = [markCount EXCEPT ![x] = [likes |-> 0, comments |-> 0]]
     /\ Finish(q)
     /\ UNCHANGED <<hashtags, spent, followVars, reconciliation, misfits>>

-----------------------------------------------------------------------------
(* The row of a mark, whose foreign key holds on to the post: INSERT INTO    *)
(* likes ON CONFLICT DO NOTHING, INSERT INTO comments.  A like that is there *)
(* ends the request.                                                         *)
InsertMark(q, m) ==
  /\ req[q] = Idle
  /\ On[m] \in posts
  /\ m \notin marks
  /\ \A p \in Others(q) : ~HoldsMark(p, m) /\ ~(req[p].op = "delete" /\ req[p].on = On[m])
  /\ Became(q, [Idle EXCEPT !.op = "mark", !.on = m, !.at = "count"])
  /\ UNCHANGED <<postVars, markVars, followVars, reconciliation, misfits>>

(* DELETE FROM likes, comments: the post's row is not touched. *)
RemoveMark(q, m) ==
  /\ req[q] = Idle
  /\ m \in marks
  /\ \A p \in Others(q) : ~HoldsMark(p, m)
  /\ Became(q, [Idle EXCEPT !.op = "unmark", !.on = m, !.at = "count"])
  /\ UNCHANGED <<postVars, markVars, followVars, reconciliation, misfits>>

LikePost(q, m) == m \in Likes /\ InsertMark(q, m)
UnlikePost(q, m) == m \in Likes /\ RemoveMark(q, m)
CreateComment(q, m) == m \in Comments \ spent /\ InsertMark(q, m)
DeleteComment(q, m) == m \in Comments /\ RemoveMark(q, m)

(* What the column of the mark that r makes or takes back becomes. *)
Counted(r) ==
  LET old == markCount[On[r.on]][Column(r.on)]
  IN IF r.op = "mark" THEN old + 1 ELSE Most(old - 1, 0)

(* UPDATE posts SET like_count, comment_count *)
CountMark(q) ==
  /\ req[q].op \in {"mark", "unmark"} /\ req[q].at = "count"
  /\ \A p \in Others(q) : ~HoldsPost(p, On[req[q].on])
  /\ Became(q, [Goto(q, "commit") EXCEPT !.seen = Counted(req[q])])
  /\ UNCHANGED <<postVars, markVars, followVars, reconciliation, misfits>>

CommitMark(q) ==
  LET m == req[q].on
  IN /\ req[q].op \in {"mark", "unmark"} /\ req[q].at = "commit"
     /\ marks' = IF req[q].op = "mark" THEN marks \cup {m} ELSE marks \ {m}
     /\ spent' = IF m \in Comments THEN spent \cup {m} ELSE spent
     /\ markCount' = [markCount EXCEPT ![On[m]][Column(m)] = req[q].seen]
     /\ Finish(q)
     /\ UNCHANGED <<postVars, followVars, reconciliation, misfits>>

-----------------------------------------------------------------------------
(* FollowUser: INSERT INTO follows ON CONFLICT DO NOTHING *)
InsertFollow(q, f) ==
  /\ req[q] = Idle
  /\ f \notin follows
  /\ \A p \in Others(q) : ~HoldsFollow(p, f)
  /\ Became(q, [Idle EXCEPT !.op = "follow", !.on = f, !.at = "count"])
  /\ UNCHANGED <<postVars, markVars, followVars, reconciliation, misfits>>

(* UnfollowUser: DELETE FROM follows *)
RemoveFollow(q, f) ==
  /\ req[q] = Idle
  /\ f \in follows
  /\ \A p \in Others(q) : ~HoldsFollow(p, f)
  /\ Became(q, [Idle EXCEPT !.op = "unfollow", !.on = f, !.at = "count"])
  /\ UNCHANGED <<postVars, markVars, followVars, reconciliation, misfits>>

Recounted(r) == IF r.op = "follow" THEN followerCount + 1 ELSE Most(followerCount - 1, 0)

(* UPDATE users SET follower_count, is_celebrity: from the row's latest      *)
(* version, locked until the commit.                                         *)
CountFollow(q) ==
  /\ req[q].op \in {"follow", "unfollow"} /\ req[q].at = "count"
  /\ \A p \in Others(q) : ~HoldsFollowed(p)
  /\ Became(q, [Goto(q, "commit") EXCEPT !.seen = Recounted(req[q])])
  /\ UNCHANGED <<postVars, markVars, followVars, reconciliation, misfits>>

CommitFollow(q) ==
  LET f == req[q].on
  IN /\ req[q].op \in {"follow", "unfollow"} /\ req[q].at = "commit"
     /\ follows' = IF req[q].op = "follow" THEN follows \cup {f} ELSE follows \ {f}
     /\ followerCount' = req[q].seen
     /\ isCelebrity' = (isCelebrity \/ (req[q].op = "follow" /\ req[q].seen > Threshold))
     /\ Finish(q)
     /\ UNCHANGED <<postVars, markVars, reconciliation, misfits>>

(* reconcileFollowerCounts, under an advisory lock: the counts are those of  *)
(* the moment the UPDATE begins ...                                          *)
BeginReconciliation ==
  /\ reconciliation = -1
  /\ reconciliation' = Cardinality(follows)
  /\ UNCHANGED <<postVars, markVars, followVars, req, misfits>>

(* Fault: the latch is left to FollowUser. *)
WriteCountOnly ==
  /\ reconciliation >= 0
  /\ \A p \in Requests : ~HoldsFollowed(p)
  /\ followerCount' = reconciliation
  /\ misfits' = IF reconciliation = Cardinality(follows) THEN misfits \ {"followers"}
                ELSE misfits \cup {"followers"}
  /\ reconciliation' = -1
  /\ UNCHANGED <<postVars, markVars, follows, isCelebrity, req>>

(* ... and stored when it has come to the user's row and got its lock.       *)
WriteReconciled ==
  /\ reconciliation >= 0
  /\ \A p \in Requests : ~HoldsFollowed(p)
  /\ followerCount' = reconciliation
  /\ isCelebrity' = (isCelebrity \/ reconciliation > Threshold)
  /\ misfits' = IF reconciliation = Cardinality(follows) THEN misfits \ {"followers"}
                ELSE misfits \cup {"followers"}
  /\ reconciliation' = -1
  /\ UNCHANGED <<postVars, markVars, follows, req>>

-----------------------------------------------------------------------------
(* A statement fails: the transaction is rolled back. *)
Fail(q) ==
  /\ req[q] # Idle
  /\ Finish(q)
  /\ UNCHANGED <<postVars, markVars, followVars, reconciliation, misfits>>

(* q's next statement waits for a row that p has locked. *)
WaitsForTag(q, p) ==
  \/ At(q, "create", "insert") /\ Head(req[q].todo) \notin hashtags /\ HoldsTag(p, Head(req[q].todo))
  \/ At(q, "create", "write") /\ HoldsTag(p, Head(req[q].todo))
  \/ At(q, "delete", "tags") /\ \E t \in TagsLeft(q) : HoldsTag(p, t)
WaitsForAuthor(q, p) == At(q, "delete", "author") /\ HoldsAuthor(p, Author[req[q].on])
WaitsForMark(q, p) == At(q, "delete", "cascade") /\ \E m \in Marks : On[m] = req[q].on /\ HoldsMark(p, m)
WaitsForPost(q, p) ==
  req[q].op \in {"mark", "unmark"} /\ req[q].at = "count" /\ HoldsPost(p, On[req[q].on])
WaitsFor(q, p) == WaitsForTag(q, p) \/ WaitsForAuthor(q, p) \/ WaitsForMark(q, p) \/ WaitsForPost(q, p)

(* PostgreSQL undoes one of two transactions that wait for each other. *)
BreakDeadlock(q, p) ==
  /\ q # p
  /\ WaitsFor(q, p) /\ WaitsFor(p, q)
  /\ Finish(q)
  /\ UNCHANGED <<postVars, markVars, followVars, reconciliation, misfits>>

Serve(q) ==
  \/ InsertTag(q) \/ CountTag(q) \/ WriteTag(q) \/ CommitPost(q)
  \/ Cascade(q) \/ UncountPost(q) \/ (\E t \in Tags : UncountTag(q, t)) \/ CommitDelete(q)
  \/ CountMark(q) \/ CommitMark(q)
  \/ CountFollow(q) \/ CommitFollow(q)

Next ==
  \/ \E q \in Requests : Serve(q) \/ Fail(q)
  \/ \E q \in Requests, x \in Posts : BeginPost(q, x) \/ LockPost(q, x)
  \/ \E q \in Requests, m \in Marks :
       LikePost(q, m) \/ UnlikePost(q, m) \/ CreateComment(q, m) \/ DeleteComment(q, m)
  \/ \E q \in Requests, f \in Followers : InsertFollow(q, f) \/ RemoveFollow(q, f)
  \/ BeginReconciliation \/ WriteReconciled
  \/ \E q, p \in Requests : BreakDeadlock(q, p)

Spec == Init /\ [][Next]_vars

-----------------------------------------------------------------------------
TypeOK ==
  /\ posts \subseteq Posts /\ gone \subseteq Posts
  /\ postCount \in [Users -> Nat]
  /\ hashtags \subseteq Tags /\ tagCount \in [Tags -> Nat]
  /\ marks \subseteq Marks /\ spent \subseteq Comments
  /\ markCount \in [Posts -> [likes : Nat, comments : Nat]]
  /\ follows \subseteq Followers /\ followerCount \in Nat /\ isCelebrity \in BOOLEAN
  /\ reconciliation \in Nat \cup {-1}
  /\ DOMAIN req = Requests
  /\ misfits \subseteq Tags \cup {"followers"}

(* The counters that transactions move by one, under the lock of their row,  *)
(* agree with the rows at every moment, whoever likes, comments and deletes. *)
RowCountsExact ==
  /\ \A u \in Users : postCount[u] = Cardinality({x \in posts : Author[x] = u})
  /\ \A x \in Posts :
       /\ markCount[x].likes = Cardinality({m \in marks \cap Likes : On[m] = x})
       /\ markCount[x].comments = Cardinality({m \in marks \cap Comments : On[m] = x})

(* A hashtag's counter is wrong only after a CreatePost stored what it had   *)
(* counted before another transaction committed, and the next one that is    *)
(* not overtaken repairs it.                                                 *)
HashtagCountsExact == \A t \in Tags \ misfits : tagCount[t] = Cardinality(HasTag(t))

(* A follower count is wrong only after a reconciliation stored what it had  *)
(* counted before a follow or an unfollow committed, until the next one.     *)
FollowerCountExact == "followers" \notin misfits => followerCount = Cardinality(follows)

(* Types, and the three statements above of the counters in posts, comments, *)
(* users and hashtags: each is its number of rows, but for the two recounts. *)
CountersInv == TypeOK /\ RowCountsExact /\ HashtagCountsExact /\ FollowerCountExact

(* A count over the threshold latches, whoever wrote it. *)
CountLatches == followerCount > Threshold => isCelebrity

(* Two transactions wait for each other in two cases only: over hashtags     *)
(* that they take in different orders, and when a post is deleted while a    *)
(* mark is being taken off it.                                               *)
KnownDeadlocks ==
  \A q, p \in Requests :
    q # p /\ WaitsFor(q, p) /\ WaitsFor(p, q) =>
      \/ (WaitsForTag(q, p) /\ WaitsForTag(p, q))
      \/ {req[q].op, req[p].op} = {"delete", "unmark"}

(* "Atomically maintained by post creation/deletion": a hashtag's counter is *)
(* the number of its posts.                                                  *)
HashtagCountsMaintained == \A t \in Tags : tagCount[t] = Cardinality(HasTag(t))
=============================================================================
