--------------------------- MODULE CountersProofs ---------------------------
(***************************************************************************)
(* Proofs about Counters, for any number of requests, users, posts, tags,  *)
(* marks and followers: what is counted is exact, up to the two recounts,  *)
(* the latch holds, and the deadlocks are the two known ones.              *)
(***************************************************************************)
EXTENDS Counters, FiniteSetTheorems, TLAPS

Names(x) == Elements(TagsOf[x])
Written == UNION {[S -> Nat] : S \in SUBSET Tags}
Request ==
  [op : {"none", "create", "delete", "mark", "unmark", "follow", "unfollow"},
   at : {"start", "insert", "count", "write", "cascade", "author", "tags", "commit"},
   on : Posts \cup Marks \cup Followers \cup {Nothing},
   todo : Seq(Tags), seen : Nat, wrote : Written]

Marking(r) == r.op \in {"mark", "unmark"}
Following(r) == r.op \in {"follow", "unfollow"}

(* A post that is being created is in no table; of its tags the transaction *)
(* has written some and has the others yet to do.                           *)
CreateOK(r) ==
  r.op = "create" =>
    /\ r.on \in Posts \ (posts \cup gone)
    /\ r.at \in {"insert", "count", "write", "commit"}
    /\ DOMAIN r.wrote \cup Elements(r.todo) = Names(r.on)
    /\ r.at = "commit" <=> r.todo = << >>

(* A post that is being deleted is there; the counters that were written    *)
(* are still what they were.                                                *)
DeleteOK(r) ==
  r.op = "delete" =>
    /\ r.on \in posts
    /\ r.at \in {"cascade", "author", "tags", "commit"}
    /\ r.at \in {"cascade", "author"} => DOMAIN r.wrote = {}
    /\ r.at # "cascade" => r.todo = TagsOf[r.on]
    /\ r.at = "commit" => Names(r.on) \subseteq DOMAIN r.wrote
    /\ DOMAIN r.wrote \subseteq Names(r.on)
    /\ \A t \in DOMAIN r.wrote : r.wrote[t] = Most(tagCount[t] - 1, 0)

(* A mark that is being made is not there, one that is taken back is; what  *)
(* was counted holds until the commit.  The same of follows.                *)
MarkOK(r) ==
  Marking(r) =>
    /\ r.on \in Marks /\ (r.op = "mark" <=> r.on \notin marks)
    /\ r.at = "commit" => r.seen = Counted(r)
FollowOK(r) ==
  Following(r) =>
    /\ r.on \in Followers /\ (r.op = "follow" <=> r.on \notin follows)
    /\ r.at = "commit" => r.seen = Recounted(r)

RequestOK(r) ==
  /\ r \in Request
  /\ r.op \notin {"create", "delete"} => DOMAIN r.wrote = {}
  /\ CreateOK(r) /\ DeleteOK(r) /\ MarkOK(r) /\ FollowOK(r)

(* What the row locks keep apart.                                           *)
Apart(r, s) ==
  /\ DOMAIN r.wrote \cap DOMAIN s.wrote = {}
  /\ r.op = s.op /\ r.op \in {"create", "delete"} => r.on # s.on
  /\ Marking(r) /\ Marking(s) =>
       r.on # s.on /\ (r.at = "commit" /\ s.at = "commit" => On[r.on] # On[s.on])
  /\ Following(r) /\ Following(s) => r.on # s.on /\ ~(r.at = "commit" /\ s.at = "commit")
  /\ r.op = "delete" /\ Marking(s) /\ On[s.on] = r.on =>
       s.op = "unmark" /\ s.at # "commit" /\ r.at = "cascade"
  /\ s.op = "delete" /\ Marking(r) /\ On[r.on] = s.on =>
       r.op = "unmark" /\ r.at # "commit" /\ s.at = "cascade"

RequestsInv ==
  /\ DOMAIN req = Requests
  /\ \A q \in Requests : RequestOK(req[q])
  /\ \A q \in Requests : \A p \in Others(q) : Apart(req[q], req[p])

PostsInv ==
  /\ posts \subseteq Posts /\ IsFiniteSet(posts) /\ gone \subseteq Posts
  /\ hashtags \subseteq Tags /\ misfits \subseteq Tags \cup {"followers"}
  /\ postCount \in [Users -> Nat] /\ tagCount \in [Tags -> Nat]
  /\ \A u \in Users : postCount[u] = Cardinality({x \in posts : Author[x] = u})
  /\ HashtagCountsExact

MarksInv ==
  /\ marks \subseteq Marks /\ IsFiniteSet(marks) /\ spent \subseteq Comments
  /\ markCount \in [Posts -> [likes : Nat, comments : Nat]]
  /\ \A x \in Posts :
       /\ markCount[x].likes = Cardinality({m \in marks \cap Likes : On[m] = x})
       /\ markCount[x].comments = Cardinality({m \in marks \cap Comments : On[m] = x})

FollowsInv ==
  /\ follows \subseteq Followers /\ IsFiniteSet(follows)
  /\ followerCount \in Nat /\ isCelebrity \in BOOLEAN /\ reconciliation \in Nat \cup {-1}
  /\ FollowerCountExact /\ CountLatches

CountersIInv == RequestsInv /\ PostsInv /\ MarksInv /\ FollowsInv

-----------------------------------------------------------------------------
(* Tags that are written, one after the other, are written tags.            *)
LEMMA WrittenGrows ==
  ASSUME NEW w \in Written, NEW t \in Tags, NEW n \in Nat
  PROVE  /\ [u \in DOMAIN w \cup {t} |-> IF u = t THEN n ELSE w[u]] \in Written
         /\ DOMAIN w \subseteq Tags /\ \A u \in DOMAIN w : w[u] \in Nat
  <1>1. PICK S \in SUBSET Tags : w \in [S -> Nat]
    BY DEF Written
  <1>2. DOMAIN w = S
    BY <1>1
  <1>3. [u \in S \cup {t} |-> IF u = t THEN n ELSE w[u]] \in [S \cup {t} -> Nat]
    BY <1>1
  <1>4. S \cup {t} \in SUBSET Tags
    OBVIOUS
  <1> QED
    BY <1>1, <1>2, <1>3, <1>4 DEF Written

(* No request is one that has written nothing.                              *)
LEMMA IdleIsOK == RequestOK(Idle) /\ \A r \in Request : Apart(Idle, r) /\ Apart(r, Idle)
  <1>1. << >> \in Seq(Tags)
    OBVIOUS
  <1>2. << >> \in [{} -> Nat] /\ DOMAIN << >> = {}
    OBVIOUS
  <1>3. << >> \in Written
    BY <1>2 DEF Written
  <1>4. Idle \in Request
    BY <1>1, <1>3 DEF Idle, Request
  <1>5. Idle.op = "none" /\ DOMAIN Idle.wrote = {}
    BY <1>2 DEF Idle
  <1> QED
    BY <1>4, <1>5 DEF RequestOK, CreateOK, DeleteOK, MarkOK, FollowOK, Apart, Marking, Following

(* What is said of a request depends only on the tables it works on.        *)
LEMMA PostWorkStays ==
  ASSUME NEW r, UNCHANGED <<posts, gone, tagCount>>, CreateOK(r), DeleteOK(r)
  PROVE  CreateOK(r)' /\ DeleteOK(r)'
  BY DEF CreateOK, DeleteOK

(* The same for likes and comments.                                         *)
LEMMA MarkWorkStays ==
  ASSUME NEW r, UNCHANGED <<marks, markCount>>, MarkOK(r)
  PROVE  MarkOK(r)'
  BY DEF MarkOK, Counted

(* The same for follows.                                                    *)
LEMMA FollowWorkStays ==
  ASSUME NEW r, UNCHANGED <<follows, followerCount>>, FollowOK(r)
  PROVE  FollowOK(r)'
  BY DEF FollowOK, Recounted

(* The tables being left alone, all that matters of a step of a request is  *)
(* what it has become.                                                      *)
LEMMA RequestMoves ==
  ASSUME CountersIInv, NEW q \in Requests, NEW r, Became(q, r), RequestOK(r),
         \A p \in Others(q) : Apart(r, req[p]),
         UNCHANGED <<postVars, markVars, followVars, reconciliation, misfits>>
  PROVE  CountersIInv'
  <1>1. DOMAIN req' = Requests /\ \A p \in Requests : req'[p] = IF p = q THEN r ELSE req[p]
    BY DEF CountersIInv, RequestsInv, Became
  <1>2. \A p \in Requests : RequestOK(req[p])'
    <2> SUFFICES ASSUME NEW p \in Requests PROVE RequestOK(req[p])'
      OBVIOUS
    <2>1. RequestOK(req'[p])
      BY <1>1 DEF CountersIInv, RequestsInv
    <2>2. \A s : RequestOK(s) => RequestOK(s)'
      BY PostWorkStays, MarkWorkStays, FollowWorkStays DEF RequestOK, postVars, markVars, followVars
    <2> QED
      BY <2>1, <2>2 DEF RequestOK
  <1>3. \A p \in Requests : \A o \in Others(p) : Apart(req[p], req[o])'
    <2> SUFFICES ASSUME NEW p \in Requests, NEW o \in Others(p) PROVE Apart(req'[p], req'[o])
      BY DEF Apart, Marking, Following, Others
    <2>1. \A s, t : Apart(s, t) => Apart(t, s)
      BY DEF Apart
    <2> QED
      BY <1>1, <2>1 DEF Others, CountersIInv, RequestsInv
  <1>4. PostsInv' /\ MarksInv' /\ FollowsInv'
    BY DEF CountersIInv, PostsInv, MarksInv, FollowsInv, HashtagCountsExact, HasTag,
           FollowerCountExact, CountLatches, postVars, markVars, followVars
  <1> QED
    BY <1>1, <1>2, <1>3, <1>4 DEF CountersIInv, RequestsInv

-----------------------------------------------------------------------------
(* Elements of sequences, as far as the steps take them apart.              *)
LEMMA TakeFirst ==
  ASSUME NEW s \in Seq(Tags), s # << >>
  PROVE  /\ Head(s) \in Tags /\ Tail(s) \in Seq(Tags)
         /\ Elements(s) = {Head(s)} \cup Elements(Tail(s))
         /\ Elements(s) \subseteq Tags
  <1>1. Len(s) \in Nat \ {0} /\ \A i \in 1..Len(s) : s[i] \in Tags
    OBVIOUS
  <1>2. Head(s) = s[1] /\ Tail(s) \in Seq(Tags) /\ Len(Tail(s)) = Len(s) - 1
    BY <1>1
  <1>3. \A i \in 1..Len(Tail(s)) : Tail(s)[i] = s[i + 1]
    BY <1>1, <1>2
  <1>4. Elements(s) \subseteq {Head(s)} \cup Elements(Tail(s))
    <2> SUFFICES ASSUME NEW i \in 1..Len(s), i # 1 PROVE s[i] \in Elements(Tail(s))
      BY <1>2 DEF Elements
    <2>1. i - 1 \in 1..Len(Tail(s)) /\ Tail(s)[i - 1] = s[i]
      BY <1>1, <1>2, <1>3
    <2> QED
      BY <2>1 DEF Elements
  <1>5. Elements(Tail(s)) \subseteq Elements(s)
    <2> SUFFICES ASSUME NEW i \in 1..Len(Tail(s)) PROVE Tail(s)[i] \in Elements(s)
      BY DEF Elements
    <2>1. i + 1 \in 1..Len(s) /\ Tail(s)[i] = s[i + 1]
      BY <1>1, <1>2, <1>3
    <2> QED
      BY <2>1 DEF Elements
  <1>6. Head(s) \in Elements(s) /\ Elements(s) \subseteq Tags
    BY <1>1, <1>2 DEF Elements
  <1> QED
    BY <1>1, <1>2, <1>4, <1>5, <1>6

(* The steps of a CreatePost before its COMMIT.                             *)
LEMMA CreateStep ==
  ASSUME CountersIInv, NEW q \in Requests
  PROVE  /\ (\E x \in Posts : BeginPost(q, x)) => CountersIInv'
         /\ InsertTag(q) => CountersIInv'
         /\ CountTag(q) => CountersIInv'
         /\ WriteTag(q) => CountersIInv'
  <1> DEFINE r == req[q]
  <1>0. RequestOK(r) /\ \A p \in Others(q) : RequestOK(req[p]) /\ Apart(r, req[p])
    BY DEF CountersIInv, RequestsInv, Others
  <1>1. ASSUME NEW x \in Posts, BeginPost(q, x) PROVE CountersIInv'
    <2> DEFINE n == [Idle EXCEPT !.op = "create", !.on = x, !.todo = TagsOf[x],
                                 !.at = IF TagsOf[x] = << >> THEN "commit" ELSE "insert"]
    <2>1. Idle \in Request /\ DOMAIN Idle.wrote = {}
      BY IdleIsOK DEF RequestOK, Idle
    <2>2. TagsOf[x] \in Seq(Tags)
      BY TagsAssumption
    <2>3. n \in Request /\ n.op = "create" /\ n.on = x /\ n.todo = TagsOf[x] /\ DOMAIN n.wrote = {}
          /\ n.at \in {"insert", "commit"} /\ (n.at = "commit" <=> TagsOf[x] = << >>)
      BY <2>1, <2>2 DEF Request
    <2>4. x \notin posts \cup gone /\ \A p \in Others(q) : req[p].on # x
      BY <1>1 DEF BeginPost
    <2> HIDE DEF n
    <2>5. RequestOK(n)
      BY <2>3, <2>4 DEF RequestOK, CreateOK, DeleteOK, MarkOK, FollowOK, Marking, Following, Names
    <2>6. \A p \in Others(q) : Apart(n, req[p])
      BY <2>3, <2>4, <1>0 DEF Apart, Marking, Following, RequestOK, DeleteOK
    <2> QED
      BY <1>1, <2>5, <2>6, RequestMoves DEF BeginPost, n
  <1>2. ASSUME InsertTag(q) PROVE CountersIInv'
    <2> DEFINE t == Head(r.todo)
    <2> DEFINE g == Goto(q, "count")
    <2> DEFINE n == IF t \in hashtags THEN g ELSE Write(g, t, 0)
    <2>1. r \in Request /\ r.op = "create" /\ r.at = "insert" /\ r.todo # << >>
      BY <1>0, <1>2 DEF InsertTag, At, RequestOK, CreateOK
    <2>2. t \in Tags /\ t \in Elements(r.todo)
      BY <2>1, TakeFirst DEF Request
    <2>3. g \in Request /\ g.op = "create" /\ g.at = "count" /\ g.on = r.on /\ g.todo = r.todo
          /\ g.wrote = r.wrote
      BY <2>1 DEF Goto, Request
    <2> HIDE DEF g
    <2>4. /\ n \in Request /\ n.op = "create" /\ n.at = "count" /\ n.on = r.on /\ n.todo = r.todo
          /\ DOMAIN n.wrote \subseteq DOMAIN r.wrote \cup {t}
          /\ DOMAIN r.wrote \subseteq DOMAIN n.wrote
          /\ t \in hashtags => DOMAIN n.wrote = DOMAIN r.wrote
      BY <2>2, <2>3, WrittenGrows DEF Write, Request
    <2>5. \A p \in Others(q) : t \in hashtags \/ t \notin DOMAIN req[p].wrote
      BY <1>2 DEF InsertTag, HoldsTag
    <2>6. Became(q, n) /\ UNCHANGED <<postVars, markVars, followVars, reconciliation, misfits>>
      BY <1>2 DEF InsertTag, g
    <2> HIDE DEF n
    <2>7. RequestOK(n)
      BY <1>0, <2>1, <2>2, <2>4 DEF RequestOK, CreateOK, DeleteOK, MarkOK, FollowOK, Marking, Following
    <2>8. \A p \in Others(q) : Apart(n, req[p])
      BY <1>0, <2>1, <2>4, <2>5 DEF Apart, Marking, Following
    <2> QED
      BY <2>6, <2>7, <2>8, RequestMoves
  <1>3. ASSUME CountTag(q) PROVE CountersIInv'
    <2> DEFINE c == Cardinality(HasTag(Head(r.todo))) + 1
    <2> DEFINE n == [Goto(q, "write") EXCEPT !.seen = c]
    <2>1. r \in Request /\ r.op = "create" /\ r.at = "count" /\ r.todo # << >>
      BY <1>0, <1>3 DEF CountTag, At, RequestOK, CreateOK
    <2>2. c \in Nat
      BY FS_Subset, FS_CardinalityType DEF HasTag, CountersIInv, PostsInv
    <2> HIDE DEF c
    <2>3. n \in Request /\ n.op = "create" /\ n.at = "write" /\ n.on = r.on /\ n.todo = r.todo
          /\ n.wrote = r.wrote
      BY <2>1, <2>2 DEF Goto, Request
    <2>4. Became(q, n) /\ UNCHANGED <<postVars, markVars, followVars, reconciliation, misfits>>
      BY <1>3 DEF CountTag, c
    <2> HIDE DEF n
    <2>5. RequestOK(n)
      BY <1>0, <2>1, <2>3 DEF RequestOK, CreateOK, DeleteOK, MarkOK, FollowOK, Marking, Following
    <2>6. \A p \in Others(q) : Apart(n, req[p])
      BY <1>0, <2>1, <2>3 DEF Apart, Marking, Following
    <2> QED
      BY <2>4, <2>5, <2>6, RequestMoves
  <1>4. ASSUME WriteTag(q) PROVE CountersIInv'
    <2> DEFINE t == Head(r.todo)
    <2> DEFINE rest == Tail(r.todo)
    <2> DEFINE g == [Goto(q, IF rest = << >> THEN "commit" ELSE "insert") EXCEPT !.todo = rest, !.seen = 0]
    <2> DEFINE n == Write(g, t, r.seen)
    <2>1. r \in Request /\ r.op = "create" /\ r.at = "write" /\ r.todo # << >>
      BY <1>0, <1>4 DEF WriteTag, At, RequestOK, CreateOK
    <2>2. t \in Tags /\ rest \in Seq(Tags) /\ Elements(r.todo) = {t} \cup Elements(rest)
      BY <2>1, TakeFirst DEF Request
    <2> HIDE DEF t, rest
    <2>3. g \in Request /\ g.op = "create" /\ g.at \in {"commit", "insert"} /\ g.on = r.on /\ g.todo = rest
          /\ g.wrote = r.wrote /\ (g.at = "commit" <=> rest = << >>)
      BY <2>1, <2>2 DEF Goto, Request
    <2> HIDE DEF g
    <2>4. n \in Request /\ n.op = "create" /\ n.at = g.at /\ n.on = r.on /\ n.todo = rest
          /\ DOMAIN n.wrote = DOMAIN r.wrote \cup {t}
      BY <2>1, <2>2, <2>3, WrittenGrows DEF Write, Request
    <2>5. \A p \in Others(q) : t \notin DOMAIN req[p].wrote
      BY <1>4 DEF WriteTag, HoldsTag, t
    <2>6. Became(q, n) /\ UNCHANGED <<postVars, markVars, followVars, reconciliation, misfits>>
      BY <1>4 DEF WriteTag, g, t, rest
    <2> HIDE DEF n
    <2>7. RequestOK(n)
      BY <1>0, <2>1, <2>2, <2>3, <2>4
         DEF RequestOK, CreateOK, DeleteOK, MarkOK, FollowOK, Marking, Following
    <2>8. \A p \in Others(q) : Apart(n, req[p])
      BY <1>0, <2>1, <2>4, <2>5 DEF Apart, Marking, Following
    <2> QED
      BY <2>6, <2>7, <2>8, RequestMoves
  <1> QED
    BY <1>1, <1>2, <1>3, <1>4

(* The steps of a DeletePost before its COMMIT.                             *)
LEMMA DeleteStep ==
  ASSUME CountersIInv, NEW q \in Requests
  PROVE  /\ (\E x \in Posts : LockPost(q, x)) => CountersIInv'
         /\ Cascade(q) => CountersIInv'
         /\ UncountPost(q) => CountersIInv'
         /\ (\E t \in Tags : UncountTag(q, t)) => CountersIInv'
  <1> DEFINE r == req[q]
  <1>0. RequestOK(r) /\ \A p \in Others(q) : RequestOK(req[p]) /\ Apart(r, req[p])
    BY DEF CountersIInv, RequestsInv, Others
  <1>1. ASSUME NEW x \in Posts, LockPost(q, x) PROVE CountersIInv'
    <2> DEFINE n == [Idle EXCEPT !.op = "delete", !.on = x, !.at = "cascade"]
    <2>1. Idle \in Request /\ DOMAIN Idle.wrote = {}
      BY IdleIsOK DEF RequestOK, Idle
    <2>2. n \in Request /\ n.op = "delete" /\ n.at = "cascade" /\ n.on = x /\ DOMAIN n.wrote = {}
      BY <2>1 DEF Request
    <2>3. /\ x \in posts
          /\ \A p \in Others(q) : ~HoldsPost(p, x) /\ ~References(p, x)
          /\ Became(q, n) /\ UNCHANGED <<postVars, markVars, followVars, reconciliation, misfits>>
      BY <1>1 DEF LockPost
    <2> HIDE DEF n
    <2>4. RequestOK(n)
      BY <2>2, <2>3 DEF RequestOK, CreateOK, DeleteOK, MarkOK, FollowOK, Marking, Following
    <2>5. \A p \in Others(q) : Apart(n, req[p])
      BY <2>2, <2>3, <1>0 DEF Apart, Marking, Following, HoldsPost, References
    <2> QED
      BY <2>3, <2>4, <2>5, RequestMoves
  <1>2. ASSUME Cascade(q) PROVE CountersIInv'
    <2> DEFINE n == [Goto(q, "author") EXCEPT !.todo = TagsOf[r.on]]
    <2>1. r \in Request /\ r.op = "delete" /\ r.at = "cascade" /\ r.on \in posts /\ DOMAIN r.wrote = {}
      BY <1>0, <1>2 DEF Cascade, At, RequestOK, DeleteOK
    <2>2. TagsOf[r.on] \in Seq(Tags)
      BY <2>1, TagsAssumption DEF CountersIInv, PostsInv
    <2>3. n \in Request /\ n.op = "delete" /\ n.at = "author" /\ n.on = r.on /\ n.wrote = r.wrote
          /\ n.todo = TagsOf[r.on]
      BY <2>1, <2>2 DEF Goto, Request
    <2>4. /\ \A p \in Others(q), m \in Marks : On[m] = r.on => ~HoldsMark(p, m)
          /\ Became(q, n) /\ UNCHANGED <<postVars, markVars, followVars, reconciliation, misfits>>
      BY <1>2 DEF Cascade
    <2> HIDE DEF n
    <2>5. RequestOK(n)
      BY <1>0, <2>1, <2>3 DEF RequestOK, CreateOK, DeleteOK, MarkOK, FollowOK, Marking, Following
    <2>6. \A p \in Others(q) : Marking(req[p]) => On[req[p].on] # r.on
      BY <1>0, <2>4 DEF HoldsMark, Marking, RequestOK, MarkOK
    <2>7. \A p \in Others(q) : Apart(n, req[p])
      BY <1>0, <2>1, <2>3, <2>6 DEF Apart, Marking, Following
    <2> QED
      BY <2>4, <2>5, <2>7, RequestMoves
  <1>3. ASSUME UncountPost(q) PROVE CountersIInv'
    <2> DEFINE n == Goto(q, IF TagsLeft(q) = {} THEN "commit" ELSE "tags")
    <2>1. r \in Request /\ r.op = "delete" /\ r.at = "author" /\ r.on \in posts /\ DOMAIN r.wrote = {}
          /\ r.todo = TagsOf[r.on]
      BY <1>0, <1>3 DEF UncountPost, At, RequestOK, DeleteOK
    <2>2. n \in Request /\ n.op = "delete" /\ n.at \in {"commit", "tags"} /\ n.on = r.on /\ n.wrote = r.wrote
          /\ n.todo = r.todo /\ (n.at = "commit" => TagsLeft(q) = {})
      BY <2>1 DEF Goto, Request
    <2>3. n.at = "commit" => Names(r.on) \subseteq DOMAIN r.wrote
      BY <2>1, <2>2 DEF TagsLeft, Names
    <2>4. Became(q, n) /\ UNCHANGED <<postVars, markVars, followVars, reconciliation, misfits>>
      BY <1>3 DEF UncountPost
    <2> HIDE DEF n
    <2>5. RequestOK(n)
      BY <1>0, <2>1, <2>2, <2>3 DEF RequestOK, CreateOK, DeleteOK, MarkOK, FollowOK, Marking, Following
    <2>6. \A p \in Others(q) : Apart(n, req[p])
      BY <1>0, <2>1, <2>2 DEF Apart, Marking, Following
    <2> QED
      BY <2>4, <2>5, <2>6, RequestMoves
  <1>4. ASSUME NEW t \in Tags, UncountTag(q, t) PROVE CountersIInv'
    <2> DEFINE v == Most(tagCount[t] - 1, 0)
    <2> DEFINE g == Goto(q, IF TagsLeft(q) = {t} THEN "commit" ELSE "tags")
    <2> DEFINE n == Write(g, t, v)
    <2>1. /\ r \in Request /\ r.op = "delete" /\ r.at = "tags" /\ r.on \in posts
          /\ r.todo = TagsOf[r.on] /\ t \in Names(r.on) /\ t \notin DOMAIN r.wrote
      BY <1>0, <1>4 DEF UncountTag, At, RequestOK, DeleteOK, TagsLeft, Names
    <2>2. v \in Nat
      BY DEF CountersIInv, PostsInv, Most
    <2>3. g \in Request /\ g.op = "delete" /\ g.at \in {"commit", "tags"} /\ g.on = r.on /\ g.wrote = r.wrote
          /\ g.todo = r.todo /\ (g.at = "commit" => TagsLeft(q) = {t})
      BY <2>1 DEF Goto, Request
    <2> HIDE DEF g, v
    <2>4. /\ n \in Request /\ n.op = "delete" /\ n.at = g.at /\ n.on = r.on /\ n.todo = r.todo
          /\ DOMAIN n.wrote = DOMAIN r.wrote \cup {t}
          /\ n.wrote[t] = v /\ \A u \in DOMAIN r.wrote : n.wrote[u] = r.wrote[u]
      <3> DEFINE w == [u \in DOMAIN g.wrote \cup {t} |-> IF u = t THEN v ELSE g.wrote[u]]
      <3>1. g.wrote \in Written
        BY <2>3 DEF Request
      <3>2. w \in Written
        BY <2>2, <3>1, WrittenGrows
      <3>3. DOMAIN w = DOMAIN r.wrote \cup {t} /\ w[t] = v
            /\ \A u \in DOMAIN r.wrote : w[u] = r.wrote[u]
        BY <2>1, <2>3
      <3>4. n = [g EXCEPT !.wrote = w]
        BY DEF Write
      <3> HIDE DEF w, n
      <3>5. n \in Request /\ n.wrote = w /\ n.op = g.op /\ n.at = g.at /\ n.on = g.on /\ n.todo = g.todo
        BY <2>3, <3>2, <3>4 DEF Request
      <3> QED
        BY <2>3, <3>3, <3>5
    <2>5. n.at = "commit" => Names(r.on) \subseteq DOMAIN n.wrote
      BY <2>1, <2>3, <2>4 DEF TagsLeft, Names
    <2>6. /\ \A p \in Others(q) : t \notin DOMAIN req[p].wrote
          /\ Became(q, n) /\ UNCHANGED <<postVars, markVars, followVars, reconciliation, misfits>>
      BY <1>4 DEF UncountTag, HoldsTag, g, v
    <2> HIDE DEF n
    <2>7. RequestOK(n)
      BY <1>0, <2>1, <2>3, <2>4, <2>5
         DEF RequestOK, CreateOK, DeleteOK, MarkOK, FollowOK, Marking, Following, v
    <2>8. \A p \in Others(q) : Apart(n, req[p])
      BY <1>0, <2>1, <2>3, <2>4, <2>6 DEF Apart, Marking, Following
    <2> QED
      BY <2>6, <2>7, <2>8, RequestMoves
  <1> QED
    BY <1>1, <1>2, <1>3, <1>4

(* The steps of a like, of a comment and of their removal before the COMMIT. *)
LEMMA MarkStep ==
  ASSUME CountersIInv, NEW q \in Requests
  PROVE  /\ (\E m \in Marks : InsertMark(q, m)) => CountersIInv'
         /\ (\E m \in Marks : RemoveMark(q, m)) => CountersIInv'
         /\ CountMark(q) => CountersIInv'
  <1> DEFINE r == req[q]
  <1>0. RequestOK(r) /\ \A p \in Others(q) : RequestOK(req[p]) /\ Apart(r, req[p])
    BY DEF CountersIInv, RequestsInv, Others
  <1>a. Idle \in Request /\ DOMAIN Idle.wrote = {}
    BY IdleIsOK DEF RequestOK, Idle
  <1>1. ASSUME NEW m \in Marks, InsertMark(q, m) PROVE CountersIInv'
    <2> DEFINE n == [Idle EXCEPT !.op = "mark", !.on = m, !.at = "count"]
    <2>1. n \in Request /\ n.op = "mark" /\ n.at = "count" /\ n.on = m /\ DOMAIN n.wrote = {}
      BY <1>a DEF Request
    <2>2. /\ m \notin marks
          /\ \A p \in Others(q) : ~HoldsMark(p, m) /\ ~(req[p].op = "delete" /\ req[p].on = On[m])
          /\ Became(q, n) /\ UNCHANGED <<postVars, markVars, followVars, reconciliation, misfits>>
      BY <1>1 DEF InsertMark
    <2> HIDE DEF n
    <2>3. RequestOK(n)
      BY <2>1, <2>2 DEF RequestOK, CreateOK, DeleteOK, MarkOK, FollowOK, Marking, Following
    <2>4. \A p \in Others(q) : Apart(n, req[p])
      BY <2>1, <2>2, <1>0 DEF Apart, Marking, Following, HoldsMark
    <2> QED
      BY <2>2, <2>3, <2>4, RequestMoves
  <1>2. ASSUME NEW m \in Marks, RemoveMark(q, m) PROVE CountersIInv'
    <2> DEFINE n == [Idle EXCEPT !.op = "unmark", !.on = m, !.at = "count"]
    <2>1. n \in Request /\ n.op = "unmark" /\ n.at = "count" /\ n.on = m /\ DOMAIN n.wrote = {}
      BY <1>a DEF Request
    <2>2. /\ m \in marks
          /\ \A p \in Others(q) : ~HoldsMark(p, m)
          /\ Became(q, n) /\ UNCHANGED <<postVars, markVars, followVars, reconciliation, misfits>>
      BY <1>2 DEF RemoveMark
    <2> HIDE DEF n
    <2>3. RequestOK(n)
      BY <2>1, <2>2 DEF RequestOK, CreateOK, DeleteOK, MarkOK, FollowOK, Marking, Following
    <2>4. \A p \in Others(q) : Apart(n, req[p])
      BY <2>1, <2>2, <1>0 DEF Apart, Marking, Following, HoldsMark, RequestOK, DeleteOK
    <2> QED
      BY <2>2, <2>3, <2>4, RequestMoves
  <1>3. ASSUME CountMark(q) PROVE CountersIInv'
    <2> DEFINE n == [Goto(q, "commit") EXCEPT !.seen = Counted(r)]
    <2>1. r \in Request /\ Marking(r) /\ r.at = "count" /\ r.on \in Marks /\ DOMAIN r.wrote = {}
      BY <1>0, <1>3 DEF CountMark, RequestOK, MarkOK, Marking
    <2>2. Counted(r) \in Nat
      <3>1. On[r.on] \in Posts
        BY <2>1, MarksAssumption
      <3>2. markCount[On[r.on]].likes \in Nat /\ markCount[On[r.on]].comments \in Nat
        BY <3>1 DEF CountersIInv, MarksInv
      <3> QED
        BY <3>2 DEF Counted, Column, Most
    <2>3. n \in Request /\ n.op = r.op /\ n.at = "commit" /\ n.on = r.on /\ n.wrote = r.wrote
          /\ n.seen = Counted(r)
      BY <2>1, <2>2 DEF Goto, Request
    <2>4. /\ \A p \in Others(q) : ~HoldsPost(p, On[r.on])
          /\ Became(q, n) /\ UNCHANGED <<postVars, markVars, followVars, reconciliation, misfits>>
      BY <1>3 DEF CountMark
    <2>5. Counted(n) = Counted(r)
      BY <2>3 DEF Counted
    <2> HIDE DEF n
    <2>6. RequestOK(n)
      BY <1>0, <2>1, <2>3, <2>5 DEF RequestOK, CreateOK, DeleteOK, MarkOK, FollowOK, Marking, Following
    <2>7. \A p \in Others(q) : Apart(n, req[p])
      BY <1>0, <2>1, <2>3, <2>4 DEF Apart, Marking, Following, HoldsPost
    <2> QED
      BY <2>4, <2>6, <2>7, RequestMoves
  <1> QED
    BY <1>1, <1>2, <1>3

(* The steps of a follow and of an unfollow before the COMMIT.              *)
LEMMA FollowStep ==
  ASSUME CountersIInv, NEW q \in Requests
  PROVE  /\ (\E f \in Followers : InsertFollow(q, f)) => CountersIInv'
         /\ (\E f \in Followers : RemoveFollow(q, f)) => CountersIInv'
         /\ CountFollow(q) => CountersIInv'
  <1> DEFINE r == req[q]
  <1>0. RequestOK(r) /\ \A p \in Others(q) : RequestOK(req[p]) /\ Apart(r, req[p])
    BY DEF CountersIInv, RequestsInv, Others
  <1>a. Idle \in Request /\ DOMAIN Idle.wrote = {}
    BY IdleIsOK DEF RequestOK, Idle
  <1>1. ASSUME NEW f \in Followers, InsertFollow(q, f) PROVE CountersIInv'
    <2> DEFINE n == [Idle EXCEPT !.op = "follow", !.on = f, !.at = "count"]
    <2>1. n \in Request /\ n.op = "follow" /\ n.at = "count" /\ n.on = f /\ DOMAIN n.wrote = {}
      BY <1>a DEF Request
    <2>2. /\ f \notin follows /\ \A p \in Others(q) : ~HoldsFollow(p, f)
          /\ Became(q, n) /\ UNCHANGED <<postVars, markVars, followVars, reconciliation, misfits>>
      BY <1>1 DEF InsertFollow
    <2> HIDE DEF n
    <2>3. RequestOK(n)
      BY <2>1, <2>2 DEF RequestOK, CreateOK, DeleteOK, MarkOK, FollowOK, Marking, Following
    <2>4. \A p \in Others(q) : Apart(n, req[p])
      BY <2>1, <2>2, <1>0 DEF Apart, Marking, Following, HoldsFollow
    <2> QED
      BY <2>2, <2>3, <2>4, RequestMoves
  <1>2. ASSUME NEW f \in Followers, RemoveFollow(q, f) PROVE CountersIInv'
    <2> DEFINE n == [Idle EXCEPT !.op = "unfollow", !.on = f, !.at = "count"]
    <2>1. n \in Request /\ n.op = "unfollow" /\ n.at = "count" /\ n.on = f /\ DOMAIN n.wrote = {}
      BY <1>a DEF Request
    <2>2. /\ f \in follows /\ \A p \in Others(q) : ~HoldsFollow(p, f)
          /\ Became(q, n) /\ UNCHANGED <<postVars, markVars, followVars, reconciliation, misfits>>
      BY <1>2 DEF RemoveFollow
    <2> HIDE DEF n
    <2>3. RequestOK(n)
      BY <2>1, <2>2 DEF RequestOK, CreateOK, DeleteOK, MarkOK, FollowOK, Marking, Following
    <2>4. \A p \in Others(q) : Apart(n, req[p])
      BY <2>1, <2>2, <1>0 DEF Apart, Marking, Following, HoldsFollow
    <2> QED
      BY <2>2, <2>3, <2>4, RequestMoves
  <1>3. ASSUME CountFollow(q) PROVE CountersIInv'
    <2> DEFINE n == [Goto(q, "commit") EXCEPT !.seen = Recounted(r)]
    <2>1. r \in Request /\ Following(r) /\ r.at = "count" /\ DOMAIN r.wrote = {}
      BY <1>0, <1>3 DEF CountFollow, RequestOK, FollowOK, Following
    <2>2. Recounted(r) \in Nat
      BY DEF CountersIInv, FollowsInv, Recounted, Most
    <2>3. n \in Request /\ n.op = r.op /\ n.at = "commit" /\ n.on = r.on /\ n.wrote = r.wrote
          /\ n.seen = Recounted(r)
      BY <2>1, <2>2 DEF Goto, Request
    <2>4. /\ \A p \in Others(q) : ~HoldsFollowed(p)
          /\ Became(q, n) /\ UNCHANGED <<postVars, markVars, followVars, reconciliation, misfits>>
      BY <1>3 DEF CountFollow
    <2>5. Recounted(n) = Recounted(r)
      BY <2>3 DEF Recounted
    <2> HIDE DEF n
    <2>6. RequestOK(n)
      BY <1>0, <2>1, <2>3, <2>5 DEF RequestOK, CreateOK, DeleteOK, MarkOK, FollowOK, Marking, Following
    <2>7. \A p \in Others(q) : Apart(n, req[p])
      BY <1>0, <2>1, <2>3, <2>4 DEF Apart, Marking, Following, HoldsFollowed
    <2> QED
      BY <2>4, <2>6, <2>7, RequestMoves
  <1> QED
    BY <1>1, <1>2, <1>3

-----------------------------------------------------------------------------
(* A count of rows, when one is added or goes.                              *)
Matching(S, f, v) == {y \in S : f[y] = v}

(* One more, if the row that is added is of the ones that are counted.      *)
LEMMA RowAdded ==
  ASSUME NEW S, IsFiniteSet(S), NEW x, x \notin S, NEW f, NEW v
  PROVE  Cardinality(Matching(S \cup {x}, f, v)) =
           IF f[x] = v THEN Cardinality(Matching(S, f, v)) + 1 ELSE Cardinality(Matching(S, f, v))
  <1> DEFINE T == Matching(S, f, v)
  <1>1. IsFiniteSet(T) /\ x \notin T
    BY FS_Subset DEF Matching
  <1>2. Matching(S \cup {x}, f, v) = IF f[x] = v THEN T \cup {x} ELSE T
    BY DEF Matching
  <1> HIDE DEF T
  <1>3. Cardinality(T \cup {x}) = Cardinality(T) + 1
    BY <1>1, FS_AddElement
  <1> QED
    BY <1>2, <1>3 DEF T

(* One less, if the row that goes is.                                       *)
LEMMA RowRemoved ==
  ASSUME NEW S, IsFiniteSet(S), NEW x \in S, NEW f, NEW v
  PROVE  /\ Cardinality(Matching(S \ {x}, f, v)) =
              IF f[x] = v THEN Cardinality(Matching(S, f, v)) - 1 ELSE Cardinality(Matching(S, f, v))
         /\ Cardinality(Matching(S, f, v)) \in Nat
         /\ f[x] = v => Cardinality(Matching(S, f, v)) > 0
  <1> DEFINE T == Matching(S, f, v)
  <1>1. IsFiniteSet(T) /\ (f[x] = v => x \in T)
    BY FS_Subset DEF Matching
  <1>2. Matching(S \ {x}, f, v) = IF f[x] = v THEN T \ {x} ELSE T
    BY DEF Matching
  <1> HIDE DEF T
  <1>3. Cardinality(T) \in Nat
        /\ (f[x] = v => Cardinality(T \ {x}) = Cardinality(T) - 1 /\ Cardinality(T) # 0)
    BY <1>1, FS_RemoveElement, FS_CardinalityType, FS_EmptySet
  <1>4. f[x] = v => Cardinality(T) > 0
    BY <1>3
  <1> QED
    BY <1>2, <1>3, <1>4 DEF T

(* A request that ends leaves the others as far apart as they were.         *)
LEMMA RequestEnds ==
  ASSUME CountersIInv, NEW q \in Requests, Finish(q),
         \A p \in Others(q) : RequestOK(req[p])'
  PROVE  RequestsInv'
  <1>1. DOMAIN req' = Requests /\ \A p \in Requests : req'[p] = IF p = q THEN Idle ELSE req[p]
    BY DEF CountersIInv, RequestsInv, Finish, Became
  <1>2. RequestOK(req[q])'
    <2>1. req'[q] = Idle /\ RequestOK(Idle)
      BY <1>1, IdleIsOK
    <2>2. Idle.op = "none"
      BY DEF Idle
    <2> QED
      BY <2>1, <2>2 DEF RequestOK, CreateOK, DeleteOK, MarkOK, FollowOK, Marking, Following
  <1>3. \A p \in Requests : \A o \in Others(p) : Apart(req'[p], req'[o])
    BY <1>1, IdleIsOK DEF CountersIInv, RequestsInv, RequestOK, Others
  <1>4. \A p \in Requests : RequestOK(req[p])'
    BY <1>2 DEF Others
  <1> QED
    BY <1>1, <1>3, <1>4 DEF RequestsInv, Apart, Marking, Following, Others

(* COMMIT of a CreatePost.                                                  *)
LEMMA CommitPostStep ==
  ASSUME CountersIInv, NEW q \in Requests, CommitPost(q)
  PROVE  CountersIInv'
  <1> DEFINE r == req[q]
  <1> DEFINE x == r.on
  <1> DEFINE w == r.wrote
  <1>0. RequestOK(r) /\ \A p \in Others(q) : RequestOK(req[p]) /\ Apart(r, req[p])
    BY DEF CountersIInv, RequestsInv, Others
  <1>1. /\ r \in Request /\ r.op = "create" /\ x \in Posts /\ x \notin posts \cup gone
        /\ DOMAIN w = Names(x)
    <2>1. r.at = "commit" /\ r.todo = << >> /\ r.op = "create"
      BY <1>0 DEF CommitPost, At, RequestOK, CreateOK
    <2>2. Elements(<< >>) = {}
      BY DEF Elements
    <2> QED
      BY <1>0, <2>1, <2>2 DEF RequestOK, CreateOK
  <1>2. DOMAIN w \subseteq Tags /\ \A t \in DOMAIN w : w[t] \in Nat
    BY <1>1 DEF Request, Written
  <1>3. /\ posts' = posts \cup {x} /\ postCount' = [postCount EXCEPT ![Author[x]] = @ + 1]
        /\ hashtags' = hashtags \cup DOMAIN w /\ tagCount' = Stored(w)
        /\ misfits' = (misfits \ DOMAIN w)
                        \cup {t \in DOMAIN w : w[t] # Cardinality(HasTag(t)) + 1}
        /\ Finish(q) /\ UNCHANGED <<gone, markVars, followVars, reconciliation>>
    BY DEF CommitPost
  <1>4. \A p \in Others(q) : RequestOK(req[p])'
    <2> SUFFICES ASSUME NEW p \in Others(q) PROVE RequestOK(req[p])'
      OBVIOUS
    <2>1. req'[p] = req[p]
      BY <1>3 DEF Finish, Became, Others, CountersIInv, RequestsInv
    <2> DEFINE s == req[p]
    <2>2. CreateOK(req[p])'
      BY <1>0, <1>1, <1>3, <2>1 DEF RequestOK, CreateOK, Apart
    <2>3. DeleteOK(req[p])'
      <3>1. \A t \in DOMAIN s.wrote : t \in Tags /\ t \notin DOMAIN w
        BY <1>0 DEF RequestOK, Request, Written, Apart
      <3>2. \A t \in DOMAIN s.wrote : tagCount'[t] = tagCount[t]
        BY <1>3, <3>1 DEF Stored
      <3> QED
        BY <1>0, <1>3, <2>1, <3>2 DEF RequestOK, DeleteOK
    <2>4. MarkOK(req[p])' /\ FollowOK(req[p])'
      BY <1>0, <1>3, <2>1 DEF RequestOK, MarkOK, FollowOK, Counted, Recounted, markVars, followVars
    <2> QED
      BY <1>0, <2>1, <2>2, <2>3, <2>4 DEF RequestOK
  <1>5. PostsInv'
    <2>1. posts' \subseteq Posts /\ IsFiniteSet(posts') /\ gone' \subseteq Posts
          /\ hashtags' \subseteq Tags /\ misfits' \subseteq Tags \cup {"followers"}
      BY <1>1, <1>2, <1>3, FS_AddElement DEF CountersIInv, PostsInv
    <2>2. postCount' \in [Users -> Nat] /\ tagCount' \in [Tags -> Nat]
      BY <1>1, <1>2, <1>3, AuthorAssumption DEF CountersIInv, PostsInv, Stored
    <2>3. ASSUME NEW u \in Users PROVE postCount'[u] = Cardinality({y \in posts' : Author[y] = u})
      <3>1. Cardinality(Matching(posts \cup {x}, Author, u)) =
              IF Author[x] = u THEN Cardinality(Matching(posts, Author, u)) + 1
              ELSE Cardinality(Matching(posts, Author, u))
        <4>1. IsFiniteSet(posts) /\ x \notin posts
          BY <1>1 DEF CountersIInv, PostsInv
        <4> HIDE DEF x
        <4> QED
          BY <4>1, RowAdded
      <3>2. postCount[u] = Cardinality(Matching(posts, Author, u))
        BY DEF CountersIInv, PostsInv, Matching
      <3>3. postCount'[u] = IF Author[x] = u THEN postCount[u] + 1 ELSE postCount[u]
        BY <1>3 DEF CountersIInv, PostsInv
      <3> QED
        BY <1>3, <3>1, <3>2, <3>3 DEF Matching
    <2>4. ASSUME NEW t \in Tags \ misfits' PROVE tagCount'[t] = Cardinality(HasTag(t))'
      <3>1. CASE t \in DOMAIN w
        <4>1. w[t] = Cardinality(HasTag(t)) + 1
          BY <1>3, <2>4, <3>1
        <4>2. HasTag(t)' = HasTag(t) \cup {x} /\ x \notin HasTag(t) /\ IsFiniteSet(HasTag(t))
          BY <1>1, <1>3, <3>1, FS_Subset DEF HasTag, Names, CountersIInv, PostsInv
        <4> QED
          BY <1>3, <3>1, <4>1, <4>2, FS_AddElement DEF Stored
      <3>2. CASE t \notin DOMAIN w
        <4>1. HasTag(t)' = HasTag(t)
          BY <1>1, <1>3, <3>2 DEF HasTag, Names
        <4> QED
          BY <1>3, <2>4, <3>2, <4>1 DEF Stored, CountersIInv, PostsInv, HashtagCountsExact
      <3> QED
        BY <3>1, <3>2
    <2> QED
      BY <2>1, <2>2, <2>3, <2>4 DEF PostsInv, HashtagCountsExact
  <1>6. MarksInv' /\ FollowsInv'
    <2>1. "followers" \in misfits' <=> "followers" \in misfits
      BY <1>2, <1>3, TagsAssumption
    <2> QED
      BY <1>3, <2>1 DEF CountersIInv, MarksInv, FollowsInv, markVars, followVars, FollowerCountExact,
                        CountLatches
  <1> QED
    BY <1>3, <1>4, <1>5, <1>6, RequestEnds DEF CountersIInv

(* COMMIT of a DeletePost.                                                  *)
LEMMA CommitDeleteStep ==
  ASSUME CountersIInv, NEW q \in Requests, CommitDelete(q)
  PROVE  CountersIInv'
  <1> DEFINE r == req[q]
  <1> DEFINE x == r.on
  <1> DEFINE w == r.wrote
  <1>0. RequestOK(r) /\ \A p \in Others(q) : RequestOK(req[p]) /\ Apart(r, req[p])
    BY DEF CountersIInv, RequestsInv, Others
  <1>1. /\ r \in Request /\ r.op = "delete" /\ r.at = "commit" /\ x \in posts /\ DOMAIN w = Names(x)
        /\ \A t \in DOMAIN w : w[t] = Most(tagCount[t] - 1, 0)
    BY <1>0 DEF CommitDelete, At, RequestOK, DeleteOK
  <1>2. DOMAIN w \subseteq Tags /\ (\A t \in DOMAIN w : w[t] \in Nat)
    BY <1>1 DEF Request, Written
  <1>3. /\ posts' = posts \ {x} /\ gone' = gone \cup {x}
        /\ postCount' = [postCount EXCEPT ![Author[x]] = Most(@ - 1, 0)]
        /\ tagCount' = Stored(w) /\ marks' = {m \in marks : On[m] # x}
        /\ markCount' = [markCount EXCEPT ![x] = [likes |-> 0, comments |-> 0]]
        /\ Finish(q) /\ UNCHANGED <<hashtags, spent, followVars, reconciliation, misfits>>
    BY DEF CommitDelete
  <1>4. x \in Posts /\ IsFiniteSet(posts) /\ IsFiniteSet(marks)
    BY <1>1 DEF CountersIInv, PostsInv, MarksInv
  <1>5. \A p \in Others(q) : RequestOK(req[p])'
    <2> SUFFICES ASSUME NEW p \in Others(q) PROVE RequestOK(req[p])'
      OBVIOUS
    <2>1. req'[p] = req[p]
      BY <1>3 DEF Finish, Became, Others, CountersIInv, RequestsInv
    <2> DEFINE s == req[p]
    <2>2. CreateOK(req[p])'
      BY <1>0, <1>1, <1>3, <2>1 DEF RequestOK, CreateOK
    <2>3. DeleteOK(req[p])'
      <3>1. \A t \in DOMAIN s.wrote : t \in Tags /\ t \notin DOMAIN w
        BY <1>0 DEF RequestOK, Request, Written, Apart
      <3>2. \A t \in DOMAIN s.wrote : tagCount'[t] = tagCount[t]
        BY <1>3, <3>1 DEF Stored
      <3> QED
        BY <1>0, <1>1, <1>3, <2>1, <3>2 DEF RequestOK, DeleteOK, Apart
    <2>4. MarkOK(req[p])'
      <3>1. Marking(s) => On[s.on] # x /\ s.on \in Marks
        BY <1>0, <1>1 DEF Apart, RequestOK, MarkOK
      <3>2. Marking(s) => On[s.on] \in Posts /\ markCount'[On[s.on]] = markCount[On[s.on]]
        BY <1>3, <3>1, MarksAssumption DEF CountersIInv, MarksInv
      <3>3. Marking(s) => (s.on \in marks' <=> s.on \in marks)
        BY <1>3, <3>1
      <3> QED
        BY <1>0, <2>1, <3>1, <3>2, <3>3 DEF RequestOK, MarkOK, Counted, Marking
    <2>5. FollowOK(req[p])'
      BY <1>0, <1>3, <2>1 DEF RequestOK, FollowOK, Recounted, followVars, Following
    <2> QED
      BY <1>0, <2>1, <2>2, <2>3, <2>4, <2>5 DEF RequestOK
  <1>6. PostsInv'
    <2>1. posts' \subseteq Posts /\ IsFiniteSet(posts') /\ gone' \subseteq Posts
          /\ hashtags' \subseteq Tags /\ misfits' \subseteq Tags \cup {"followers"}
      BY <1>3, <1>4, FS_RemoveElement DEF CountersIInv, PostsInv
    <2>2. postCount' \in [Users -> Nat] /\ tagCount' \in [Tags -> Nat]
      BY <1>2, <1>3, <1>4, AuthorAssumption DEF CountersIInv, PostsInv, Stored, Most
    <2>3. ASSUME NEW u \in Users PROVE postCount'[u] = Cardinality({y \in posts' : Author[y] = u})
      <3>1. /\ Cardinality(Matching(posts \ {x}, Author, u)) =
                 IF Author[x] = u THEN Cardinality(Matching(posts, Author, u)) - 1
                 ELSE Cardinality(Matching(posts, Author, u))
            /\ Cardinality(Matching(posts, Author, u)) \in Nat
            /\ Author[x] = u => Cardinality(Matching(posts, Author, u)) > 0
        <4> HIDE DEF x
        <4> QED
          BY <1>1, <1>4, RowRemoved
      <3>2. postCount[u] = Cardinality(Matching(posts, Author, u))
        BY DEF CountersIInv, PostsInv, Matching
      <3>3. postCount'[u] = IF Author[x] = u THEN Most(postCount[u] - 1, 0) ELSE postCount[u]
        BY <1>3 DEF CountersIInv, PostsInv
      <3>4. postCount'[u] = Cardinality(Matching(posts \ {x}, Author, u))
        BY <3>1, <3>2, <3>3 DEF Most
      <3> QED
        BY <1>3, <3>4 DEF Matching
    <2>4. ASSUME NEW t \in Tags \ misfits' PROVE tagCount'[t] = Cardinality(HasTag(t))'
      <3>0. tagCount[t] = Cardinality(HasTag(t)) /\ IsFiniteSet(HasTag(t))
        BY <1>3, <1>4, <2>4, FS_Subset DEF CountersIInv, PostsInv, HashtagCountsExact, HasTag
      <3>1. CASE t \in DOMAIN w
        <4>1. HasTag(t)' = HasTag(t) \ {x} /\ x \in HasTag(t)
          BY <1>1, <1>3, <3>1 DEF HasTag, Names
        <4>a. \A S : \A y \in S : IsFiniteSet(S) =>
                Cardinality(S \ {y}) = Cardinality(S) - 1 /\ Cardinality(S) \in Nat /\ Cardinality(S) # 0
          BY FS_RemoveElement, FS_CardinalityType, FS_EmptySet
        <4>b. Cardinality(HasTag(t) \ {x}) = Cardinality(HasTag(t)) - 1
              /\ Cardinality(HasTag(t)) \in Nat /\ Cardinality(HasTag(t)) # 0
          BY <3>0, <4>1, <4>a
        <4>2. Cardinality(HasTag(t)') = tagCount[t] - 1 /\ tagCount[t] \in Nat /\ tagCount[t] # 0
          BY <3>0, <4>1, <4>b
        <4> QED
          BY <1>1, <1>3, <3>1, <4>2 DEF Stored, Most
      <3>2. CASE t \notin DOMAIN w
        <4>1. HasTag(t)' = HasTag(t)
          BY <1>1, <1>3, <3>2 DEF HasTag, Names
        <4> QED
          BY <1>3, <3>0, <3>2, <4>1 DEF Stored
      <3> QED
        BY <3>1, <3>2
    <2> QED
      BY <2>1, <2>2, <2>3, <2>4 DEF PostsInv, HashtagCountsExact
  <1>7. MarksInv'
    <2>1. marks' \subseteq Marks /\ IsFiniteSet(marks') /\ spent' \subseteq Comments
      BY <1>3, <1>4, FS_Subset DEF CountersIInv, MarksInv
    <2>2. markCount' \in [Posts -> [likes : Nat, comments : Nat]]
      BY <1>3 DEF CountersIInv, MarksInv
    <2>3. ASSUME NEW y \in Posts
          PROVE  /\ markCount'[y].likes = Cardinality({m \in marks' \cap Likes : On[m] = y})
                 /\ markCount'[y].comments = Cardinality({m \in marks' \cap Comments : On[m] = y})
      <3>1. CASE y = x
        <4>1. {m \in marks' \cap Likes : On[m] = y} = {} /\ {m \in marks' \cap Comments : On[m] = y} = {}
          BY <1>3, <3>1
        <4>2. markCount'[y].likes = 0 /\ markCount'[y].comments = 0
          BY <1>3, <1>4, <3>1 DEF CountersIInv, MarksInv
        <4> QED
          BY <4>1, <4>2, FS_EmptySet
      <3>2. CASE y # x
        <4>1. /\ {m \in marks' \cap Likes : On[m] = y} = {m \in marks \cap Likes : On[m] = y}
              /\ {m \in marks' \cap Comments : On[m] = y} = {m \in marks \cap Comments : On[m] = y}
          BY <1>3, <3>2
        <4>2. markCount'[y] = markCount[y]
          BY <1>3, <3>2 DEF CountersIInv, MarksInv
        <4> QED
          BY <4>1, <4>2 DEF CountersIInv, MarksInv
      <3> QED
        BY <3>1, <3>2
    <2> QED
      BY <2>1, <2>2, <2>3 DEF MarksInv
  <1>8. FollowsInv'
    BY <1>3 DEF CountersIInv, FollowsInv, followVars, FollowerCountExact, CountLatches
  <1> QED
    BY <1>3, <1>5, <1>6, <1>7, <1>8, RequestEnds DEF CountersIInv

(* COMMIT of a like, of a comment or of a removal.                          *)
LEMMA CommitMarkStep ==
  ASSUME CountersIInv, NEW q \in Requests, CommitMark(q)
  PROVE  CountersIInv'
  <1> DEFINE r == req[q]
  <1> DEFINE m == r.on
  <1> DEFINE x == On[m]
  <1> DEFINE new == IF r.op = "mark" THEN marks \cup {m} ELSE marks \ {m}
  <1>0. RequestOK(r) /\ \A p \in Others(q) : RequestOK(req[p]) /\ Apart(r, req[p])
    BY DEF CountersIInv, RequestsInv, Others
  <1>1. /\ r \in Request /\ Marking(r) /\ r.at = "commit" /\ m \in Marks /\ r.seen = Counted(r)
        /\ (r.op = "mark" <=> m \notin marks)
    BY <1>0 DEF CommitMark, Marking, RequestOK, MarkOK
  <1>2. x \in Posts /\ (m \in Likes <=> m \notin Comments) /\ m \in Likes \cup Comments
    BY <1>1, MarksAssumption DEF Marks
  <1>3. /\ marks' = new
        /\ spent' = IF m \in Comments THEN spent \cup {m} ELSE spent
        /\ markCount' = [markCount EXCEPT ![x][Column(m)] = r.seen]
        /\ Finish(q) /\ UNCHANGED <<postVars, followVars, reconciliation, misfits>>
    BY DEF CommitMark
  <1>4. /\ IsFiniteSet(marks) /\ marks \subseteq Marks /\ spent \subseteq Comments
        /\ markCount \in [Posts -> [likes : Nat, comments : Nat]]
    BY DEF CountersIInv, MarksInv
  <1>5. \A y \in Posts \ {x} : markCount'[y] = markCount[y]
    BY <1>3, <1>4
  <1>6. \A p \in Others(q) : RequestOK(req[p])'
    <2> SUFFICES ASSUME NEW p \in Others(q) PROVE RequestOK(req[p])'
      OBVIOUS
    <2>1. req'[p] = req[p]
      BY <1>3 DEF Finish, Became, Others, CountersIInv, RequestsInv
    <2> DEFINE s == req[p]
    <2>2. CreateOK(req[p])' /\ DeleteOK(req[p])'
      BY <1>0, <1>3, <2>1 DEF RequestOK, CreateOK, DeleteOK, postVars
    <2>3. MarkOK(req[p])'
      <3>1. Marking(s) => s.on # m /\ s.on \in Marks /\ (s.at = "commit" => On[s.on] # x)
        BY <1>0, <1>1 DEF Apart, RequestOK, MarkOK
      <3>2. Marking(s) /\ s.at = "commit" => markCount'[On[s.on]] = markCount[On[s.on]]
        BY <1>5, <3>1, MarksAssumption
      <3>3. Marking(s) => (s.on \in marks' <=> s.on \in marks)
        BY <1>3, <3>1
      <3> QED
        BY <1>0, <2>1, <3>1, <3>2, <3>3 DEF RequestOK, MarkOK, Counted, Marking
    <2>4. FollowOK(req[p])'
      BY <1>0, <1>3, <2>1 DEF RequestOK, FollowOK, Recounted, followVars, Following
    <2> QED
      BY <1>0, <2>1, <2>2, <2>3, <2>4 DEF RequestOK
  <1>7. MarksInv'
    <2>1. marks' \subseteq Marks /\ IsFiniteSet(marks') /\ spent' \subseteq Comments
      BY <1>1, <1>3, <1>4, FS_AddElement, FS_RemoveElement
    <2>a. markCount[x].likes \in Nat /\ markCount[x].comments \in Nat
      BY <1>2, <1>4
    <2>b. r.seen \in Nat
      BY <1>1, <2>a DEF Counted, Column, Most
    <2>2. /\ m \in Likes => markCount'[x].likes = r.seen /\ markCount'[x].comments = markCount[x].comments
          /\ m \in Comments => markCount'[x].comments = r.seen /\ markCount'[x].likes = markCount[x].likes
          /\ markCount' \in [Posts -> [likes : Nat, comments : Nat]]
      <3>1. CASE m \in Likes
        <4>1. markCount' = [markCount EXCEPT ![x] = [@ EXCEPT !.likes = r.seen]]
          BY <1>3, <3>1 DEF Column
        <4> QED
          BY <1>2, <1>4, <2>b, <3>1, <4>1
      <3>2. CASE m \notin Likes
        <4>1. markCount' = [markCount EXCEPT ![x] = [@ EXCEPT !.comments = r.seen]]
          BY <1>3, <3>2 DEF Column
        <4> QED
          BY <1>2, <1>4, <2>b, <3>2, <4>1
      <3> QED
        BY <3>1, <3>2
    <2>3. ASSUME NEW K, m \in K
          PROVE  Cardinality(Matching(new \cap K, On, x)) =
                   IF r.op = "mark" THEN Cardinality(Matching(marks \cap K, On, x)) + 1
                   ELSE Most(Cardinality(Matching(marks \cap K, On, x)) - 1, 0)
      <3>1. IsFiniteSet(marks \cap K)
        BY <1>4, FS_Subset
      <3>2. CASE r.op = "mark"
        <4>1. m \notin marks \cap K /\ new \cap K = (marks \cap K) \cup {m}
          BY <1>1, <2>3, <3>2
        <4> HIDE DEF m, new
        <4>2. Cardinality(Matching((marks \cap K) \cup {m}, On, x)) = Cardinality(Matching(marks \cap K, On, x)) + 1
          BY <3>1, <4>1, RowAdded
        <4> QED
          BY <3>2, <4>1, <4>2
      <3>3. CASE r.op # "mark"
        <4>1. m \in marks \cap K /\ new \cap K = (marks \cap K) \ {m}
          BY <1>1, <2>3, <3>3
        <4> HIDE DEF m, new
        <4>2. /\ Cardinality(Matching((marks \cap K) \ {m}, On, x)) = Cardinality(Matching(marks \cap K, On, x)) - 1
              /\ Cardinality(Matching(marks \cap K, On, x)) \in Nat
              /\ Cardinality(Matching(marks \cap K, On, x)) > 0
          BY <3>1, <4>1, RowRemoved
        <4> QED
          BY <3>3, <4>1, <4>2 DEF Most
      <3> QED
        BY <3>2, <3>3
    <2>4. ASSUME NEW K, m \notin K PROVE new \cap K = marks \cap K
      BY <2>4
    <2>5. ASSUME NEW y \in Posts \ {x}, NEW K
          PROVE  {n \in new \cap K : On[n] = y} = {n \in marks \cap K : On[n] = y}
      OBVIOUS
    <2>6. \A y \in Posts :
            /\ markCount[y].likes = Cardinality(Matching(marks \cap Likes, On, y))
            /\ markCount[y].comments = Cardinality(Matching(marks \cap Comments, On, y))
      BY DEF CountersIInv, MarksInv, Matching
    <2>7. /\ m \in Likes => r.seen = Cardinality(Matching(new \cap Likes, On, x))
          /\ m \in Comments => r.seen = Cardinality(Matching(new \cap Comments, On, x))
      <3>1. CASE m \in Likes
        <4>1. Cardinality(Matching(new \cap Likes, On, x)) =
                IF r.op = "mark" THEN Cardinality(Matching(marks \cap Likes, On, x)) + 1
                ELSE Most(Cardinality(Matching(marks \cap Likes, On, x)) - 1, 0)
          BY <2>3, <3>1
        <4>2. r.seen = IF r.op = "mark" THEN markCount[x].likes + 1 ELSE Most(markCount[x].likes - 1, 0)
          BY <1>1, <1>2, <3>1 DEF Counted, Column
        <4>3. markCount[x].likes = Cardinality(Matching(marks \cap Likes, On, x))
          BY <1>2, <2>6
        <4> QED
          BY <1>2, <3>1, <4>1, <4>2, <4>3
      <3>2. CASE m \in Comments
        <4>1. Cardinality(Matching(new \cap Comments, On, x)) =
                IF r.op = "mark" THEN Cardinality(Matching(marks \cap Comments, On, x)) + 1
                ELSE Most(Cardinality(Matching(marks \cap Comments, On, x)) - 1, 0)
          BY <2>3, <3>2
        <4>2. r.seen = IF r.op = "mark" THEN markCount[x].comments + 1 ELSE Most(markCount[x].comments - 1, 0)
          BY <1>1, <1>2, <3>2 DEF Counted, Column
        <4>3. markCount[x].comments = Cardinality(Matching(marks \cap Comments, On, x))
          BY <1>2, <2>6
        <4> QED
          BY <1>2, <3>2, <4>1, <4>2, <4>3
      <3> QED
        BY <3>1, <3>2
    <2>8. ASSUME NEW y \in Posts
          PROVE  /\ markCount'[y].likes = Cardinality(Matching(new \cap Likes, On, y))
                 /\ markCount'[y].comments = Cardinality(Matching(new \cap Comments, On, y))
      <3>1. CASE y = x
        BY <1>2, <2>2, <2>4, <2>6, <2>7, <3>1
      <3>2. CASE y # x
        BY <1>5, <2>5, <2>6, <3>2 DEF Matching
      <3> QED
        BY <3>1, <3>2
    <2> QED
      BY <1>3, <2>1, <2>2, <2>8 DEF MarksInv, Matching
  <1>8. PostsInv' /\ FollowsInv'
    BY <1>3 DEF CountersIInv, PostsInv, HashtagCountsExact, HasTag, FollowsInv, postVars, followVars,
                FollowerCountExact, CountLatches
  <1> QED
    BY <1>3, <1>6, <1>7, <1>8, RequestEnds DEF CountersIInv

(* COMMIT of a follow or of an unfollow.                                    *)
LEMMA CommitFollowStep ==
  ASSUME CountersIInv, NEW q \in Requests, CommitFollow(q)
  PROVE  CountersIInv'
  <1> DEFINE r == req[q]
  <1> DEFINE f == r.on
  <1> DEFINE new == IF r.op = "follow" THEN follows \cup {f} ELSE follows \ {f}
  <1>0. RequestOK(r) /\ \A p \in Others(q) : RequestOK(req[p]) /\ Apart(r, req[p])
    BY DEF CountersIInv, RequestsInv, Others
  <1>1. /\ Following(r) /\ r.at = "commit" /\ f \in Followers /\ r.seen = Recounted(r)
        /\ (r.op = "follow" <=> f \notin follows)
    BY <1>0 DEF CommitFollow, Following, RequestOK, FollowOK
  <1>2. /\ follows' = new /\ followerCount' = r.seen
        /\ isCelebrity' = (isCelebrity \/ (r.op = "follow" /\ r.seen > Threshold))
        /\ Finish(q) /\ UNCHANGED <<postVars, markVars, reconciliation, misfits>>
    BY DEF CommitFollow
  <1>3. /\ IsFiniteSet(follows) /\ follows \subseteq Followers /\ followerCount \in Nat
        /\ isCelebrity \in BOOLEAN /\ reconciliation \in Nat \cup {-1}
        /\ FollowerCountExact /\ CountLatches
    BY DEF CountersIInv, FollowsInv
  <1>4. \A p \in Others(q) : RequestOK(req[p])'
    <2> SUFFICES ASSUME NEW p \in Others(q) PROVE RequestOK(req[p])'
      OBVIOUS
    <2>1. req'[p] = req[p]
      BY <1>2 DEF Finish, Became, Others, CountersIInv, RequestsInv
    <2>2. CreateOK(req[p])' /\ DeleteOK(req[p])' /\ MarkOK(req[p])'
      BY <1>0, <1>2, <2>1 DEF RequestOK, CreateOK, DeleteOK, MarkOK, Counted, Marking, postVars, markVars
    <2>3. FollowOK(req[p])'
      BY <1>0, <1>1, <1>2, <2>1 DEF RequestOK, FollowOK, Apart, Following
    <2> QED
      BY <1>0, <2>1, <2>2, <2>3 DEF RequestOK
  <1>5. followerCount' \in Nat
    BY <1>1, <1>2, <1>3 DEF Recounted, Most
  <1>6. FollowerCountExact'
    <2> SUFFICES ASSUME "followers" \notin misfits PROVE r.seen = Cardinality(new)
      BY <1>2 DEF FollowerCountExact
    <2>1. followerCount = Cardinality(follows)
      BY <1>3 DEF FollowerCountExact
    <2>2. CASE r.op = "follow"
      <3>1. Cardinality(follows \cup {f}) = Cardinality(follows) + 1
        BY <1>1, <1>3, <2>2, FS_AddElement
      <3> QED
        BY <1>1, <2>1, <2>2, <3>1 DEF Recounted
    <2>3. CASE r.op # "follow"
      <3>1. f \in follows
        BY <1>1, <2>3
      <3> HIDE DEF f
      <3>2. Cardinality(follows \ {f}) = Cardinality(follows) - 1 /\ Cardinality(follows) # 0
        BY <1>3, <3>1, FS_RemoveElement, FS_EmptySet
      <3>3. new = follows \ {f}
        BY <2>3
      <3>4. r.seen = Most(followerCount - 1, 0)
        BY <1>1, <2>3 DEF Recounted
      <3> HIDE DEF new, r
      <3> QED
        BY <1>3, <2>1, <3>2, <3>3, <3>4 DEF Most
    <2> QED
      BY <2>2, <2>3
  <1>7. CountLatches' /\ isCelebrity' \in BOOLEAN
    <2>1. r.op # "follow" => r.seen <= followerCount
      BY <1>1, <1>3 DEF Recounted, Most
    <2>2. isCelebrity' <=> (isCelebrity \/ (r.op = "follow" /\ r.seen > Threshold))
      BY <1>2
    <2>3. isCelebrity' \in BOOLEAN
      BY <1>2, Zenon
    <2>4. followerCount > Threshold => isCelebrity
      BY <1>3 DEF CountLatches
    <2>5. followerCount' > Threshold => r.op = "follow" \/ followerCount > Threshold
      BY <1>2, <1>3, <1>5, <2>1, ThresholdAssumption
    <2> HIDE DEF r
    <2>6. followerCount' > Threshold => isCelebrity'
      BY <1>2, <2>2, <2>4, <2>5, Zenon
    <2> QED
      BY <2>3, <2>6 DEF CountLatches
  <1>8. FollowsInv'
    <2>1. new \subseteq Followers /\ IsFiniteSet(new)
      BY <1>1, <1>3, FS_AddElement, FS_RemoveElement
    <2> QED
      BY <1>2, <1>3, <1>5, <1>6, <1>7, <2>1 DEF FollowsInv
  <1>9. PostsInv' /\ MarksInv'
    BY <1>2 DEF CountersIInv, PostsInv, MarksInv, HashtagCountsExact, HasTag, postVars, markVars
  <1> QED
    BY <1>2, <1>4, <1>8, <1>9, RequestEnds DEF CountersIInv

(* The reconciliation writes when no follow is past its UPDATE.             *)
LEMMA ReconciliationStep ==
  ASSUME CountersIInv, BeginReconciliation \/ WriteReconciled
  PROVE  CountersIInv'
  <1>1. RequestsInv'
    <2>1. UNCHANGED <<postVars, markVars, follows, req>>
      BY DEF BeginReconciliation, WriteReconciled, followVars
    <2>2. \A p \in Requests : FollowOK(req[p])'
      BY <2>1 DEF BeginReconciliation, WriteReconciled, HoldsFollowed, CountersIInv, RequestsInv, RequestOK,
                  FollowOK, Following, Recounted, followVars
    <2>3. \A p \in Requests : CreateOK(req[p])' /\ DeleteOK(req[p])' /\ MarkOK(req[p])'
      BY <2>1, PostWorkStays, MarkWorkStays DEF CountersIInv, RequestsInv, RequestOK, postVars, markVars,
         CreateOK, DeleteOK, MarkOK, Counted
    <2> QED
      BY <2>1, <2>2, <2>3 DEF CountersIInv, RequestsInv, RequestOK, Apart
  <1>2. PostsInv' /\ MarksInv'
    <2>1. UNCHANGED <<postVars, markVars>> /\ misfits \cap Tags = misfits' \cap Tags
          /\ misfits' \subseteq misfits \cup {"followers"}
      BY TagsAssumption DEF BeginReconciliation, WriteReconciled
    <2> QED
      BY <2>1 DEF CountersIInv, PostsInv, MarksInv, HashtagCountsExact, HasTag, postVars, markVars
  <1>3. FollowsInv'
    <2>1. CASE BeginReconciliation
      BY <2>1, FS_CardinalityType
         DEF BeginReconciliation, CountersIInv, FollowsInv, followVars, FollowerCountExact, CountLatches
    <2>2. CASE WriteReconciled
      <3>1. follows' = follows /\ followerCount' = reconciliation /\ reconciliation' = -1
            /\ reconciliation \in Nat
        BY <2>2 DEF WriteReconciled, CountersIInv, FollowsInv
      <3>2. isCelebrity' = (isCelebrity \/ reconciliation > Threshold)
        BY <2>2 DEF WriteReconciled
      <3>3. isCelebrity' \in BOOLEAN /\ CountLatches'
        BY <3>1, <3>2, Zenon DEF CountLatches
      <3>4. FollowerCountExact'
        BY <2>2, <3>1 DEF WriteReconciled, FollowerCountExact
      <3> QED
        BY <3>1, <3>3, <3>4 DEF CountersIInv, FollowsInv
    <2> QED
      BY <2>1, <2>2
  <1> QED
    BY <1>1, <1>2, <1>3 DEF CountersIInv

(* A transaction that is rolled back has touched no table.                  *)
LEMMA RolledBack ==
  ASSUME CountersIInv, NEW q \in Requests,
         Fail(q) \/ (\E p \in Requests : BreakDeadlock(q, p))
  PROVE  CountersIInv'
  <1>1. Became(q, Idle) /\ UNCHANGED <<postVars, markVars, followVars, reconciliation, misfits>>
    BY DEF Fail, BreakDeadlock, Finish
  <1>2. \A p \in Others(q) : Apart(Idle, req[p])
    BY IdleIsOK DEF CountersIInv, RequestsInv, RequestOK, Others
  <1> QED
    BY <1>1, <1>2, IdleIsOK, RequestMoves

(* At the start the tables are empty and nothing is being served.           *)
LEMMA CountersInit == Init => CountersIInv
  <1> SUFFICES ASSUME Init PROVE CountersIInv
    OBVIOUS
  <1>1. RequestsInv
    BY IdleIsOK DEF Init, RequestsInv, RequestOK, Others
  <1>2. PostsInv
    <2>1. \A u \in Users : {x \in posts : Author[x] = u} = {}
      BY DEF Init
    <2>2. \A t \in Tags : HasTag(t) = {}
      BY DEF Init, HasTag
    <2> QED
      BY <2>1, <2>2, FS_EmptySet DEF Init, PostsInv, HashtagCountsExact
  <1>3. MarksInv
    <2>1. \A x \in Posts : {m \in marks \cap Likes : On[m] = x} = {} /\ {m \in marks \cap Comments : On[m] = x} = {}
      BY DEF Init
    <2>2. \A x \in Posts : markCount[x].likes = 0 /\ markCount[x].comments = 0
      BY DEF Init
    <2>3. marks = {} /\ spent = {} /\ markCount \in [Posts -> [likes : Nat, comments : Nat]]
      BY DEF Init
    <2> QED
      BY <2>1, <2>2, <2>3, FS_EmptySet DEF MarksInv
  <1>4. FollowsInv
    <2>1. follows = {} /\ followerCount = 0 /\ reconciliation = -1 /\ isCelebrity \in BOOLEAN
      BY DEF Init
    <2>2. CountLatches
      BY <2>1, ThresholdAssumption DEF CountLatches
    <2>3. FollowerCountExact
      BY <2>1, FS_EmptySet DEF FollowerCountExact
    <2> QED
      BY <2>1, <2>2, <2>3, FS_EmptySet DEF FollowsInv
  <1> QED
    BY <1>1, <1>2, <1>3, <1>4 DEF CountersIInv

(* Every step preserves it, also a step of something else.                  *)
LEMMA CountersInductive == CountersIInv /\ [Next]_vars => CountersIInv'
  <1> SUFFICES ASSUME CountersIInv, [Next]_vars PROVE CountersIInv'
    OBVIOUS
  <1>1. ASSUME NEW q \in Requests, Serve(q) PROVE CountersIInv'
    <2>1. CASE InsertTag(q) \/ CountTag(q) \/ WriteTag(q)
      BY <2>1, CreateStep
    <2>2. CASE Cascade(q) \/ UncountPost(q) \/ \E t \in Tags : UncountTag(q, t)
      BY <2>2, DeleteStep
    <2>3. CASE CommitPost(q) \/ CommitDelete(q)
      BY <2>3, CommitPostStep, CommitDeleteStep
    <2>4. CASE CountMark(q) \/ CommitMark(q)
      BY <2>4, MarkStep, CommitMarkStep
    <2>5. CASE CountFollow(q) \/ CommitFollow(q)
      BY <2>5, FollowStep, CommitFollowStep
    <2> QED
      BY <1>1, <2>1, <2>2, <2>3, <2>4, <2>5 DEF Serve
  <1>2. ASSUME NEW q \in Requests, Fail(q) \/ (\E p \in Requests : BreakDeadlock(q, p)) PROVE CountersIInv'
    BY <1>2, RolledBack
  <1>3. ASSUME NEW q \in Requests, NEW x \in Posts, BeginPost(q, x) \/ LockPost(q, x) PROVE CountersIInv'
    BY <1>3, CreateStep, DeleteStep
  <1>4. ASSUME NEW q \in Requests, NEW m \in Marks,
               LikePost(q, m) \/ UnlikePost(q, m) \/ CreateComment(q, m) \/ DeleteComment(q, m)
        PROVE  CountersIInv'
    <2>1. InsertMark(q, m) \/ RemoveMark(q, m)
      BY <1>4 DEF LikePost, UnlikePost, CreateComment, DeleteComment
    <2> QED
      BY <2>1, MarkStep
  <1>5. ASSUME NEW q \in Requests, NEW f \in Followers, InsertFollow(q, f) \/ RemoveFollow(q, f)
        PROVE  CountersIInv'
    BY <1>5, FollowStep
  <1>6. CASE BeginReconciliation \/ WriteReconciled
    BY <1>6, ReconciliationStep
  <1>7. CASE UNCHANGED vars
    <2>1. UNCHANGED <<postVars, markVars, followVars, reconciliation, req, misfits>>
      BY <1>7 DEF vars
    <2>2. PostsInv' /\ MarksInv' /\ FollowsInv'
      BY <2>1 DEF CountersIInv, PostsInv, MarksInv, FollowsInv, HashtagCountsExact, HasTag,
             FollowerCountExact, CountLatches, postVars, markVars, followVars
    <2>3. \A s : RequestOK(s) => RequestOK(s)'
      BY <2>1, PostWorkStays, MarkWorkStays, FollowWorkStays DEF RequestOK, postVars, markVars, followVars
    <2>4. RequestsInv'
      BY <2>1, <2>3 DEF CountersIInv, RequestsInv, RequestOK, Apart
    <2> QED
      BY <2>2, <2>4 DEF CountersIInv
  <1> QED
    BY <1>1, <1>2, <1>3, <1>4, <1>5, <1>6, <1>7 DEF Next

(* Whatever requests run together: what the tables, the counters and the    *)
(* locks of the requests under way have to do with each other.              *)
THEOREM CountersInvariant == Spec => []CountersIInv
  BY CountersInit, CountersInductive, PTL DEF Spec

(* The counters of posts, comments, users and hashtags are the numbers of   *)
(* the rows they stand for, but for a hashtag that CreatePost recounted, or *)
(* followers that the reconciliation recounted, behind another commit.      *)
THEOREM CountsAreExact == Spec => []CountersInv
  <1>1. CountersIInv => CountersInv
    BY DEF CountersIInv, RequestsInv, PostsInv, MarksInv, FollowsInv, CountersInv, TypeOK, RowCountsExact
  <1> QED
    BY <1>1, CountersInvariant, PTL

(* A user with more followers than the threshold is a celebrity, whichever  *)
(* of FollowUser and the reconciliation stored the number.                  *)
THEOREM LatchHolds == Spec => []CountLatches
  <1>1. CountersIInv => CountLatches
    BY DEF CountersIInv, FollowsInv
  <1> QED
    BY <1>1, CountersInvariant, PTL

(* Two transactions can only wait for each other over hashtags, or when one *)
(* deletes a post and the other takes a mark off it.                        *)
THEOREM DeadlocksAreKnown == Spec => []KnownDeadlocks
  <1>1. CountersIInv => KnownDeadlocks
    <2> SUFFICES ASSUME CountersIInv, NEW q \in Requests, NEW p \in Requests, q # p, WaitsFor(q, p), WaitsFor(p, q)
                 PROVE  (WaitsForTag(q, p) /\ WaitsForTag(p, q)) \/ {req[q].op, req[p].op} = {"delete", "unmark"}
      BY DEF KnownDeadlocks
    <2>0. RequestOK(req[q]) /\ RequestOK(req[p]) /\ Apart(req[q], req[p]) /\ Apart(req[p], req[q])
      BY DEF CountersIInv, RequestsInv, Others
    <2>1. ASSUME NEW r \in Requests, NEW s \in Requests, RequestOK(req[s]), WaitsForTag(r, s)
          PROVE  ~WaitsForAuthor(s, r) /\ ~WaitsForMark(s, r) /\ ~WaitsForPost(s, r)
      <3>1. DOMAIN req[s].wrote # {}
        BY <2>1 DEF WaitsForTag, HoldsTag
      <3>2. /\ req[s].op \in {"create", "delete"}
            /\ req[s].op = "delete" => req[s].at \notin {"cascade", "author"}
        BY <2>1, <3>1 DEF RequestOK, DeleteOK
      <3> QED
        BY <3>2 DEF WaitsForAuthor, WaitsForMark, WaitsForPost, At
    <2>2. ASSUME NEW r \in Requests, NEW s \in Requests, WaitsForAuthor(r, s)
          PROVE  ~WaitsForAuthor(s, r) /\ ~WaitsForMark(s, r) /\ ~WaitsForPost(s, r)
      BY <2>2 DEF WaitsForAuthor, WaitsForMark, WaitsForPost, HoldsAuthor, At
    <2>3. ASSUME NEW r \in Requests, NEW s \in Requests, WaitsForMark(r, s)
          PROVE  ~WaitsForMark(s, r)
      BY <2>3 DEF WaitsForMark, HoldsMark, At
    <2>4. ASSUME NEW r \in Requests, NEW s \in Requests, WaitsForMark(r, s), WaitsForPost(s, r),
                 Apart(req[r], req[s])
          PROVE  req[r].op = "delete" /\ req[s].op = "unmark"
      BY <2>4 DEF WaitsForMark, WaitsForPost, HoldsPost, At, Apart, Marking
    <2>5. ASSUME NEW r \in Requests, NEW s \in Requests, WaitsForPost(r, s)
          PROVE  ~WaitsForPost(s, r)
      BY <2>5 DEF WaitsForPost, HoldsPost
    <2> QED
      BY <2>0, <2>1, <2>2, <2>3, <2>4, <2>5 DEF WaitsFor
  <1> QED
    BY <1>1, CountersInvariant, PTL
=============================================================================
