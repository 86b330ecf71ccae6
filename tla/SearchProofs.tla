---------------------------- MODULE SearchProofs ----------------------------
(***************************************************************************)
(* What is proved of searches and lists.                                   *)
(*                                                                         *)
(* The history of searches stays bounded, for any number of searches that  *)
(* are recorded at the same time and any limit.  A table that is listed by *)
(* pages is listed in order and without gaps, for any number of rows and   *)
(* any page sizes, while rows come and go.  The pages of a search show a   *)
(* beginning of its hits, each once, and leave none out in the end, for    *)
(* any numbers of hits and any limits; and every page moves on.            *)
(***************************************************************************)
EXTENDS Search, FiniteSetTheorems, FunctionTheorems, TLAPS

Writing(p) == p.at \in {"write", "commit"}
Stamped(p) == p.at \in {"lock", "write", "commit"}
Pending(p) == p.at \notin {"unsent", "over"}

Post == [at : {"unsent", "sent", "lock", "write", "commit", "over"},
         reference : References \cup {NoReference}, created : Nat, doomed : SUBSET References]

RecentTyped ==
  /\ recent \in [References -> Nat] /\ clock \in Nat
  /\ post \in [Submits -> Post]
  /\ \A k \in Submits : Pending(post[k]) => post[k].reference \in References

(* The user's row has one holder; transactions began at different times,    *)
(* and no row has the time of one that is under way.                       *)
OneWriter == \A j, k \in Submits : Writing(post[j]) /\ Writing(post[k]) => j = k
TimesDiffer ==
  /\ \A r \in References : recent[r] <= clock
  /\ \A r, n \in Rows(recent) : recent[r] = recent[n] => r = n
  /\ \A k \in Submits : Stamped(post[k]) =>
       /\ post[k].created \in 1..clock
       /\ \A r \in References : recent[r] # post[k].created
       /\ \A j \in Submits : Stamped(post[j]) /\ post[j].created = post[k].created => j = k

(* What a transaction that is about to commit leaves of the table is within *)
(* the limit, whatever else is deleted meanwhile.                          *)
Kept(p) == (Rows(recent) \cup {p.reference}) \ p.doomed
FewRows ==
  /\ IsFiniteSet(Rows(recent)) /\ Cardinality(Rows(recent)) <= RecentLimit
  /\ \A k \in Submits : post[k].at = "commit" => Cardinality(Kept(post[k])) <= RecentLimit

PostBecomes(k, p) == post' = [post EXCEPT ![k] = p]

RecentIInv == RecentTyped /\ OneWriter /\ TimesDiffer /\ FewRows

-----------------------------------------------------------------------------
(* The empty history, before anything was recorded. *)
LEMMA RecentInitial == RecentInit => RecentIInv
  <1> SUFFICES ASSUME RecentInit PROVE RecentIInv
    OBVIOUS
  <1>1. RecentTyped
    BY DEF RecentInit, RecentTyped, Post, Unsent, Pending
  <1>2. \A k \in Submits : post[k].at = "unsent"
    BY DEF RecentInit, Unsent
  <1>3. OneWriter /\ TimesDiffer
    BY <1>2 DEF RecentInit, OneWriter, TimesDiffer, Writing, Stamped, Rows
  <1>4. Rows(recent) = {}
    BY DEF RecentInit, Rows
  <1>5. FewRows
    BY <1>2, <1>4, FS_EmptySet, RecentAssumption DEF FewRows
  <1> QED
    BY <1>1, <1>3, <1>5 DEF RecentIInv

(* A recording moves on without touching the table.                         *)
LEMMA PostMoves ==
  ASSUME RecentIInv, NEW k \in Submits, NEW p \in Post, PostBecomes(k, p),
         UNCHANGED recent, clock' \in {clock, clock + 1},
         Pending(p) => p.reference \in References,
         Writing(p) => \A j \in Submits \ {k} : ~Writing(post[j]),
         Stamped(p) => \/ Stamped(post[k]) /\ p.created = post[k].created
                       \/ p.created = clock + 1 /\ clock' = clock + 1,
         p.at = "commit" => Cardinality(Kept(p)) <= RecentLimit
  PROVE  RecentIInv'
  <1>1. \A j \in Submits : post'[j] = IF j = k THEN p ELSE post[j]
    BY DEF RecentIInv, RecentTyped, PostBecomes
  <1>2. RecentTyped'
    BY <1>1 DEF RecentIInv, RecentTyped, PostBecomes
  <1>3. OneWriter'
    BY <1>1 DEF RecentIInv, OneWriter
  <1>4. TimesDiffer'
    <2>1. \A r \in References : recent'[r] <= clock' /\ recent[r] \in Nat /\ recent[r] <= clock
      BY DEF RecentIInv, RecentTyped, TimesDiffer
    <2>2. \A r, n \in Rows(recent)' : recent'[r] = recent'[n] => r = n
      BY DEF RecentIInv, TimesDiffer, Rows
    <2>3. \A j \in Submits : Stamped(post'[j]) =>
            /\ post'[j].created \in 1..clock'
            /\ \A r \in References : recent'[r] # post'[j].created
      BY <1>1, <2>1 DEF RecentIInv, RecentTyped, TimesDiffer
    <2>4. \A i, j \in Submits :
            Stamped(post'[i]) /\ Stamped(post'[j]) /\ post'[i].created = post'[j].created => i = j
      BY <1>1 DEF RecentIInv, RecentTyped, TimesDiffer
    <2> QED
      BY <2>1, <2>2, <2>3, <2>4 DEF TimesDiffer
  <1>5. FewRows'
    <2>1. \A j \in Submits : post'[j].at = "commit" => Cardinality(Kept(post'[j])) <= RecentLimit
      BY <1>1 DEF RecentIInv, FewRows
    <2>2. \A j \in Submits : Kept(post[j])' = Kept(post'[j])
      BY DEF Kept, Rows
    <2> QED
      BY <2>1, <2>2 DEF RecentIInv, FewRows, Rows
  <1> QED
    BY <1>2, <1>3, <1>4, <1>5 DEF RecentIInv

(* A DELETE that is not part of a recording.                                *)
LEMMA RowsDeleted ==
  ASSUME RecentIInv, UNCHANGED <<clock, post>>, recent' \in [References -> Nat],
         \A r \in References : recent'[r] \in {0, recent[r]}
  PROVE  RecentIInv'
  <1>1. Rows(recent') \subseteq Rows(recent)
    BY DEF Rows
  <1>2. RecentTyped' /\ OneWriter'
    BY DEF RecentIInv, RecentTyped, OneWriter
  <1>3. TimesDiffer'
    <2>1. \A r \in References : recent'[r] <= clock
      BY DEF RecentIInv, RecentTyped, TimesDiffer
    <2>2. \A r, n \in Rows(recent') : recent'[r] = recent'[n] => r = n
      BY <1>1 DEF RecentIInv, TimesDiffer, Rows
    <2>3. \A k \in Submits, r \in References : Stamped(post[k]) => recent'[r] # post[k].created
      BY DEF RecentIInv, RecentTyped, TimesDiffer
    <2> QED
      BY <2>1, <2>2, <2>3 DEF RecentIInv, TimesDiffer
  <1>4. IsFiniteSet(Rows(recent')) /\ Cardinality(Rows(recent')) <= Cardinality(Rows(recent))
        /\ Cardinality(Rows(recent')) \in Nat /\ Cardinality(Rows(recent)) \in Nat
    BY <1>1, FS_Subset, FS_CardinalityType DEF RecentIInv, FewRows
  <1>5. ASSUME NEW k \in Submits, post[k].at = "commit"
        PROVE  Cardinality((Rows(recent') \cup {post[k].reference}) \ post[k].doomed) <= RecentLimit
    <2> DEFINE after == (Rows(recent') \cup {post[k].reference}) \ post[k].doomed
    <2>1. after \in SUBSET Kept(post[k])
      BY <1>1 DEF Kept
    <2>2. IsFiniteSet(Rows(recent) \cup {post[k].reference})
      BY FS_AddElement DEF RecentIInv, FewRows
    <2>3. IsFiniteSet(Kept(post[k]))
      BY <2>2, FS_Subset DEF Kept
    <2> HIDE DEF after
    <2>4. IsFiniteSet(after) /\ Cardinality(after) <= Cardinality(Kept(post[k]))
      BY <2>1, <2>3, FS_Subset
    <2>5. Cardinality(after) \in Nat /\ Cardinality(Kept(post[k])) \in Nat
      BY <2>3, <2>4, FS_CardinalityType
    <2>6. Cardinality(Kept(post[k])) <= RecentLimit
      BY <1>5 DEF RecentIInv, FewRows
    <2>7. Cardinality(after) <= RecentLimit
      BY <2>4, <2>5, <2>6, RecentAssumption
    <2> QED
      BY <2>7 DEF after
  <1>6. FewRows'
    <2>1. \A k \in Submits : post'[k].at = "commit" => Cardinality(Kept(post[k])') <= RecentLimit
      BY <1>5 DEF Kept
    <2>2. Cardinality(Rows(recent')) <= RecentLimit
      BY <1>4, RecentAssumption DEF RecentIInv, FewRows
    <2> QED
      BY <1>4, <2>1, <2>2 DEF FewRows
  <1> QED
    BY <1>2, <1>3, <1>6 DEF RecentIInv

-----------------------------------------------------------------------------
(* ORDER BY time DESC LIMIT limit: what RecordRecentSearch leaves.           *)
Latest(S, time, limit) ==
  {r \in S : ~(Cardinality({n \in S : time[n] > time[r]}) >= limit)}

(* Rows of which no two have the same time: at most limit of them have      *)
(* fewer than limit newer ones.                                             *)
LEMMA FewAreLatest ==
  ASSUME NEW S, IsFiniteSet(S), NEW time, \A r \in S : time[r] \in Nat, NEW limit \in Nat,
         \A r, n \in S : time[r] = time[n] => r = n
  PROVE  Cardinality(Latest(S, time, limit)) <= limit
  <1> DEFINE newer(r) == {n \in S : time[n] > time[r]}
             rank == [r \in Latest(S, time, limit) |-> Cardinality(newer(r))]
  <1>1. \A r \in S : IsFiniteSet(newer(r)) /\ Cardinality(newer(r)) \in Nat
    <2> TAKE r \in S
    <2>1. newer(r) \subseteq S
      OBVIOUS
    <2> QED
      BY <2>1, FS_Subset, FS_CardinalityType
  <1>2. \A r, n \in S : time[n] > time[r] => Cardinality(newer(n)) < Cardinality(newer(r))
    <2> SUFFICES ASSUME NEW r \in S, NEW n \in S, time[n] > time[r]
                 PROVE  Cardinality(newer(n)) < Cardinality(newer(r))
      OBVIOUS
    <2>1. newer(n) \cup {n} \in SUBSET newer(r) /\ n \notin newer(n)
      OBVIOUS
    <2> HIDE DEF newer
    <2>2. Cardinality(newer(n) \cup {n}) = Cardinality(newer(n)) + 1
      BY <1>1, <2>1, FS_AddElement
    <2>3. Cardinality(newer(n) \cup {n}) <= Cardinality(newer(r))
      BY <1>1, <2>1, FS_Subset
    <2> QED
      BY <1>1, <2>2, <2>3
  <1>3. rank \in [Latest(S, time, limit) -> 0..(limit - 1)]
    BY <1>1 DEF Latest
  <1>4. ASSUME NEW r \in Latest(S, time, limit), NEW n \in Latest(S, time, limit), rank[r] = rank[n]
        PROVE  r = n
    <2>1. r \in S /\ n \in S
      BY DEF Latest
    <2>2. Cardinality(newer(r)) = Cardinality(newer(n))
      BY <1>4
    <2> HIDE DEF newer, rank
    <2>3. ~(time[n] > time[r]) /\ ~(time[r] > time[n])
      BY <1>1, <1>2, <2>1, <2>2
    <2> QED
      BY <2>1, <2>3
  <1>5. rank \in Injection(Latest(S, time, limit), 0..(limit - 1))
    BY <1>3, <1>4 DEF Injection, IsInjective
  <1>6. IsFiniteSet(0..(limit - 1)) /\ Cardinality(0..(limit - 1)) = limit
    <2>1. 0 \in Int /\ limit - 1 \in Int
      OBVIOUS
    <2>2. /\ IsFiniteSet(0..(limit - 1))
          /\ Cardinality(0..(limit - 1)) = IF 0 > limit - 1 THEN 0 ELSE (limit - 1) - 0 + 1
      BY <2>1, FS_Interval
    <2> QED
      BY <2>2
  <1> HIDE DEF newer, rank
  <1> QED
    BY <1>5, <1>6, FS_Injection

(* The upsert's own row and the rows it sees, but for those it trims.       *)
LEMMA TrimKeepsFew ==
  ASSUME RecentIInv, NEW k \in Submits, post[k].at = "write",
         NEW seen, seen = [recent EXCEPT ![post[k].reference] = post[k].created],
         NEW doomed,
         doomed = {r \in Rows(seen) :
                     Cardinality({n \in Rows(seen) : seen[n] > seen[r]}) >= RecentLimit}
  PROVE  /\ doomed \subseteq References
         /\ Cardinality((Rows(recent) \cup {post[k].reference}) \ doomed) <= RecentLimit
  <1> DEFINE ref == post[k].reference
  <1>1. ref \in References /\ post[k].created \in Nat /\ post[k].created # 0
    BY DEF RecentIInv, RecentTyped, TimesDiffer, Pending, Stamped, Post
  <1>2. /\ seen \in [References -> Nat]
        /\ \A r \in References : seen[r] = IF r = ref THEN post[k].created ELSE recent[r]
    BY <1>1 DEF RecentIInv, RecentTyped
  <1>3. Rows(seen) = Rows(recent) \cup {ref}
    BY <1>1, <1>2 DEF Rows
  <1>4. IsFiniteSet(Rows(seen))
    BY <1>3, FS_AddElement DEF RecentIInv, FewRows
  <1>5. \A r, n \in Rows(seen) : seen[r] = seen[n] => r = n
    <2>1. \A r \in References : recent[r] # post[k].created
      BY DEF RecentIInv, TimesDiffer, Stamped
    <2> QED
      BY <1>2, <1>3, <2>1 DEF RecentIInv, TimesDiffer, Rows
  <1>6. \A r \in Rows(seen) : seen[r] \in Nat
    BY <1>2 DEF Rows
  <1>7. RecentLimit \in Nat
    BY RecentAssumption
  <1>8. Cardinality(Latest(Rows(seen), seen, RecentLimit)) <= RecentLimit
    BY ONLY <1>4, <1>5, <1>6, <1>7, FewAreLatest
  <1>9. (Rows(recent) \cup {ref}) \ doomed = Latest(Rows(seen), seen, RecentLimit)
    BY <1>3 DEF Latest
  <1> QED
    BY <1>8, <1>9 DEF Rows

(* Recording a search. *)
LEMMA RecordStep ==
  ASSUME RecentIInv, NEW k \in Submits
  PROVE  /\ Begin(k) => RecentIInv'
         /\ LockOwner(k) => RecentIInv'
         /\ UpsertAndTrim(k) => RecentIInv'
         /\ CommitRecent(k) => RecentIInv'
         /\ RecordFails(k) => RecentIInv'
  <1>0. /\ post[k] \in Post /\ post \in [Submits -> Post] /\ clock \in Nat
        /\ Pending(post[k]) => post[k].reference \in References
    BY DEF RecentIInv, RecentTyped
  <1>1. ASSUME Begin(k) PROVE RecentIInv'
    <2> DEFINE p == [post[k] EXCEPT !.at = "lock", !.created = clock + 1]
    <2>1. PostBecomes(k, p) /\ clock' = clock + 1 /\ UNCHANGED recent
      BY <1>0, <1>1 DEF Begin, Post, PostBecomes
    <2>2. /\ p \in Post /\ p.at = "lock" /\ p.created = clock + 1
          /\ p.reference = post[k].reference
      <3>1. clock + 1 \in Nat
        BY <1>0
      <3> QED
        BY <1>0, <3>1 DEF Post
    <2>3. p.reference \in References /\ ~Writing(p)
      BY <1>0, <1>1, <2>2 DEF Begin, Writing, Pending
    <2> HIDE DEF p
    <2> QED
      BY <1>0, <2>1, <2>2, <2>3, PostMoves
  <1>2. ASSUME LockOwner(k) PROVE RecentIInv'
    <2> DEFINE p == [post[k] EXCEPT !.at = "write"]
    <2>1. /\ PostBecomes(k, p) /\ UNCHANGED <<recent, clock>>
          /\ \A j \in Submits : ~Writing(post[j])
      BY <1>0, <1>2 DEF LockOwner, Writing, Post, PostBecomes
    <2>2. /\ p \in Post /\ p.reference \in References /\ p.at # "commit"
          /\ Stamped(post[k]) /\ p.created = post[k].created
      BY <1>0, <1>2 DEF LockOwner, Post, Stamped, Pending
    <2> HIDE DEF p
    <2> QED
      BY <1>0, <2>1, <2>2, PostMoves
  <1>3. ASSUME UpsertAndTrim(k) PROVE RecentIInv'
    <2> DEFINE seen == [recent EXCEPT ![post[k].reference] = post[k].created]
               doomed == {r \in Rows(seen) :
                            Cardinality({n \in Rows(seen) : seen[n] > seen[r]}) >= RecentLimit}
               p == [post[k] EXCEPT !.at = "commit", !.doomed = doomed]
    <2>1. post[k].at = "write" /\ PostBecomes(k, p) /\ UNCHANGED <<recent, clock>>
      BY <1>0, <1>3 DEF UpsertAndTrim, Post, PostBecomes
    <2>2. doomed \subseteq References /\ Cardinality((Rows(recent) \cup {post[k].reference}) \ doomed) <= RecentLimit
      BY <2>1, TrimKeepsFew
    <2> HIDE DEF doomed
    <2>3. /\ p \in Post /\ p.reference = post[k].reference /\ p.reference \in References
          /\ p.doomed = doomed /\ Stamped(post[k]) /\ p.created = post[k].created
      BY <1>0, <2>1, <2>2 DEF Post, Stamped, Pending
    <2>4. \A j \in Submits \ {k} : ~Writing(post[j])
      BY <2>1 DEF RecentIInv, OneWriter, Writing
    <2> HIDE DEF p
    <2>5. Cardinality(Kept(p)) <= RecentLimit
      BY <2>2, <2>3 DEF Kept
    <2> QED
      BY <1>0, <2>1, <2>3, <2>4, <2>5, PostMoves
  <1>4. ASSUME CommitRecent(k) PROVE RecentIInv'
    <2> DEFINE p == post[k]
    <2>1. /\ p.at = "commit" /\ clock' = clock /\ post' = [post EXCEPT ![k] = Over]
          /\ recent' = [r \in References |->
                          IF r \in p.doomed THEN 0 ELSE IF r = p.reference THEN p.created ELSE recent[r]]
      BY <1>4 DEF CommitRecent
    <2>2. p \in Post /\ p.reference \in References /\ p.created \in 1..clock
      BY <1>0, <2>1 DEF Pending, RecentIInv, TimesDiffer, Stamped
    <2>3. /\ \A r \in References : recent[r] \in Nat /\ recent[r] <= clock /\ recent[r] # p.created
          /\ \A j \in Submits : Stamped(post[j]) /\ post[j].created = p.created => j = k
      BY <2>1 DEF RecentIInv, RecentTyped, TimesDiffer, Stamped
    <2>4. \A j \in Submits : post'[j] = IF j = k THEN Over ELSE post[j]
      BY <1>0, <2>1
    <2>5. Over \in Post /\ ~Writing(Over) /\ ~Stamped(Over) /\ ~Pending(Over) /\ Over.at # "commit"
      BY DEF Over, Unsent, Post, Writing, Stamped, Pending
    <2>6. Rows(recent') = Kept(p)
      BY <2>1, <2>2 DEF Rows, Kept
    <2>7. RecentTyped'
      <3>1. recent' \in [References -> Nat]
        BY <2>1, <2>2, <2>3
      <3> QED
        BY <1>0, <2>1, <2>4, <2>5, <3>1 DEF RecentIInv, RecentTyped
    <2>8. OneWriter'
      BY <2>4, <2>5 DEF RecentIInv, OneWriter
    <2>9. TimesDiffer'
      <3>1. \A r \in References : recent'[r] \in {0, p.created, recent[r]}
        BY <2>1
      <3>2. \A r \in References : recent'[r] <= clock'
        BY <1>0, <2>1, <2>2, <2>3, <3>1
      <3>3. \A r, n \in Rows(recent') : recent'[r] = recent'[n] => r = n
        BY <2>1, <2>3 DEF Rows, RecentIInv, TimesDiffer
      <3>4. \A j \in Submits : Stamped(post'[j]) => j # k /\ Stamped(post[j]) /\ post'[j] = post[j]
        BY <2>4, <2>5
      <3>5. \A j \in Submits : Stamped(post'[j]) =>
              /\ post'[j].created \in 1..clock
              /\ \A r \in References : recent'[r] # post'[j].created
        BY <2>3, <3>1, <3>4 DEF RecentIInv, TimesDiffer
      <3>6. \A i, j \in Submits :
              Stamped(post'[i]) /\ Stamped(post'[j]) /\ post'[i].created = post'[j].created => i = j
        BY <3>4 DEF RecentIInv, TimesDiffer
      <3> QED
        BY <2>1, <3>2, <3>3, <3>5, <3>6 DEF TimesDiffer
    <2>10. FewRows'
      <3>1. IsFiniteSet(Rows(recent) \cup {p.reference})
        BY FS_AddElement DEF RecentIInv, FewRows
      <3>2. IsFiniteSet(Kept(p)) /\ Cardinality(Kept(p)) <= RecentLimit
        BY <2>1, <3>1, FS_Subset DEF RecentIInv, FewRows, Kept
      <3>3. \A j \in Submits : post'[j].at # "commit"
        BY <2>1, <2>4, <2>5 DEF RecentIInv, OneWriter, Writing
      <3> QED
        BY <2>6, <3>2, <3>3 DEF FewRows
    <2> QED
      BY <2>7, <2>8, <2>9, <2>10 DEF RecentIInv
  <1>5. ASSUME RecordFails(k) PROVE RecentIInv'
    <2>1. Over \in Post /\ ~Writing(Over) /\ ~Stamped(Over) /\ ~Pending(Over) /\ Over.at # "commit"
      BY DEF Over, Unsent, Post, Writing, Stamped, Pending
    <2> QED
      BY <1>0, <1>5, <2>1, PostMoves DEF RecordFails, PostBecomes
  <1> QED
    BY <1>1, <1>2, <1>3, <1>4, <1>5

(* A search is submitted. *)
LEMMA SendStep ==
  ASSUME RecentIInv, NEW r \in References, Send(r)
  PROVE  RecentIInv'
  <1>1. PICK k \in Submits : /\ post[k].at = "unsent"
                             /\ post' = [post EXCEPT ![k].at = "sent", ![k].reference = r]
                             /\ UNCHANGED <<recent, clock>>
    BY DEF Send
  <1> DEFINE p == [post[k] EXCEPT !.at = "sent", !.reference = r]
  <1>2. post \in [Submits -> Post] /\ clock \in Nat
    BY DEF RecentIInv, RecentTyped
  <1>3. PostBecomes(k, p)
    BY <1>1, <1>2 DEF Post, PostBecomes
  <1>4. p \in Post /\ p.reference \in References /\ ~Writing(p) /\ ~Stamped(p) /\ p.at # "commit"
    BY <1>2 DEF Post, Writing, Stamped
  <1> HIDE DEF p
  <1> QED
    BY <1>1, <1>2, <1>3, <1>4, PostMoves

(* Every step of searches, pages and their recording keeps the invariant of recent searches. *)
LEMMA RecentInductive == RecentIInv /\ [Next]_searchVars => RecentIInv'
  <1> SUFFICES ASSUME RecentIInv, [Next]_searchVars PROVE RecentIInv'
    OBVIOUS
  <1>1. ASSUME UNCHANGED recentVars PROVE RecentIInv'
    <2>1. recent' \in [References -> Nat] /\ \A r \in References : recent'[r] \in {0, recent[r]}
      BY <1>1 DEF recentVars, RecentIInv, RecentTyped
    <2> QED
      BY <1>1, <2>1, RowsDeleted DEF recentVars
  <1>2. CASE \E q \in Queries : Submit(q)
    BY <1>2, SendStep, SearchesAssumption DEF Submit
  <1>3. CASE \E k \in Submits : Begin(k) \/ LockOwner(k) \/ UpsertAndTrim(k) \/ CommitRecent(k) \/ RecordFails(k)
    BY <1>3, RecordStep
  <1>4. ASSUME NEW r \in References, DeleteRecent(r) PROVE RecentIInv'
    <2>1. recent' = [recent EXCEPT ![r] = 0] /\ UNCHANGED <<clock, post>>
      BY <1>4 DEF DeleteRecent
    <2>2. recent' \in [References -> Nat] /\ \A n \in References : recent'[n] \in {0, recent[n]}
      BY <2>1 DEF RecentIInv, RecentTyped
    <2> QED
      BY <2>1, <2>2, RowsDeleted
  <1>5. CASE ClearRecent
    <2>1. recent' = [r \in References |-> 0] /\ UNCHANGED <<clock, post>>
      BY <1>5 DEF ClearRecent
    <2> QED
      BY <2>1, RowsDeleted
  <1> QED
    BY <1>1, <1>2, <1>3, <1>4, <1>5 DEF Next, RecentNext, Invalidate, searchVars

-----------------------------------------------------------------------------
(* One transaction at a time writes, its time is its own, and what it is    *)
(* going to leave is within the limit.                                     *)
THEOREM RecentInvariant == Spec => []RecentIInv
  <1>1. Init => RecentInit
    BY DEF Init
  <1> QED
    BY <1>1, RecentInitial, RecentInductive, PTL DEF Spec

(* Types.  A transaction begins once for each search that was sent, so that  *)
(* the clock stays within their number.                                     *)
Begun == {k \in Submits : post[k].at \notin {"unsent", "sent"}}
RecentTypes == RecentTypeOK /\ clock <= Cardinality(Begun)

(* No more transactions begin than searches are submitted.                  *)
LEMMA BegunAreCounted ==
  IsFiniteSet(Begun) /\ Cardinality(Begun) \in 0..MaxSubmits
  <1>1. Begun \in SUBSET Submits /\ IsFiniteSet(Submits) /\ Cardinality(Submits) = MaxSubmits
    BY FS_Interval, RecentAssumption DEF Begun, Submits
  <1>2. IsFiniteSet(Begun) /\ Cardinality(Begun) <= Cardinality(Submits) /\ Cardinality(Begun) \in Nat
    BY <1>1, FS_Subset, FS_CardinalityType
  <1> QED
    BY <1>1, <1>2, RecentAssumption

PostUpTo(n) ==
  [at : {"unsent", "sent", "lock", "write", "commit", "over"},
   reference : References \cup {NoReference}, created : 0..n, doomed : SUBSET References]

(* A transaction that goes on, or one that begins and advances the clock,   *)
(* keeps the types.                                                         *)
LEMMA PostTyped ==
  ASSUME RecentTypes, NEW k \in Submits, NEW p, PostBecomes(k, p), p \in PostUpTo(clock'),
         recent' \in [References -> 0..clock'],
         \/ clock' = clock /\ (k \in Begun => p.at \notin {"unsent", "sent"})
         \/ clock' = clock + 1 /\ k \notin Begun /\ p.at \notin {"unsent", "sent"}
  PROVE  RecentTypes'
  <1>1. /\ post \in [Submits -> PostUpTo(clock)] /\ clock \in Nat /\ clock <= Cardinality(Begun)
        /\ clock' \in Nat /\ clock <= clock' /\ \A n \in 0..clock : n \in 0..clock'
    BY DEF RecentTypes, RecentTypeOK, PostUpTo
  <1>2. post' \in [Submits -> PostUpTo(clock')]
    <2>1. PostUpTo(clock) \subseteq PostUpTo(clock')
      BY <1>1 DEF PostUpTo
    <2> QED
      BY <1>1, <2>1 DEF PostBecomes
  <1>3. \A j \in Submits : post'[j] = IF j = k THEN p ELSE post[j]
    BY <1>1 DEF PostBecomes
  <1>4. clock' <= Cardinality(Begun')
    <2>1. Begun \subseteq Begun'
      BY <1>3 DEF Begun
    <2>2. IsFiniteSet(Begun') /\ Cardinality(Begun') \in Nat /\ IsFiniteSet(Begun) /\ Cardinality(Begun) \in Nat
      <3>1. PICK later : later = Begun'
        OBVIOUS
      <3>2. later \subseteq Submits /\ IsFiniteSet(Submits)
        BY <3>1, FS_Interval, RecentAssumption DEF Begun, Submits
      <3>3. IsFiniteSet(later) /\ Cardinality(later) \in Nat
        BY <3>2, FS_Subset, FS_CardinalityType
      <3> QED
        BY <3>1, <3>3, BegunAreCounted
    <2>3. CASE clock' = clock
      BY <1>1, <2>1, <2>2, <2>3, FS_Subset
    <2>4. CASE clock' # clock
      <3>1. k \in Begun' /\ k \notin Begun /\ clock' = clock + 1
        BY <1>3, <2>4 DEF Begun
      <3>2. Cardinality(Begun) <= Cardinality(Begun') /\ Cardinality(Begun) # Cardinality(Begun')
        BY <2>1, <2>2, <3>1, FS_Subset
      <3> QED
        BY <1>1, <2>2, <3>1, <3>2
    <2> QED
      BY <2>3, <2>4
  <1>5. clock' \in 0..MaxSubmits
    <2>1. PICK later : later = Begun'
      OBVIOUS
    <2>2. later \subseteq Submits /\ IsFiniteSet(Submits) /\ Cardinality(Submits) = MaxSubmits
      BY <2>1, FS_Interval, RecentAssumption DEF Begun, Submits
    <2>3. Cardinality(later) <= MaxSubmits /\ Cardinality(later) \in Nat
      BY <2>2, FS_Subset, FS_CardinalityType
    <2> QED
      BY <1>1, <1>4, <2>1, <2>3, RecentAssumption
  <1> QED
    BY <1>2, <1>4, <1>5 DEF RecentTypes, RecentTypeOK, PostUpTo

(* Every step keeps the types: only the beginning of a transaction advances *)
(* the clock.                                                               *)
LEMMA RecentTypesStep == RecentTypes /\ [Next]_searchVars => RecentTypes'
  <1> SUFFICES ASSUME RecentTypes, [Next]_searchVars PROVE RecentTypes'
    OBVIOUS
  <1>1. /\ post \in [Submits -> PostUpTo(clock)] /\ recent \in [References -> 0..clock] /\ clock \in Nat
        /\ NoReference \notin References
    BY RecentAssumption DEF RecentTypes, RecentTypeOK, PostUpTo
  <1>2. ASSUME UNCHANGED <<clock, post>>, recent' \in [References -> 0..clock] PROVE RecentTypes'
    BY <1>2 DEF RecentTypes, RecentTypeOK, Begun
  <1>3. CASE UNCHANGED recentVars
    BY <1>1, <1>2, <1>3 DEF recentVars
  <1>4. ASSUME NEW k \in Submits, NEW p, PostBecomes(k, p), p \in PostUpTo(clock), UNCHANGED clock,
               recent' \in [References -> 0..clock], k \in Begun => p.at \notin {"unsent", "sent"}
        PROVE  RecentTypes'
    BY <1>4, PostTyped
  <1>5. ASSUME NEW q \in Queries, Submit(q) PROVE RecentTypes'
    <2>1. q \in References /\ Send(q)
      BY <1>5, SearchesAssumption DEF Submit
    <2>2. PICK k \in Submits : /\ post[k].at = "unsent"
                               /\ post' = [post EXCEPT ![k].at = "sent", ![k].reference = q]
                               /\ UNCHANGED <<recent, clock>>
      BY <2>1 DEF Send
    <2>3. PICK p : p = [post[k] EXCEPT !.at = "sent", !.reference = q]
      OBVIOUS
    <2>4. PostBecomes(k, p) /\ p \in PostUpTo(clock) /\ k \notin Begun
      BY <1>1, <2>1, <2>2, <2>3 DEF PostBecomes, PostUpTo, Begun
    <2> QED
      BY <1>1, <1>4, <2>2, <2>4
  <1>6. ASSUME NEW k \in Submits, Begin(k) PROVE RecentTypes'
    <2>1. PICK p : p = [post[k] EXCEPT !.at = "lock", !.created = clock + 1]
      OBVIOUS
    <2>2. PostBecomes(k, p) /\ clock' = clock + 1 /\ UNCHANGED recent /\ k \notin Begun
      BY <1>1, <1>6, <2>1 DEF Begin, PostBecomes, PostUpTo, Begun
    <2>3. p \in PostUpTo(clock') /\ p.at = "lock"
      <3>1. PICK n \in Nat : n = clock + 1
        BY <1>1
      <3>2. p = [at |-> "lock", reference |-> post[k].reference, created |-> n, doomed |-> post[k].doomed]
        BY <1>1, <2>1, <3>1 DEF PostUpTo
      <3>3. p \in PostUpTo(n) /\ p.at = "lock"
        BY <1>1, <3>1, <3>2 DEF PostUpTo
      <3> QED
        BY <2>2, <3>1, <3>3
    <2>4. recent' \in [References -> 0..clock']
      BY <1>1, <2>2
    <2> QED
      BY <2>2, <2>3, <2>4, PostTyped
  <1>7. ASSUME NEW k \in Submits, LockOwner(k) PROVE RecentTypes'
    <2>1. PICK p : p = [post[k] EXCEPT !.at = "write"]
      OBVIOUS
    <2>2. PostBecomes(k, p) /\ p \in PostUpTo(clock) /\ p.at = "write" /\ UNCHANGED <<recent, clock>>
      BY <1>1, <1>7, <2>1 DEF LockOwner, PostBecomes, PostUpTo
    <2> QED
      BY <1>1, <1>4, <2>2
  <1>8. ASSUME NEW k \in Submits, UpsertAndTrim(k) PROVE RecentTypes'
    <2>1. PICK doomed \in SUBSET References :
            /\ post' = [post EXCEPT ![k].at = "commit", ![k].doomed = doomed]
            /\ UNCHANGED <<recent, clock>>
      BY <1>8 DEF UpsertAndTrim, Rows
    <2>2. PICK p : p = [post[k] EXCEPT !.at = "commit", !.doomed = doomed]
      OBVIOUS
    <2>3. PostBecomes(k, p) /\ p \in PostUpTo(clock) /\ p.at = "commit"
      BY <1>1, <2>1, <2>2 DEF PostBecomes, PostUpTo
    <2> QED
      BY <1>1, <1>4, <2>1, <2>3
  <1>9. Over \in PostUpTo(clock) /\ Over.at = "over"
    BY <1>1 DEF Over, Unsent, PostUpTo
  <1>10. ASSUME NEW k \in Submits, CommitRecent(k) PROVE RecentTypes'
    <2>1. post[k].created \in 0..clock
      BY <1>1 DEF PostUpTo
    <2>2. recent' \in [References -> 0..clock] /\ PostBecomes(k, Over) /\ UNCHANGED clock
      BY <1>1, <1>10, <2>1 DEF CommitRecent, PostBecomes
    <2> QED
      BY <1>4, <1>9, <2>2
  <1>11. ASSUME NEW k \in Submits, RecordFails(k) PROVE RecentTypes'
    BY <1>1, <1>4, <1>9, <1>11 DEF RecordFails, PostBecomes
  <1>12. ASSUME NEW r \in References, DeleteRecent(r) PROVE RecentTypes'
    BY <1>1, <1>2, <1>12 DEF DeleteRecent
  <1>13. CASE ClearRecent
    BY <1>1, <1>2, <1>13 DEF ClearRecent
  <1> QED
    BY <1>3, <1>5, <1>6, <1>7, <1>8, <1>10, <1>11, <1>12, <1>13 DEF Next, RecentNext, Invalidate, searchVars

(* The types are an invariant of the specification.                         *)
LEMMA RecentTypesInvariant == Spec => []RecentTypes
  <1>1. Init => RecentTypes
    <2>1. Init => clock = 0 /\ RecentTypeOK
      BY RecentAssumption DEF Init, RecentInit, RecentTypeOK, Unsent
    <2> QED
      BY <2>1, BegunAreCounted DEF RecentTypes
  <1> QED
    BY <1>1, RecentTypesStep, PTL DEF Spec

(* However many searches are recorded at the same time, and whatever is     *)
(* cleared meanwhile, a user keeps at most recentSearchLimit rows.          *)
THEOREM HistoryIsBounded == Spec => []RecentBounded
  <1>1. RecentIInv => RecentBounded
    BY DEF RecentIInv, FewRows, RecentBounded
  <1> QED
    BY <1>1, RecentInvariant, PTL

-----------------------------------------------------------------------------
(* Lists that are paged by keys. *)
Key == [created : Nat, id : Ids]
Entries == [query : Queries, item : Key]

NewerThan(k, S) == {n \in S : Older(k, n)}
Rank(k, S) == Cardinality(NewerThan(k, S))

(* (created, id) orders the rows.                                           *)
LEMMA KeysAreOrdered ==
  /\ \A k \in Key : ~Older(k, k)
  /\ \A k, n \in Key : k = n \/ Older(k, n) \/ Older(n, k)
  /\ \A k, m, n \in Key : Older(k, m) /\ Older(m, n) => Older(k, n)
  <1>1. \A k \in Key : k.created \in Nat /\ k.id \in Nat
    BY KeysetAssumption DEF Key
  <1>2. \A k, n \in Key : k.created = n.created /\ k.id = n.id => k = n
    BY DEF Key
  <1>3. \A k \in Key : ~Older(k, k)
    BY <1>1 DEF Older
  <1>4. \A k, n \in Key : k = n \/ Older(k, n) \/ Older(n, k)
    BY <1>1, <1>2 DEF Older
  <1>5. \A k, m, n \in Key : Older(k, m) /\ Older(m, n) => Older(k, n)
    BY <1>1 DEF Older
  <1> QED
    BY <1>3, <1>4, <1>5

(* A row has fewer newer ones than any row that is older.                   *)
LEMMA RanksDescend ==
  ASSUME NEW S \in SUBSET Key, IsFiniteSet(S)
  PROVE  /\ \A k \in S : Rank(k, S) \in 0..(Cardinality(S) - 1)
         /\ \A k, n \in S : Older(k, n) => Rank(n, S) < Rank(k, S)
         /\ \A k, n \in S : Rank(k, S) = Rank(n, S) => k = n
  <1>1. Cardinality(S) \in Nat
    BY FS_CardinalityType
  <1>2. ASSUME NEW k \in S
        PROVE  IsFiniteSet(NewerThan(k, S)) /\ Rank(k, S) \in Nat /\ Rank(k, S) < Cardinality(S)
    <2>1. NewerThan(k, S) \in SUBSET S /\ k \notin NewerThan(k, S)
      BY KeysAreOrdered DEF NewerThan
    <2>2. /\ IsFiniteSet(NewerThan(k, S)) /\ Cardinality(NewerThan(k, S)) <= Cardinality(S)
          /\ Cardinality(S) # Cardinality(NewerThan(k, S))
      BY <2>1, FS_Subset
    <2> QED
      BY <1>1, <2>2, FS_CardinalityType DEF Rank
  <1>3. ASSUME NEW k \in S, NEW n \in S, Older(k, n)
        PROVE  Rank(n, S) < Rank(k, S)
    <2>1. NewerThan(n, S) \in SUBSET NewerThan(k, S) /\ n \in NewerThan(k, S) /\ n \notin NewerThan(n, S)
      BY <1>3, KeysAreOrdered DEF NewerThan
    <2>2. /\ Cardinality(NewerThan(n, S)) <= Cardinality(NewerThan(k, S))
          /\ Cardinality(NewerThan(k, S)) # Cardinality(NewerThan(n, S))
      BY <1>2, <2>1, FS_Subset
    <2> QED
      BY <1>2, <2>2 DEF Rank
  <1>4. \A k, n \in S : Rank(k, S) = Rank(n, S) => k = n
    BY <1>2, <1>3, KeysAreOrdered
  <1> QED
    BY <1>1, <1>2, <1>3, <1>4

(* ORDER BY puts all rows of a finite table in a sequence that descends.    *)
LEMMA NewestSorts ==
  ASSUME NEW S \in SUBSET Key, IsFiniteSet(S)
  PROVE  /\ Newest(S) \in Seq(S) /\ Len(Newest(S)) = Cardinality(S)
         /\ \A k \in S : \E i \in 1..Len(Newest(S)) : Newest(S)[i] = k
         /\ \A i, j \in 1..Len(Newest(S)) : i < j => Older(Newest(S)[j], Newest(S)[i])
  <1> DEFINE n == Cardinality(S)
             rank == [k \in S |-> Rank(k, S)]
  <1>0. n \in Nat
    BY FS_CardinalityType
  <1>1. IsFiniteSet(0..(n - 1)) /\ Cardinality(0..(n - 1)) = n
    <2>1. PICK top \in Int : top = n - 1
      BY <1>0
    <2>2. IsFiniteSet(0..top) /\ Cardinality(0..top) = (IF 0 > top THEN 0 ELSE top - 0 + 1)
      BY FS_Interval
    <2> QED
      BY <1>0, <2>1, <2>2
  <1>2. rank \in Injection(S, 0..(n - 1))
    <2>1. rank \in [S -> 0..(n - 1)]
      BY RanksDescend
    <2>2. \A k, m \in S : rank[k] = rank[m] => k = m
      BY RanksDescend
    <2> QED
      BY <2>1, <2>2, Fun_IsInj
  <1>3. rank \in Surjection(S, 0..(n - 1))
    BY <1>1, <1>2, FS_Injection
  <1>4. ASSUME NEW i \in 1..n
        PROVE  Newest(S)[i] \in S /\ Rank(Newest(S)[i], S) = i - 1
    <2>1. i - 1 \in 0..(n - 1)
      BY <1>0
    <2>2. \E k \in S : Rank(k, S) = i - 1
      BY <1>3, <2>1 DEF Surjection
    <2>3. Newest(S)[i] = CHOOSE k \in S : Rank(k, S) = i - 1
      BY DEF Newest, Rank, NewerThan
    <2> QED
      BY <2>2, <2>3
  <1>5. \E f : Newest(S) = [i \in 1..n |-> f[i]]
    <2>1. PICK f : f = [i \in 1..n |-> CHOOSE k \in S : Rank(k, S) = i - 1]
      OBVIOUS
    <2>2. Newest(S) = f
      BY <2>1 DEF Newest, Rank, NewerThan
    <2>3. f = [i \in 1..n |-> f[i]]
      BY <2>1
    <2> QED
      BY <2>2, <2>3
  <1> HIDE DEF rank, n
  <1>6. Newest(S) \in Seq(S) /\ Len(Newest(S)) = n
    BY <1>0, <1>4, <1>5
  <1>7. ASSUME NEW k \in S PROVE \E i \in 1..n : Newest(S)[i] = k
    <2>1. Rank(k, S) \in 0..(n - 1)
      BY RanksDescend DEF n
    <2>2. Rank(k, S) + 1 \in 1..n /\ (Rank(k, S) + 1) - 1 = Rank(k, S)
      BY <1>0, <2>1
    <2>3. Newest(S)[Rank(k, S) + 1] \in S /\ Rank(Newest(S)[Rank(k, S) + 1], S) = Rank(k, S)
      BY <1>4, <2>2
    <2>4. Newest(S)[Rank(k, S) + 1] = k
      BY <2>3, RanksDescend
    <2> QED
      BY <2>2, <2>4
  <1>8. ASSUME NEW i \in 1..n, NEW j \in 1..n, i < j
        PROVE  Older(Newest(S)[j], Newest(S)[i])
    <2>1. PICK a \in S : a = Newest(S)[i] /\ Rank(a, S) = i - 1
      BY <1>4
    <2>2. PICK b \in S : b = Newest(S)[j] /\ Rank(b, S) = j - 1
      BY <1>4
    <2>3. a # b /\ ~(Rank(b, S) < Rank(a, S))
      BY <1>0, <1>8, <2>1, <2>2
    <2>4. ~Older(a, b)
      BY <2>3, RanksDescend
    <2> QED
      BY <2>1, <2>2, <2>3, <2>4, KeysAreOrdered
  <1> QED
    BY <1>6, <1>7, <1>8 DEF n

(* The first rows of a sequence.                                            *)
LEMMA Beginning ==
  ASSUME NEW S, NEW s \in Seq(S), NEW m \in 0..Len(s)
  PROVE  /\ SubSeq(s, 1, m) \in Seq(S) /\ Len(SubSeq(s, 1, m)) = m
         /\ \A i \in 1..m : SubSeq(s, 1, m)[i] = s[i]
  OBVIOUS

(* The rows in the table are known by their keys.                           *)
LEMMA TableHasKeys ==
  ASSUME TableTypeOK
  PROVE  Keys \in SUBSET Key /\ IsFiniteSet(Keys)
  <1>1. Keys \in SUBSET Key
    BY KeysetAssumption DEF Keys, Key, TableTypeOK
  <1>2. \A i \in Ids : table[i] \in Nat
    BY KeysetAssumption DEF TableTypeOK
  <1> DEFINE there == {i \in Ids : table[i] # 0}
             key == [i \in there |-> [created |-> table[i], id |-> i]]
  <1>3. IsFiniteSet(there)
    BY KeysetAssumption, FS_Subset
  <1>4. key \in Surjection(there, Keys)
    <2>1. key \in [there -> Keys]
      BY DEF Keys
    <2>2. \A k \in Keys : \E i \in there : key[i] = k
      BY DEF Keys
    <2> QED
      BY <2>1, <2>2, Fun_IsSurj
  <1> QED
    BY <1>1, <1>3, <1>4, FS_Surjection

Below(at) == {k \in Keys : at = NoCursor \/ Older(k, at)}

(* What a page shows, and what its cursor leaves for the pages that follow. *)
Continues(list, next, S) ==
  /\ list \in Seq(S)
  /\ \A i, j \in 1..Len(list) : i < j => Older(list[j], list[i])
  /\ next \in S \cup {NoCursor}
  /\ next # NoCursor =>
       \A i \in 1..Len(list) :
         list[i] = next \/ Older(next, list[i])
  /\ \A k \in S : \/ \E i \in 1..Len(list) : list[i] = k
                  \/ next # NoCursor /\ Older(k, next)

(* The rows of a page, marked with the query.                               *)
Marked(q, list) == [i \in 1..Len(list) |-> [query |-> q, item |-> list[i]]]

(* One row more than the limit tells whether there is more.                 *)
LEMMA KeysetPageContinues ==
  ASSUME TableTypeOK, NEW at, NEW limit \in Nat \ {0}
  PROVE  Continues(KeysetPage(at, limit).items, KeysetPage(at, limit).nextCursor, Below(at))
  <1> DEFINE S == Below(at)
  <1>1. S \in SUBSET Key /\ IsFiniteSet(S)
    BY TableHasKeys, FS_Subset DEF Below
  <1>2. PICK s \in Seq(S) : s = Newest(S)
    BY <1>1, NewestSorts
  <1>3. /\ \A k \in S : \E i \in 1..Len(s) : s[i] = k
        /\ \A i, j \in 1..Len(s) : i < j => Older(s[j], s[i])
    BY <1>1, <1>2, NewestSorts
  <1>4. NoCursor \notin S
    BY <1>1, CursorAssumption DEF Key
  <1>5. RowsBelow(at, limit + 1) = SubSeq(s, 1, IF Len(s) < limit + 1 THEN Len(s) ELSE limit + 1)
    BY <1>2 DEF RowsBelow, Below
  <1> HIDE DEF S
  <1>6. CASE Len(s) > limit
    <2>0. limit + 1 \in 0..Len(s) /\ limit \in 0..(limit + 1) /\ limit \in 1..Len(s) /\ Len(s) \in Nat
      BY <1>6
    <2>1. PICK rows \in Seq(S) : rows = SubSeq(s, 1, limit + 1)
      BY <2>0, Beginning
    <2>2. Len(rows) = limit + 1 /\ \A i \in 1..(limit + 1) : rows[i] = s[i]
      BY <2>0, <2>1, Beginning
    <2>3. RowsBelow(at, limit + 1) = rows
      BY <1>5, <1>6, <2>1
    <2>4. PICK shown \in Seq(S) : shown = SubSeq(rows, 1, limit)
      BY <2>0, <2>2, Beginning
    <2>5. Len(shown) = limit /\ \A i \in 1..limit : shown[i] = s[i]
      BY <2>0, <2>2, <2>4, Beginning
    <2>6. KeysetPage(at, limit) = [items |-> shown, nextCursor |-> s[limit]]
      BY <2>2, <2>3, <2>4 DEF KeysetPage, NewCursorPage
    <2>7. s[limit] \in S
      BY <1>6
    <2>8. \A i \in 1..limit : shown[i] = s[limit] \/ Older(s[limit], shown[i])
      <3> SUFFICES ASSUME NEW i \in 1..limit PROVE s[i] = s[limit] \/ Older(s[limit], s[i])
        BY <2>5
      <3>1. i \in 1..Len(s) /\ (i = limit \/ i < limit)
        BY <2>0
      <3> QED
        BY <1>3, <2>0, <3>1
    <2>9. ASSUME NEW k \in S
          PROVE  (\E i \in 1..limit : shown[i] = k) \/ Older(k, s[limit])
      <3>1. PICK i \in 1..Len(s) : s[i] = k
        BY <1>3
      <3>2. CASE i <= limit
        BY <2>5, <3>1, <3>2
      <3>3. CASE i > limit
        BY <1>3, <2>0, <3>1, <3>3
      <3> QED
        BY <3>2, <3>3
    <2>10. \A i, j \in 1..limit : i < j => Older(shown[j], shown[i])
      <3> SUFFICES ASSUME NEW i \in 1..limit, NEW j \in 1..limit, i < j PROVE Older(s[j], s[i])
        BY <2>5
      <3>1. i \in 1..Len(s) /\ j \in 1..Len(s)
        BY <2>0
      <3> QED
        BY <1>3, <3>1
    <2>11. s[limit] # NoCursor
      BY <1>4, <2>7
    <2>12. Continues(shown, s[limit], S)
      BY <2>5, <2>7, <2>8, <2>9, <2>10, <2>11 DEF Continues
    <2> QED
      BY <2>6, <2>12 DEF S
  <1>7. CASE ~(Len(s) > limit)
    <2>1. SubSeq(s, 1, Len(s)) = s
      BY Beginning
    <2>2. RowsBelow(at, limit + 1) = s
      BY <1>5, <1>7, <2>1
    <2>3. KeysetPage(at, limit) = [items |-> s, nextCursor |-> NoCursor]
      BY <1>7, <2>2 DEF KeysetPage, NewCursorPage
    <2>4. Continues(s, NoCursor, S)
      BY <1>3 DEF Continues
    <2> QED
      BY <2>3, <2>4 DEF S
  <1> QED
    BY <1>6, <1>7

(* The list is a beginning of the table: its rows descend to the cursor,    *)
(* and a row that stayed is among them or below.                            *)
Begins(list, at, rows) ==
  /\ list \in Seq(Entries) /\ at \in Key \cup {NoCursor}
  /\ \A i, j \in 1..Len(list) : i < j => Older(list[j].item, list[i].item)
  /\ at # NoCursor => \A i \in 1..Len(list) : list[i].item = at \/ Older(at, list[i].item)
  /\ \A k \in rows : \/ \E i \in 1..Len(list) : list[i].item = k
                     \/ at # NoCursor /\ Older(k, at)

(* A page that was read with the cursor at: a row below at that was there   *)
(* then, and kept has no other, is on the page or below it.                 *)
HoldsRows(page, q, at, kept) ==
  \E S \in SUBSET Key :
    /\ \A k \in S : Older(k, at)
    /\ \A k \in kept : Older(k, at) => k \in S
    /\ \E s \in Seq(Key) : Continues(s, page.nextCursor, S) /\ page.items = Marked(q, s)

(* A request in flight has a cursor, and in the end its page.               *)
Request(l) ==
  /\ l = [step |-> l.step, query |-> l.query, cursor |-> l.cursor, page |-> l.page, stayed |-> l.stayed]
  /\ l.step \in {"asked", "answered"} /\ l.query \in Queries /\ l.cursor # NoCursor
  /\ l.step = "answered" /\ Kind[l.query] = "rows" => HoldsRows(l.page, l.query, l.cursor, l.stayed)

(* The inductive invariant.                                                 *)
ListIInv ==
  /\ TableTypeOK /\ query \in Queries /\ stayed \subseteq Keys
  /\ load # NoLoad => Request(load)
  /\ Listed({"rows"}) => Begins(items, cursor, stayed)

(* Two sequences, one after the other.                                      *)
LEMMA Joined ==
  ASSUME NEW S, NEW a \in Seq(S), NEW b \in Seq(S)
  PROVE  /\ a \o b \in Seq(S) /\ Len(a \o b) = Len(a) + Len(b)
         /\ Len(a) \in Nat /\ Len(b) \in Nat
         /\ \A i \in 1..Len(a) : (a \o b)[i] = a[i]
         /\ \A i \in (Len(a) + 1)..(Len(a) + Len(b)) : (a \o b)[i] = b[i - Len(a)]
  OBVIOUS

(* A page of a table, its rows marked with the query.                       *)
LEMMA PageOfRows ==
  ASSUME TableTypeOK, NEW q \in Queries, Kind[q] = "rows", NEW at, NEW limit \in Nat \ {0}
  PROVE  \E s \in Seq(Key) :
           /\ Continues(s, Page(q, at, limit).nextCursor, Below(at))
           /\ Page(q, at, limit).items = Marked(q, s)
  <1> DEFINE S == Below(at)
  <1>1. PICK page : page = KeysetPage(at, limit)
    OBVIOUS
  <1>2. PICK s, next : s = page.items /\ next = page.nextCursor /\ page = [items |-> s, nextCursor |-> next]
    BY <1>1 DEF KeysetPage, NewCursorPage
  <1>3. Continues(s, next, S)
    BY <1>1, <1>2, KeysetPageContinues
  <1>4. s \in Seq(Key)
    <2>1. s \in Seq(S) /\ S \subseteq Key
      BY <1>3, TableHasKeys DEF Continues, Below
    <2> QED
      BY <2>1
  <1>5. Page(q, at, limit) = [page EXCEPT !.items = [i \in 1..Len(page.items) |->
                                                        [query |-> q, item |-> page.items[i]]]]
    BY <1>1 DEF Page
  <1>6. /\ Page(q, at, limit).nextCursor = next
        /\ Page(q, at, limit).items = Marked(q, s)
    BY <1>2, <1>5 DEF Marked
  <1> QED
    BY <1>3, <1>4, <1>6

(* The list starts with the newest rows of the table.                       *)
LEMMA FirstPageBegins ==
  ASSUME TableTypeOK, NEW q \in Queries, Kind[q] = "rows"
  PROVE  Begins(FirstPage(q).items, FirstPage(q).nextCursor, Keys)
  <1>1. PICK first, next : first = FirstPage(q).items /\ next = FirstPage(q).nextCursor
    OBVIOUS
  <1>2. FirstLimit[q] \in Nat \ {0}
    BY LimitsAssumption
  <1>3. FirstPage(q) = Page(q, NoCursor, FirstLimit[q])
    BY DEF FirstPage
  <1>4. PICK s \in Seq(Key) :
          /\ Continues(s, Page(q, NoCursor, FirstLimit[q]).nextCursor, Below(NoCursor))
          /\ Page(q, NoCursor, FirstLimit[q]).items = Marked(q, s)
    BY <1>2, PageOfRows
  <1>5. Continues(s, next, Keys)
    <2>1. Below(NoCursor) = Keys
      BY DEF Below
    <2> QED
      BY <1>1, <1>3, <1>4, <2>1
  <1>6. first \in Seq(Entries) /\ Len(first) = Len(s) /\ \A i \in 1..Len(s) : first[i].item = s[i]
    BY <1>1, <1>3, <1>4 DEF Entries, Marked
  <1>7. next \in Key \cup {NoCursor}
    BY <1>5, TableHasKeys DEF Continues
  <1> QED
    BY <1>1, <1>5, <1>6, <1>7 DEF Begins, Continues

(* The next page takes the list on where it ended, for the rows that were   *)
(* there when it was read.                                                  *)
LEMMA NextPageBegins ==
  ASSUME NEW q \in Queries, cursor # NoCursor, NEW before, Begins(items, cursor, before),
         NEW page, NEW kept, HoldsRows(page, q, cursor, kept)
  PROVE  Begins(items \o page.items, page.nextCursor, before \cap kept)
  <1>1. PICK more, next, rows : more = page.items /\ next = page.nextCursor /\ rows = before \cap kept
    OBVIOUS
  <1>2. PICK S \in SUBSET Key :
          /\ \A k \in S : Older(k, cursor)
          /\ \A k \in kept : Older(k, cursor) => k \in S
          /\ \E s \in Seq(Key) : Continues(s, page.nextCursor, S) /\ page.items = Marked(q, s)
    BY DEF HoldsRows
  <1>3. PICK s \in Seq(Key) : Continues(s, page.nextCursor, S) /\ page.items = Marked(q, s)
    BY <1>2
  <1>4. S \subseteq Key /\ cursor \in Key /\ \A k \in S : Older(k, cursor)
    BY <1>2 DEF Begins
  <1>5. more \in Seq(Entries) /\ Len(more) = Len(s) /\ \A i \in 1..Len(s) : more[i].item = s[i]
    BY <1>1, <1>3 DEF Entries, Marked
  <1>6. PICK old \in Seq(Entries) : old = items
    BY DEF Begins
  <1>7. /\ \A i, j \in 1..Len(old) : i < j => Older(old[j].item, old[i].item)
        /\ \A i \in 1..Len(old) : old[i].item = cursor \/ Older(cursor, old[i].item)
        /\ \A k \in rows : (\E i \in 1..Len(old) : old[i].item = k) \/ Older(k, cursor)
        /\ \A i \in 1..Len(old) : old[i].item \in Key
    <2>1. \A i \in 1..Len(old) : old[i] \in Entries
      OBVIOUS
    <2>2. \A e \in Entries : e.item \in Key
      BY DEF Entries
    <2> QED
      BY <1>1, <1>6, <2>1, <2>2 DEF Begins
  <1>8. /\ s \in Seq(S) /\ next \in S \cup {NoCursor}
        /\ \A i, j \in 1..Len(s) : i < j => Older(s[j], s[i])
        /\ next # NoCursor => \A i \in 1..Len(s) : s[i] = next \/ Older(next, s[i])
        /\ \A k \in S : (\E i \in 1..Len(s) : s[i] = k) \/ (next # NoCursor /\ Older(k, next))
    BY <1>1, <1>3 DEF Continues
  <1>8a. PICK new \in Seq(Entries) : new = more
    BY <1>5
  <1>9. PICK list \in Seq(Entries) : list = old \o new
    BY Joined
  <1>10. /\ Len(list) = Len(old) + Len(s) /\ Len(old) \in Nat /\ Len(s) \in Nat
         /\ \A i \in 1..Len(old) : list[i].item = old[i].item
         /\ \A i \in (Len(old) + 1)..Len(list) : i - Len(old) \in 1..Len(s) /\ list[i].item = s[i - Len(old)]
    <2>1. Len(list) = Len(old) + Len(new) /\ Len(old) \in Nat /\ Len(new) \in Nat
      BY <1>9, Joined
    <2>2. \A i \in 1..Len(old) : list[i] = old[i]
      BY <1>9, Joined
    <2>3. \A i \in (Len(old) + 1)..Len(list) : i - Len(old) \in 1..Len(new) /\ list[i] = new[i - Len(old)]
      BY <1>9, <2>1, Joined
    <2> QED
      BY <1>5, <1>8a, <2>1, <2>2, <2>3
  <1>11. \A i \in 1..Len(old), j \in 1..Len(s) : Older(s[j], old[i].item)
    <2> SUFFICES ASSUME NEW i \in 1..Len(old), NEW j \in 1..Len(s) PROVE Older(s[j], old[i].item)
      OBVIOUS
    <2>1. s[j] \in S
      BY <1>8
    <2>2. s[j] \in Key /\ Older(s[j], cursor)
      BY <1>4, <2>1
    <2> QED
      BY <1>4, <1>7, <2>2, KeysAreOrdered
  <1>12. ASSUME NEW i \in 1..Len(list), NEW j \in 1..Len(list), i < j
         PROVE  Older(list[j].item, list[i].item)
    <2>1. CASE j <= Len(old)
      BY <1>7, <1>10, <1>12, <2>1
    <2>2. CASE i <= Len(old) /\ j > Len(old)
      <3>1. i \in 1..Len(old) /\ j \in (Len(old) + 1)..Len(list)
        BY <1>10, <2>2
      <3> QED
        BY <1>10, <1>11, <3>1
    <2>3. CASE i > Len(old)
      <3>1. /\ i - Len(old) \in 1..Len(s) /\ list[i].item = s[i - Len(old)]
            /\ j - Len(old) \in 1..Len(s) /\ list[j].item = s[j - Len(old)]
            /\ i - Len(old) < j - Len(old)
        BY <1>10, <1>12, <2>3
      <3> QED
        BY <1>8, <3>1
    <2> QED
      BY <1>10, <2>1, <2>2, <2>3
  <1>13. ASSUME next # NoCursor, NEW i \in 1..Len(list)
         PROVE  list[i].item = next \/ Older(next, list[i].item)
    <2>1. CASE i <= Len(old)
      <3>1. next \in Key /\ Older(next, cursor) /\ i \in 1..Len(old) /\ list[i].item = old[i].item
        BY <1>4, <1>8, <1>10, <1>13, <2>1
      <3> QED
        BY <1>4, <1>7, <3>1, KeysAreOrdered
    <2>2. CASE i > Len(old)
      <3>1. i - Len(old) \in 1..Len(s) /\ list[i].item = s[i - Len(old)]
        BY <1>10, <2>2
      <3> QED
        BY <1>8, <1>13, <3>1
    <2> QED
      BY <1>10, <2>1, <2>2
  <1>14. ASSUME NEW k \in rows
         PROVE  (\E i \in 1..Len(list) : list[i].item = k) \/ (next # NoCursor /\ Older(k, next))
    <2>1. CASE \E i \in 1..Len(old) : old[i].item = k
      <3>1. PICK i \in 1..Len(old) : old[i].item = k
        BY <2>1
      <3>2. i \in 1..Len(list) /\ list[i].item = k
        BY <1>10, <3>1
      <3> QED
        BY <3>2
    <2>2. CASE Older(k, cursor)
      <3>1. k \in S
        BY <1>1, <1>2, <2>2
      <3>2. CASE \E i \in 1..Len(s) : s[i] = k
        <4>1. PICK i \in 1..Len(s) : s[i] = k
          BY <3>2
        <4>2. PICK at : at = i + Len(old)
          OBVIOUS
        <4>3. at \in (Len(old) + 1)..Len(list) /\ at - Len(old) = i /\ at \in 1..Len(list)
          BY <1>10, <4>2
        <4> QED
          BY <1>10, <4>1, <4>3
      <3> QED
        BY <1>8, <3>1, <3>2
    <2> QED
      BY <1>7, <2>1, <2>2
  <1>15. next \in Key \cup {NoCursor}
    BY <1>4, <1>8
  <1> QED
    BY <1>1, <1>6, <1>8a, <1>9, <1>12, <1>13, <1>14, <1>15 DEF Begins

(* A list that is opened, for the first time or again.                      *)
LEMMA OpenedList ==
  ASSUME TableTypeOK, NEW q \in Queries,
         query = q, items = FirstPage(q).items, cursor = FirstPage(q).nextCursor, stayed = Keys
  PROVE  Listed({"rows"}) => Begins(items, cursor, stayed)
  BY FirstPageBegins DEF Listed

(* Every list starts so.                                                    *)
LEMMA ListInitial == PagesInit => ListIInv
  <1> SUFFICES ASSUME PagesInit PROVE ListIInv
    OBVIOUS
  <1>1. TableTypeOK
    BY KeysetAssumption DEF PagesInit, TableInit, TableTypeOK
  <1>2. PICK q \in Queries : query = q /\ items = FirstPage(q).items /\ cursor = FirstPage(q).nextCursor
    BY DEF PagesInit
  <1>3. stayed = Keys /\ load = NoLoad
    BY DEF PagesInit
  <1>4. Listed({"rows"}) => Begins(items, cursor, stayed)
    BY <1>1, <1>2, <1>3, OpenedList
  <1> QED
    BY <1>1, <1>2, <1>3, <1>4 DEF ListIInv

(* Opening a list forgets what the old one was, but for the request that is *)
(* still in flight.                                                        *)
LEMMA NavigateKeeps ==
  ASSUME ListIInv, NEW q \in Queries, Navigate(q)
  PROVE  ListIInv'
  <1>1. UNCHANGED <<table, writing, now, load>> /\ query' = q /\ stayed' = Keys /\ Keys' = Keys
    BY DEF Navigate, tableVars, Keys
  <1>2. TableTypeOK'
    BY <1>1 DEF ListIInv, TableTypeOK
  <1>3. Listed({"rows"})' => Begins(items', cursor', stayed')
    <2>1. Kind[q] = "rows" => Begins(FirstPage(q).items, FirstPage(q).nextCursor, Keys)
      BY FirstPageBegins DEF ListIInv
    <2>2. items' = FirstPage(q).items /\ cursor' = FirstPage(q).nextCursor
      BY DEF Navigate
    <2> QED
      BY <1>1, <2>1, <2>2 DEF Listed
  <1>4. Begins(items, cursor, stayed)' <=> Begins(items', cursor', stayed')
    BY DEF Begins, Older, Key, Entries
  <1> QED
    BY <1>1, <1>2, <1>3, <1>4 DEF ListIInv

(* The server reads the rows below the cursor.                              *)
LEMMA AnswerHolds ==
  ASSUME ListIInv, Answer
  PROVE  Request(load')
  <1>1. PICK l : l = load
    OBVIOUS
  <1>2. PICK q, at, got : q = l.query /\ at = l.cursor /\ got = Page(q, at, MoreLimit[q])
    OBVIOUS
  <1>3. load # NoLoad /\ Request(l)
    BY <1>1 DEF ListIInv, Answer
  <1>4. /\ l = [step |-> l.step, query |-> q, cursor |-> at, page |-> l.page, stayed |-> l.stayed]
        /\ q \in Queries /\ at # NoCursor
    BY <1>2, <1>3 DEF Request
  <1>5. load' = [l EXCEPT !.step = "answered", !.stayed = Keys, !.page = got]
    BY <1>1, <1>2 DEF Answer
  <1>6. load' = [step |-> "answered", query |-> q, cursor |-> at, page |-> got, stayed |-> Keys]
    <2>1. PICK step, page, kept : l = [step |-> step, query |-> q, cursor |-> at, page |-> page, stayed |-> kept]
      BY <1>4
    <2>2. PICK keys : keys = Keys
      OBVIOUS
    <2>3. load' = [l EXCEPT !.step = "answered", !.stayed = keys, !.page = got]
      BY <1>5, <2>2
    <2> QED
      BY <2>1, <2>2, <2>3
  <1>7. ASSUME Kind[q] = "rows" PROVE HoldsRows(got, q, at, Keys)
    <2>1. TableTypeOK /\ MoreLimit[q] \in Nat \ {0}
      BY <1>4, LimitsAssumption DEF ListIInv
    <2>2. PICK s \in Seq(Key) : Continues(s, got.nextCursor, Below(at)) /\ got.items = Marked(q, s)
      BY <1>2, <1>4, <1>7, <2>1, PageOfRows
    <2>3. Below(at) \in SUBSET Key /\ (\A k \in Below(at) : Older(k, at)) /\ \A k \in Keys : Older(k, at) => k \in Below(at)
      BY <1>4, <2>1, TableHasKeys DEF Below
    <2> QED
      BY <2>2, <2>3 DEF HoldsRows
  <1>8. PICK r : r = [step |-> "answered", query |-> q, cursor |-> at, page |-> got, stayed |-> Keys]
    OBVIOUS
  <1>9. r.step = "answered" /\ r.query = q /\ r.cursor = at /\ r.page = got /\ r.stayed = Keys
    BY <1>8
  <1> QED
    BY <1>4, <1>6, <1>7, <1>8, <1>9 DEF Request

(* An answer takes the list on, or the list is overtaken.                   *)
LEMMA LoadedKeeps ==
  ASSUME ListIInv, Loaded
  PROVE  ListIInv'
  <1>1. /\ UNCHANGED <<table, writing, now, query>> /\ load' = NoLoad /\ Keys' = Keys
        /\ stayed' = stayed \cap load.stayed
    BY DEF Loaded, tableVars, Keys
  <1>2. TableTypeOK'
    BY <1>1 DEF ListIInv, TableTypeOK
  <1>3. ASSUME Listed({"rows"})' PROVE Begins(items', cursor', stayed')
    <2>1. /\ ~overtaken /\ load.query = query /\ load.cursor = cursor /\ load # NoLoad /\ load.step = "answered"
          /\ Kind[query] = "rows"
      BY <1>1, <1>3 DEF Loaded, Listed
    <2>2. cursor # NoCursor /\ Begins(items, cursor, stayed) /\ HoldsRows(load.page, query, cursor, load.stayed)
      BY <2>1 DEF ListIInv, Listed, Request
    <2>3. Begins(items \o load.page.items, load.page.nextCursor, stayed \cap load.stayed)
      BY <2>2, NextPageBegins DEF ListIInv
    <2>4. items' = items \o load.page.items /\ cursor' = load.page.nextCursor
      BY DEF Loaded
    <2> QED
      BY <1>1, <2>3, <2>4
  <1>4. Begins(items, cursor, stayed)' <=> Begins(items', cursor', stayed')
    BY DEF Begins, Older, Key, Entries
  <1> QED
    BY <1>1, <1>2, <1>3, <1>4 DEF ListIInv

(* Rows come and go: what stayed is still there, and the list is the same.  *)
LEMMA TableChangesKeep ==
  ASSUME ListIInv, TableChanges
  PROVE  ListIInv'
  <1>1. /\ UNCHANGED <<query, items, cursor, overtaken>> /\ stayed' = stayed \cap Keys'
        /\ load' = IF load = NoLoad THEN load ELSE [load EXCEPT !.stayed = @ \cap Keys']
    BY DEF TableChanges
  <1>2. TableTypeOK'
    <2>1. /\ table \in [Ids -> 0..MaxTime] /\ writing \in [Ids -> 0..MaxTime] /\ now \in 1..MaxTime
      BY DEF ListIInv, TableTypeOK
    <2>2. PICK i \in Ids : BeginRow(i) \/ CommitRow(i) \/ AbortRow(i) \/ RemoveRow(i)
      BY DEF TableChanges, TableNext
    <2>3. CASE BeginRow(i)
      BY <2>1, <2>3, KeysetAssumption DEF BeginRow, TableTypeOK
    <2>4. CASE CommitRow(i)
      BY <2>1, <2>4, KeysetAssumption DEF CommitRow, TableTypeOK
    <2>5. CASE AbortRow(i)
      BY <2>1, <2>5, KeysetAssumption DEF AbortRow, TableTypeOK
    <2>6. CASE RemoveRow(i)
      BY <2>1, <2>6, KeysetAssumption DEF RemoveRow, TableTypeOK
    <2> QED
      BY <2>2, <2>3, <2>4, <2>5, <2>6
  <1>3. Begins(items, cursor, stayed) => Begins(items', cursor', stayed')
    BY <1>1 DEF Begins
  <1>4. Begins(items, cursor, stayed)' <=> Begins(items', cursor', stayed')
    BY DEF Begins, Older, Key, Entries
  <1>5. Listed({"rows"})' <=> Listed({"rows"})
    BY <1>1 DEF Listed
  <1>6. ASSUME load # NoLoad PROVE Request(load')
    <2>1. PICK l, kept : l = load /\ kept = l.stayed \cap Keys'
      OBVIOUS
    <2>2. Request(l)
      BY <1>6, <2>1 DEF ListIInv
    <2>3. l = [step |-> l.step, query |-> l.query, cursor |-> l.cursor, page |-> l.page, stayed |-> l.stayed]
      BY <2>2 DEF Request
    <2>4. load' = [l EXCEPT !.stayed = kept]
      BY <1>1, <1>6, <2>1
    <2>5. PICK r : r = [step |-> l.step, query |-> l.query, cursor |-> l.cursor, page |-> l.page, stayed |-> kept]
      OBVIOUS
    <2>6. load' = r
      BY <2>3, <2>4, <2>5
    <2>7. /\ r.step = l.step /\ r.query = l.query /\ r.cursor = l.cursor /\ r.page = l.page
          /\ r.stayed = kept /\ kept \subseteq l.stayed
      BY <2>1, <2>5
    <2>8. HoldsRows(l.page, l.query, l.cursor, l.stayed) => HoldsRows(l.page, l.query, l.cursor, kept)
      BY <2>7 DEF HoldsRows
    <2>9. Request(r)
      BY <2>2, <2>5, <2>7, <2>8 DEF Request
    <2> QED
      BY <2>6, <2>9
  <1>7. Request(load)' <=> Request(load')
    BY DEF Request, HoldsRows, Continues, Marked, Older, Key
  <1> QED
    BY <1>1, <1>2, <1>3, <1>4, <1>5, <1>6, <1>7 DEF ListIInv

(* A request that starts or fails leaves list and table as they are.        *)
LEMMA RequestKeeps ==
  ASSUME ListIInv, UNCHANGED <<query, items, cursor, overtaken, stayed, table, writing, now>>,
         load' # NoLoad => Request(load')
  PROVE  ListIInv'
  <1>1. Request(load)' <=> Request(load')
    BY DEF Request, HoldsRows, Continues, Marked, Older, Key
  <1> QED
    BY <1>1 DEF ListIInv, TableTypeOK, Keys, Listed, Begins, Older, Key, Entries

(* Every step of the page, the table or the recordings keeps the invariant. *)
LEMMA ListInductive == ListIInv /\ [Next]_searchVars => ListIInv'
  <1> SUFFICES ASSUME ListIInv, [Next]_searchVars PROVE ListIInv'
    OBVIOUS
  <1>1. query \in Queries
    BY DEF ListIInv
  <1>2. ASSUME NEW q \in Queries, Submit(q) PROVE ListIInv'
    BY <1>2, NavigateKeeps DEF Submit
  <1>3. CASE Invalidate
    BY <1>1, <1>3, NavigateKeeps DEF Invalidate
  <1>4. CASE More
    <2>1. PICK r : r = [step |-> "asked", query |-> query, cursor |-> cursor,
                        page |-> NewCursorPage(<<>>, NoCursor), stayed |-> {}]
      OBVIOUS
    <2>2. load' = r /\ cursor # NoCursor
      BY <1>4, <2>1 DEF More
    <2>3. /\ r.step = "asked" /\ r.query = query /\ r.cursor = cursor
          /\ r = [step |-> r.step, query |-> r.query, cursor |-> r.cursor, page |-> r.page, stayed |-> r.stayed]
      BY <2>1
    <2>4. Request(r)
      BY <1>1, <2>2, <2>3 DEF Request
    <2> QED
      BY <1>4, <2>2, <2>4, RequestKeeps DEF More, tableVars
  <1>4a. CASE Answer
    BY <1>4a, AnswerHolds, RequestKeeps DEF Answer, tableVars
  <1>5. CASE Loaded
    BY <1>5, LoadedKeeps
  <1>6. CASE LoadFails
    BY <1>6, RequestKeeps DEF LoadFails, tableVars
  <1>7. CASE TableChanges
    BY <1>7, TableChangesKeep
  <1>8. CASE UNCHANGED listVars
    BY <1>8, RequestKeeps DEF listVars, pageVars, tableVars, ListIInv
  <1> QED
    BY <1>2, <1>3, <1>4, <1>4a, <1>5, <1>6, <1>7, <1>8 DEF Next, searchVars

(* So it holds always.                                                      *)
LEMMA ListInvariant == Spec => []ListIInv
  <1>1. Init => ListIInv
    BY ListInitial DEF Init
  <1> QED
    BY <1>1, ListInductive, PTL DEF Spec

(* Paging by (created, id) through a table that changes meanwhile shows no  *)
(* row twice and skips none that has been there since the oldest of the     *)
(* pages was read, for any rows, times and limits, however requests fail    *)
(* and whenever the list is reset, also while a page that was read before   *)
(* is still to arrive: unless it was asked for with another cursor.         *)
THEOREM NoRowIsSkipped == Spec => []RowsAreInOrder
  <1>1. ListIInv => RowsAreInOrder
    BY DEF ListIInv, Begins, RowsAreInOrder, ShownKeys
  <1> QED
    BY <1>1, ListInvariant, PTL

-----------------------------------------------------------------------------
(* A sequence shows a set: all of it, and nothing twice.                    *)
Shows(s, S) ==
  /\ s \in Seq(S)
  /\ \A x \in S : \E i \in 1..Len(s) : s[i] = x
  /\ \A i, j \in 1..Len(s) : s[i] = s[j] => i = j

Lesser(x, S) == {m \in S : m < x}
Place(x, S) == Cardinality(Lesser(x, S))

(* A number in a set has more lesser ones than any number less than it.     *)
LEMMA PlacesAscend ==
  ASSUME NEW S \in SUBSET Nat, IsFiniteSet(S)
  PROVE  /\ \A x \in S : Place(x, S) \in 0..(Cardinality(S) - 1)
         /\ \A x, y \in S : Place(x, S) = Place(y, S) => x = y
  <1>1. Cardinality(S) \in Nat
    BY FS_CardinalityType
  <1>2. ASSUME NEW x \in S
        PROVE  IsFiniteSet(Lesser(x, S)) /\ Place(x, S) \in Nat /\ Place(x, S) < Cardinality(S)
    <2>1. Lesser(x, S) \in SUBSET S /\ x \notin Lesser(x, S)
      BY DEF Lesser
    <2>2. /\ IsFiniteSet(Lesser(x, S)) /\ Cardinality(Lesser(x, S)) <= Cardinality(S)
          /\ Cardinality(S) # Cardinality(Lesser(x, S))
      BY <2>1, FS_Subset
    <2> QED
      BY <1>1, <2>2, FS_CardinalityType DEF Place
  <1>3. ASSUME NEW x \in S, NEW y \in S, x < y
        PROVE  Place(x, S) < Place(y, S)
    <2>0. x \in Nat /\ y \in Nat /\ \A m \in S : m \in Nat
      OBVIOUS
    <2>1. Lesser(x, S) \in SUBSET Lesser(y, S)
      <3>1. \A m \in S : m < x => m < y
        BY <1>3, <2>0
      <3> QED
        BY <3>1 DEF Lesser
    <2>1a. x \in Lesser(y, S) /\ x \notin Lesser(x, S)
      BY <1>3, <2>0 DEF Lesser
    <2>2. /\ Cardinality(Lesser(x, S)) <= Cardinality(Lesser(y, S))
          /\ Cardinality(Lesser(y, S)) # Cardinality(Lesser(x, S))
      BY <1>2, <2>1, <2>1a, FS_Subset
    <2> QED
      BY <1>2, <2>2 DEF Place
  <1>4. ASSUME NEW x \in S, NEW y \in S, Place(x, S) = Place(y, S) PROVE x = y
    <2>1. x \in Nat /\ y \in Nat /\ ~(x < y) /\ ~(y < x)
      BY <1>2, <1>3, <1>4
    <2> QED
      BY <2>1
  <1> QED
    BY <1>1, <1>2, <1>4

(* Numbers in order are shown once each.                                    *)
LEMMA AscendingShows ==
  ASSUME NEW S \in SUBSET Nat, IsFiniteSet(S)
  PROVE  Shows(Ascending(S), S)
  <1> DEFINE n == Cardinality(S)
             place == [x \in S |-> Place(x, S)]
  <1>0. n \in Nat
    BY FS_CardinalityType
  <1>1. IsFiniteSet(0..(n - 1)) /\ Cardinality(0..(n - 1)) = n
    <2>1. PICK top \in Int : top = n - 1
      BY <1>0
    <2>2. IsFiniteSet(0..top) /\ Cardinality(0..top) = (IF 0 > top THEN 0 ELSE top - 0 + 1)
      BY FS_Interval
    <2> QED
      BY <1>0, <2>1, <2>2
  <1>2. place \in Injection(S, 0..(n - 1))
    <2>1. place \in [S -> 0..(n - 1)]
      BY PlacesAscend
    <2>2. \A x, y \in S : place[x] = place[y] => x = y
      BY PlacesAscend
    <2> QED
      BY <2>1, <2>2, Fun_IsInj
  <1>3. place \in Surjection(S, 0..(n - 1))
    BY <1>1, <1>2, FS_Injection
  <1>4. PICK f : f = [i \in 1..n |-> CHOOSE x \in S : Place(x, S) = i - 1]
    OBVIOUS
  <1>5. Ascending(S) = f
    BY <1>4 DEF Ascending, Place, Lesser
  <1>6. ASSUME NEW i \in 1..n
        PROVE  f[i] \in S /\ Place(f[i], S) = i - 1
    <2>1. i - 1 \in 0..(n - 1)
      BY <1>0
    <2>2. \E x \in S : Place(x, S) = i - 1
      BY <1>3, <2>1 DEF Surjection
    <2>3. f[i] = CHOOSE x \in S : Place(x, S) = i - 1
      BY <1>4
    <2> QED
      BY <2>2, <2>3
  <1>7. f = [i \in 1..n |-> f[i]]
    BY <1>4
  <1> HIDE DEF place, n
  <1>8. f \in Seq(S) /\ Len(f) = n
    BY <1>0, <1>6, <1>7
  <1>9. ASSUME NEW x \in S PROVE \E i \in 1..n : f[i] = x
    <2>1. PICK i : i = Place(x, S) + 1
      OBVIOUS
    <2>2. i \in 1..n /\ i - 1 = Place(x, S)
      BY <1>0, <2>1, PlacesAscend DEF n
    <2>3. f[i] \in S /\ Place(f[i], S) = Place(x, S)
      BY <1>6, <2>2
    <2> QED
      BY <2>2, <2>3, PlacesAscend
  <1>10. ASSUME NEW i \in 1..n, NEW j \in 1..n, f[i] = f[j] PROVE i = j
    <2>1. i - 1 = j - 1
      BY <1>6, <1>10
    <2> QED
      BY <1>0, <2>1
  <1> QED
    BY <1>5, <1>8, <1>9, <1>10 DEF Shows

(* They show what each of them shows, if that is not the same.              *)
LEMMA JoinedShow ==
  ASSUME NEW A, NEW B, NEW a, NEW b, Shows(a, A), Shows(b, B), A \cap B = {}
  PROVE  Shows(a \o b, A \cup B)
  <1>1. a \in Seq(A \cup B) /\ b \in Seq(A \cup B)
    <2>1. a \in Seq(A) /\ b \in Seq(B)
      BY DEF Shows
    <2> QED
      BY <2>1
  <1>2. PICK s \in Seq(A \cup B) : s = a \o b
    BY <1>1, Joined
  <1>3. /\ Len(s) = Len(a) + Len(b) /\ Len(a) \in Nat /\ Len(b) \in Nat
        /\ \A i \in 1..Len(a) : s[i] = a[i] /\ a[i] \in A
        /\ \A i \in (Len(a) + 1)..Len(s) : /\ i - Len(a) \in 1..Len(b)
                                           /\ s[i] = b[i - Len(a)] /\ s[i] \in B
    <2>1. Len(s) = Len(a) + Len(b) /\ Len(a) \in Nat /\ Len(b) \in Nat
      BY <1>1, <1>2, Joined
    <2>2. /\ \A i \in 1..Len(a) : s[i] = a[i]
          /\ \A i \in (Len(a) + 1)..Len(s) : s[i] = b[i - Len(a)]
      BY <1>1, <1>2, <2>1, Joined
    <2>3. /\ \A i \in 1..Len(a) : a[i] \in A
          /\ \A i \in 1..Len(b) : b[i] \in B
      BY DEF Shows
    <2>4. \A i \in (Len(a) + 1)..Len(s) : i - Len(a) \in 1..Len(b)
      BY <2>1
    <2> QED
      BY <2>1, <2>2, <2>3, <2>4
  <1>4. ASSUME NEW x \in A \cup B PROVE \E i \in 1..Len(s) : s[i] = x
    <2>1. CASE x \in A
      <3>1. PICK i \in 1..Len(a) : a[i] = x
        BY <2>1 DEF Shows
      <3>2. i \in 1..Len(s)
        BY <1>3
      <3> QED
        BY <1>3, <3>1, <3>2
    <2>2. CASE x \in B
      <3>1. PICK i \in 1..Len(b) : b[i] = x
        BY <2>2 DEF Shows
      <3>2. PICK j : j = i + Len(a)
        OBVIOUS
      <3>3. j \in (Len(a) + 1)..Len(s) /\ j - Len(a) = i /\ j \in 1..Len(s)
        BY <1>3, <3>2
      <3> QED
        BY <1>3, <3>1, <3>3
    <2> QED
      BY <2>1, <2>2
  <1>5. ASSUME NEW i \in 1..Len(s), NEW j \in 1..Len(s), s[i] = s[j] PROVE i = j
    <2>1. CASE i <= Len(a) /\ j <= Len(a)
      <3>1. i \in 1..Len(a) /\ j \in 1..Len(a)
        BY <1>3, <2>1
      <3>2. a[i] = a[j]
        BY <1>3, <1>5, <3>1
      <3> QED
        BY <3>1, <3>2 DEF Shows
    <2>2. CASE i > Len(a) /\ j > Len(a)
      <3>1. i \in (Len(a) + 1)..Len(s) /\ j \in (Len(a) + 1)..Len(s)
        BY <1>3, <2>2
      <3>2. /\ b[i - Len(a)] = b[j - Len(a)]
            /\ i - Len(a) \in 1..Len(b) /\ j - Len(a) \in 1..Len(b)
        BY <1>3, <1>5, <3>1
      <3>3. i - Len(a) = j - Len(a)
        BY <3>2 DEF Shows
      <3> QED
        BY <1>3, <3>3
    <2>3. CASE i <= Len(a) /\ j > Len(a)
      <3>1. i \in 1..Len(a) /\ j \in (Len(a) + 1)..Len(s)
        BY <1>3, <2>3
      <3> QED
        BY <1>3, <1>5, <3>1
    <2>4. CASE i > Len(a) /\ j <= Len(a)
      <3>1. j \in 1..Len(a) /\ i \in (Len(a) + 1)..Len(s)
        BY <1>3, <2>4
      <3> QED
        BY <1>3, <1>5, <3>1
    <2>5. i \in Nat /\ j \in Nat
      BY <1>3
    <2> QED
      BY <1>3, <2>1, <2>2, <2>3, <2>4, <2>5
  <1> QED
    BY <1>2, <1>4, <1>5 DEF Shows

-----------------------------------------------------------------------------
(* A hit by its type and rank; and those between two places in the order of *)
(* each type.                                                               *)
HitSet == [type : Types, rank : Nat]
Between(from, to) == {h \in HitSet : from[h.type] < h.rank /\ h.rank <= to[h.type]}

(* The slots: one for each hit of each type.                                *)
SlotOf(t, k) ==
  IF t = "users" THEN 5 * (k - 1)
  ELSE IF t = "hashtags" THEN 5 * (k - 1) + 4
  ELSE 5 * ((k - 1) \div 3) + ((k - 1) % 3) + 1

(* Division by the five slots of a round and by its three posts.            *)
LEMMA Division ==
  /\ \A n \in Nat : /\ n \div 5 \in Nat /\ n % 5 \in 0..4 /\ n = 5 * (n \div 5) + (n % 5)
                   /\ n \div 3 \in Nat /\ n % 3 \in 0..2 /\ n = 3 * (n \div 3) + (n % 3)
  /\ \A a \in Nat, b \in 0..4 : (5 * a + b) \div 5 = a /\ (5 * a + b) % 5 = b
  /\ \A a \in Nat, b \in 0..2 : (3 * a + b) \div 3 = a /\ (3 * a + b) % 3 = b
  <1>1. \A n \in Nat : n \div 5 \in Nat /\ n % 5 \in 0..4 /\ n = 5 * (n \div 5) + (n % 5)
    OBVIOUS
  <1>2. \A n \in Nat : n \div 3 \in Nat /\ n % 3 \in 0..2 /\ n = 3 * (n \div 3) + (n % 3)
    OBVIOUS
  <1>3. \A a \in Nat, b \in 0..4 : (5 * a + b) \div 5 = a /\ (5 * a + b) % 5 = b
    OBVIOUS
  <1>4. \A a \in Nat, b \in 0..2 : (3 * a + b) \div 3 = a /\ (3 * a + b) % 3 = b
    OBVIOUS
  <1> QED
    BY <1>1, <1>2, <1>3, <1>4

(* Every slot offers one hit, and every hit is offered by one slot.         *)
LEMMA Slots ==
  /\ \A p \in Nat : /\ Slot(p) \in [type : Types, k : Nat \ {0}]
                   /\ SlotOf(Slot(p).type, Slot(p).k) = p
  /\ \A t \in Types, k \in Nat \ {0} :
       /\ SlotOf(t, k) \in 0..(5 * k)
       /\ Slot(SlotOf(t, k)) = [type |-> t, k |-> k]
  <1>1. ASSUME NEW p \in Nat
        PROVE  /\ Slot(p) \in [type : Types, k : Nat \ {0}]
               /\ SlotOf(Slot(p).type, Slot(p).k) = p
    <2>1. PICK a \in Nat, b \in 0..4 : a = p \div 5 /\ b = p % 5 /\ p = 5 * a + b
      BY Division
    <2>2. CASE b = 0
      <3>1. Slot(p) = [type |-> "users", k |-> a + 1]
        BY <2>1, <2>2 DEF Slot
      <3> QED
        BY <2>1, <2>2, <3>1 DEF SlotOf, Types
    <2>3. CASE b = 4
      <3>1. Slot(p) = [type |-> "hashtags", k |-> a + 1]
        BY <2>1, <2>3 DEF Slot
      <3> QED
        BY <2>1, <2>3, <3>1 DEF SlotOf, Types
    <2>4. CASE b \in 1..3
      <3>1. Slot(p) = [type |-> "posts", k |-> 3 * a + b]
        BY <2>1, <2>4 DEF Slot
      <3>2. PICK c \in 0..2 : c = b - 1
        BY <2>4
      <3>3. (3 * a + b) - 1 = 3 * a + c /\ 3 * a + b \in Nat \ {0}
        BY <2>1, <2>4, <3>2
      <3>4. ((3 * a + b) - 1) \div 3 = a /\ ((3 * a + b) - 1) % 3 = c
        BY <3>3, Division
      <3>5. SlotOf("posts", 3 * a + b) = 5 * a + c + 1
        BY <3>4 DEF SlotOf
      <3> QED
        BY <2>1, <2>4, <3>1, <3>2, <3>3, <3>5 DEF Types
    <2> QED
      BY <2>1, <2>2, <2>3, <2>4
  <1>2. ASSUME NEW t \in Types, NEW k \in Nat \ {0}
        PROVE  SlotOf(t, k) \in 0..(5 * k) /\ Slot(SlotOf(t, k)) = [type |-> t, k |-> k]
    <2>0. PICK n \in Nat : n = k - 1 /\ k = n + 1
      OBVIOUS
    <2>1. CASE t = "users"
      <3>1. SlotOf(t, k) = 5 * n + 0
        BY <2>0, <2>1 DEF SlotOf
      <3>2. (5 * n + 0) \div 5 = n /\ (5 * n + 0) % 5 = 0
        BY Division
      <3>3. Slot(5 * n + 0) = [type |-> "users", k |-> n + 1]
        BY <3>2 DEF Slot
      <3>4. SlotOf(t, k) \in 0..(5 * k)
        BY <2>0, <3>1
      <3> QED
        BY <2>0, <2>1, <3>1, <3>3, <3>4
    <2>2. CASE t = "hashtags"
      <3>1. SlotOf(t, k) = 5 * n + 4
        BY <2>0, <2>2 DEF SlotOf
      <3>2. (5 * n + 4) \div 5 = n /\ (5 * n + 4) % 5 = 4
        BY Division
      <3> QED
        BY <2>0, <2>2, <3>1, <3>2 DEF Slot
    <2>3. CASE t = "posts"
      <3>1. PICK a \in Nat, b \in 0..2 : a = n \div 3 /\ b = n % 3 /\ n = 3 * a + b
        BY Division
      <3>2. SlotOf(t, k) = 5 * a + b + 1
        BY <2>0, <2>3, <3>1 DEF SlotOf
      <3>3. PICK c \in 1..3 : c = b + 1
        OBVIOUS
      <3>4. SlotOf(t, k) = 5 * a + c /\ (5 * a + c) \div 5 = a /\ (5 * a + c) % 5 = c
        BY <3>2, <3>3, Division
      <3>5. Slot(5 * a + c) = [type |-> "posts", k |-> 3 * a + c]
        BY <3>4 DEF Slot
      <3> QED
        BY <2>0, <2>3, <3>1, <3>3, <3>4, <3>5
    <2> QED
      BY <2>1, <2>2, <2>3 DEF Types
  <1> QED
    BY <1>1, <1>2

(* Each slot that is filled is a hit of the page, and the other way round.  *)
LEMMA FilledSlots ==
  ASSUME NEW ranks, \A t \in Types : Len(ranks[t]) \in Nat
  PROVE  /\ Filled(ranks) \in SUBSET Nat /\ IsFiniteSet(Filled(ranks))
         /\ \A p \in Filled(ranks) : Slot(p).type \in Types /\ Slot(p).k \in 1..Len(ranks[Slot(p).type])
         /\ \A t \in Types : \A k \in 1..Len(ranks[t]) : SlotOf(t, k) \in Filled(ranks)
  <1>0. "users" \in Types /\ "posts" \in Types /\ "hashtags" \in Types
    BY DEF Types
  <1>1. PICK nu \in Nat, np \in Nat, nh \in Nat :
          nu = Len(ranks["users"]) /\ np = Len(ranks["posts"]) /\ nh = Len(ranks["hashtags"])
    BY <1>0
  <1>2. PICK rounds : rounds = Most(Most(nu, nh), (np + 2) \div 3)
    OBVIOUS
  <1>3. rounds \in Nat /\ nu <= rounds /\ nh <= rounds /\ (np + 2) \div 3 <= rounds
    <2>1. (np + 2) \div 3 \in Nat
      BY Division
    <2> QED
      BY <1>2, <2>1 DEF Most
  <1>4. Filled(ranks) = {p \in 0..(5 * rounds - 1) : Slot(p).k <= Len(ranks[Slot(p).type])}
    BY <1>1, <1>2 DEF Filled
  <1>5. Filled(ranks) \in SUBSET Nat /\ IsFiniteSet(Filled(ranks))
    <2>1. PICK top \in Int : top = 5 * rounds - 1
      BY <1>3
    <2>2. IsFiniteSet(0..top) /\ Filled(ranks) \in SUBSET (0..top)
      BY <1>4, <2>1, FS_Interval
    <2> QED
      BY <2>2, FS_Subset
  <1>6. ASSUME NEW p \in Filled(ranks)
        PROVE  Slot(p).type \in Types /\ Slot(p).k \in 1..Len(ranks[Slot(p).type])
    <2>1. Slot(p) \in [type : Types, k : Nat \ {0}] /\ Slot(p).k <= Len(ranks[Slot(p).type])
      BY <1>4, <1>5, Slots
    <2> QED
      BY <2>1
  <1>7. ASSUME NEW t \in Types, NEW k \in 1..Len(ranks[t])
        PROVE  SlotOf(t, k) \in Filled(ranks)
    <2>0. k \in Nat \ {0}
      <3>1. Len(ranks[t]) \in Nat
        OBVIOUS
      <3> QED
        BY <3>1
    <2>1. k \in Nat \ {0} /\ SlotOf(t, k) \in Nat /\ Slot(SlotOf(t, k)) = [type |-> t, k |-> k]
      BY <2>0, Slots
    <2>2. SlotOf(t, k) <= 5 * rounds - 1
      <3>1. CASE t = "users"
        BY <1>1, <1>3, <2>1, <3>1 DEF SlotOf
      <3>2. CASE t = "hashtags"
        BY <1>1, <1>3, <2>1, <3>2 DEF SlotOf
      <3>3. CASE t = "posts"
        <4>1. PICK n \in Nat : n = k - 1 /\ n + 1 <= np
          BY <1>1, <2>1, <3>3
        <4>2. SlotOf(t, k) = 5 * (n \div 3) + (n % 3) + 1
          BY <3>3, <4>1 DEF SlotOf
        <4>3. n \div 3 \in Nat /\ n % 3 \in 0..2 /\ n = 3 * (n \div 3) + (n % 3)
          BY Division
        <4>4. /\ (np + 2) \div 3 \in Nat /\ (np + 2) % 3 \in 0..2
              /\ np + 2 = 3 * ((np + 2) \div 3) + ((np + 2) % 3)
          BY Division
        <4>5. n \div 3 < (np + 2) \div 3
          BY <4>1, <4>3, <4>4
        <4> QED
          BY <1>3, <4>2, <4>3, <4>4, <4>5
      <3> QED
        BY <3>1, <3>2, <3>3 DEF Types
    <2> QED
      BY <1>3, <1>4, <2>1, <2>2
  <1> QED
    BY <1>5, <1>6, <1>7

(* Interleaving shows the hits of all types, each once.                     *)
LEMMA BlendShows ==
  ASSUME NEW ranks, NEW from \in Counts, NEW to \in Counts,
         \A t \in Types : Shows(ranks[t], (from[t] + 1)..to[t])
  PROVE  Shows(Blend(ranks), Between(from, to))
  <1>1. \A t \in Types :
          /\ Len(ranks[t]) \in Nat
          /\ \A k \in 1..Len(ranks[t]) : ranks[t][k] \in (from[t] + 1)..to[t]
    <2> SUFFICES ASSUME NEW t \in Types
                 PROVE  /\ Len(ranks[t]) \in Nat
                        /\ \A k \in 1..Len(ranks[t]) : ranks[t][k] \in (from[t] + 1)..to[t]
      OBVIOUS
    <2>1. PICK S : S = (from[t] + 1)..to[t]
      OBVIOUS
    <2>2. ranks[t] \in Seq(S)
      BY <2>1 DEF Shows
    <2>3. PICK r \in Seq(S) : r = ranks[t]
      BY <2>2
    <2>4. Len(r) \in Nat /\ \A k \in 1..Len(r) : r[k] \in S
      OBVIOUS
    <2> QED
      BY <2>1, <2>3, <2>4
  <1>2. Shows(Ascending(Filled(ranks)), Filled(ranks))
    BY <1>1, FilledSlots, AscendingShows
  <1>3. PICK slots : slots = Ascending(Filled(ranks))
    OBVIOUS
  <1>4. slots \in Seq(Filled(ranks)) /\ Len(slots) \in Nat /\ \A i \in 1..Len(slots) : slots[i] \in Filled(ranks)
    BY <1>2, <1>3 DEF Shows
  <1>5. PICK s : s = [i \in 1..Len(slots) |-> [type |-> Slot(slots[i]).type,
                                              rank |-> ranks[Slot(slots[i]).type][Slot(slots[i]).k]]]
    OBVIOUS
  <1>6. Blend(ranks) = s
    BY <1>3, <1>5 DEF Blend
  <1>7. ASSUME NEW i \in 1..Len(slots)
        PROVE  /\ s[i] = [type |-> Slot(slots[i]).type, rank |-> ranks[Slot(slots[i]).type][Slot(slots[i]).k]]
               /\ s[i] \in Between(from, to)
    <2>1. PICK p, t, k : p = slots[i] /\ t = Slot(p).type /\ k = Slot(p).k
      OBVIOUS
    <2>2. t \in Types /\ k \in 1..Len(ranks[t])
      BY <1>1, <1>4, <2>1, FilledSlots
    <2>3. s[i] = [type |-> t, rank |-> ranks[t][k]]
      BY <1>5, <2>1
    <2>4. ranks[t][k] \in (from[t] + 1)..to[t] /\ from[t] \in Nat /\ to[t] \in Nat
      BY <1>1, <2>2 DEF Counts
    <2>5. s[i] \in Between(from, to)
      BY <2>2, <2>3, <2>4 DEF Between, HitSet
    <2> QED
      BY <2>1, <2>3, <2>5
  <1>8. s \in Seq(Between(from, to)) /\ Len(s) = Len(slots)
    BY <1>4, <1>5, <1>7
  <1>9. ASSUME NEW h \in Between(from, to) PROVE \E i \in 1..Len(slots) : s[i] = h
    <2>1. /\ h.type \in Types /\ h.rank \in Nat /\ h = [type |-> h.type, rank |-> h.rank]
          /\ from[h.type] < h.rank /\ h.rank <= to[h.type]
      BY DEF Between, HitSet
    <2>2. h.rank \in (from[h.type] + 1)..to[h.type]
      BY <2>1 DEF Counts
    <2>3. PICK k \in 1..Len(ranks[h.type]) : ranks[h.type][k] = h.rank
      BY <2>1, <2>2 DEF Shows
    <2>4. SlotOf(h.type, k) \in Filled(ranks)
      BY <1>1, <2>1, FilledSlots
    <2>5. PICK i \in 1..Len(slots) : slots[i] = SlotOf(h.type, k)
      BY <1>2, <1>3, <2>4 DEF Shows
    <2>6. Slot(slots[i]) = [type |-> h.type, k |-> k]
      <3>1. k \in Nat \ {0}
        BY <1>1, <2>1
      <3> QED
        BY <2>1, <2>5, <3>1, Slots
    <2> QED
      BY <1>7, <2>1, <2>3, <2>6
  <1>10. ASSUME NEW i \in 1..Len(slots), NEW j \in 1..Len(slots), s[i] = s[j] PROVE i = j
    <2>1. PICK p, q : p = slots[i] /\ q = slots[j]
      OBVIOUS
    <2>2. /\ Slot(p).type \in Types /\ Slot(p).k \in 1..Len(ranks[Slot(p).type])
          /\ Slot(q).type \in Types /\ Slot(q).k \in 1..Len(ranks[Slot(q).type])
      BY <1>1, <1>4, <2>1, FilledSlots
    <2>3. PICK t : t = Slot(p).type
      OBVIOUS
    <2>4. Slot(q).type = t /\ ranks[t][Slot(p).k] = ranks[t][Slot(q).k]
      <3>1. /\ s[i] = [type |-> Slot(p).type, rank |-> ranks[Slot(p).type][Slot(p).k]]
            /\ s[j] = [type |-> Slot(q).type, rank |-> ranks[Slot(q).type][Slot(q).k]]
        BY <1>7, <2>1
      <3>2. /\ s[i].type = Slot(p).type /\ s[i].rank = ranks[Slot(p).type][Slot(p).k]
            /\ s[j].type = Slot(q).type /\ s[j].rank = ranks[Slot(q).type][Slot(q).k]
        BY <3>1
      <3> QED
        BY <1>10, <2>3, <3>2
    <2>5. Slot(p).k = Slot(q).k
      BY <2>2, <2>3, <2>4 DEF Shows
    <2>6. p \in Nat /\ q \in Nat
      BY <1>1, <1>4, <2>1, FilledSlots
    <2>7. p = q
      BY <2>3, <2>4, <2>5, <2>6, Slots
    <2> QED
      BY <1>2, <1>3, <2>1, <2>7 DEF Shows
  <1> QED
    BY <1>6, <1>8, <1>9, <1>10 DEF Shows

(* What is arranged of each type are its next hits.                         *)
LEMMA ArrangedShows ==
  ASSUME NEW at \in Counts, NEW consumed \in Counts, NEW t \in Types
  PROVE  Shows(Arranged(at, consumed)[t], (at[t] + 1)..(at[t] + consumed[t]))
  <1>1. PICK ranks : ranks = (at[t] + 1)..(at[t] + consumed[t])
    OBVIOUS
  <1>2. ranks \in SUBSET Nat /\ IsFiniteSet(ranks)
    <2>1. at[t] \in Nat /\ consumed[t] \in Nat
      BY DEF Counts
    <2>2. PICK m \in Int, n \in Int : m = at[t] + 1 /\ n = at[t] + consumed[t]
      BY <2>1
    <2>3. ranks = m..n /\ m \in Nat
      BY <1>1, <2>1, <2>2
    <2>4. IsFiniteSet(m..n)
      BY FS_Interval
    <2>5. \A x \in m..n : x \in Nat
      BY <2>3
    <2> QED
      BY <2>3, <2>4, <2>5
  <1>3. Arranged(at, consumed)[t] = IF t = "users" THEN Partition(ranks) ELSE Ascending(ranks)
    BY <1>1 DEF Arranged, Ranks
  <1>4. Shows(Ascending(ranks), ranks)
    BY <1>2, AscendingShows
  <1>5. Shows(Partition(ranks), ranks)
    <2>1. PICK A, B : A = ranks \cap Followed /\ B = ranks \ Followed
      OBVIOUS
    <2>2. /\ A \in SUBSET Nat /\ IsFiniteSet(A) /\ B \in SUBSET Nat /\ IsFiniteSet(B)
          /\ A \cap B = {} /\ A \cup B = ranks
      BY <1>2, <2>1, FS_Subset
    <2>3. Shows(Ascending(A), A) /\ Shows(Ascending(B), B)
      BY <2>2, AscendingShows
    <2> QED
      BY <2>1, <2>2, <2>3, JoinedShow DEF Partition
  <1> QED
    BY <1>1, <1>3, <1>4, <1>5

(* The shares of a page.                                                    *)
LEMMA TargetsAreShares ==
  ASSUME NEW limit \in 1..50
  PROVE  /\ Targets(limit) \in Counts
         /\ limit > 1 => Targets(limit)["users"] > 0 /\ Targets(limit)["posts"] > 0
  <1>1. PICK share \in Nat : share = IF limit < 5 THEN 1 ELSE limit \div 5
    BY Division
  <1>2. share > 0 /\ (limit > 2 => 2 * share < limit)
    <2>1. /\ limit \div 5 \in Nat /\ limit % 5 \in 0..4
          /\ limit = 5 * (limit \div 5) + (limit % 5)
      BY Division
    <2> QED
      BY <1>1, <2>1
  <1>3. CASE limit = 1
    <2>1. Targets(limit) = [users |-> 0, posts |-> 1, hashtags |-> 0]
      BY <1>3 DEF Targets
    <2> QED
      BY <1>3, <2>1 DEF Counts, Types
  <1>4. CASE limit = 2
    <2>1. Targets(limit) = [users |-> 1, posts |-> 1, hashtags |-> 0]
      BY <1>4 DEF Targets
    <2> QED
      BY <2>1 DEF Counts, Types
  <1>5. CASE limit > 2
    <2>1. PICK rest \in Nat : rest = limit - 2 * share /\ rest > 0
      BY <1>2, <1>5
    <2>2. Targets(limit) = [users |-> share, posts |-> rest, hashtags |-> share]
      BY <1>1, <1>5, <2>1 DEF Targets
    <2> QED
      BY <1>2, <2>1, <2>2 DEF Counts, Types
  <1> QED
    BY <1>3, <1>4, <1>5

(* What a page takes of each type was fetched; all of it, if nothing is     *)
(* left; and something, if there are shares of users and posts.             *)
LEMMA ConsumedIsFetched ==
  ASSUME NEW target \in Counts, NEW fetched \in Counts, \A t \in Types : fetched[t] <= target[t] + 1
  PROVE  /\ Consumed(target, fetched) \in Counts
         /\ \A t \in Types : Consumed(target, fetched)[t] <= fetched[t]
         /\ ~HasMore(target, fetched) => Consumed(target, fetched) = fetched
         /\ HasMore(target, fetched) /\ target["users"] > 0 /\ target["posts"] > 0 =>
              \E t \in Types : Consumed(target, fetched)[t] > 0
  <1>0. "users" \in Types /\ "posts" \in Types /\ "hashtags" \in Types
    BY DEF Types
  <1>1. PICK tu \in Nat, tp \in Nat, th \in Nat, fu \in Nat, fp \in Nat, fh \in Nat :
          /\ tu = target["users"] /\ tp = target["posts"] /\ th = target["hashtags"]
          /\ fu = fetched["users"] /\ fp = fetched["posts"] /\ fh = fetched["hashtags"]
    BY <1>0 DEF Counts
  <1>2. fu <= tu + 1 /\ fp <= tp + 1 /\ fh <= th + 1
    BY <1>0, <1>1
  <1>3. PICK au \in Nat, ap \in Nat, ah \in Nat :
          /\ au = Least(fu, tu) /\ ap = Least(fp, tp) /\ ah = Least(fh, th)
    BY DEF Least
  <1>4. au <= fu /\ au <= tu /\ ap <= fp /\ ap <= tp /\ ah <= fh /\ ah <= th
    BY <1>3 DEF Least
  <1>5. PICK short \in Nat, su \in Nat, sp \in Nat, sh \in Nat :
          /\ short = (tu - au) + (th - ah)
          /\ su = fu - au /\ sp = fp - ap /\ sh = fh - ah
    BY <1>4
  <1>6. PICK ep \in Nat : ep = Least(short, sp) /\ ep <= short
    BY DEF Least
  <1>7. PICK eu \in Nat : eu = Least(short - ep, su) /\ eu <= short - ep
    <2>1. PICK left \in Nat : left = short - ep
      BY <1>6
    <2>2. Least(left, su) \in Nat /\ Least(left, su) <= left
      BY DEF Least
    <2> QED
      BY <2>1, <2>2
  <1>8. PICK eh \in Nat : eh = Least(short - ep - eu, sh)
    <2>1. PICK left \in Nat : left = short - ep - eu
      BY <1>6, <1>7
    <2> QED
      BY <2>1 DEF Least
  <1>9. PICK c : c = Consumed(target, fetched)
    OBVIOUS
  <1>10. c = [t \in Types |-> Least(fetched[t], target[t]) + [posts |-> ep, users |-> eu, hashtags |-> eh][t]]
    <2>1. PICK avail : avail = [t \in Types |-> Least(fetched[t], target[t])]
      OBVIOUS
    <2>2. avail["users"] = au /\ avail["posts"] = ap /\ avail["hashtags"] = ah
      BY <1>0, <1>1, <1>3, <2>1
    <2>3. PICK spare : spare = [t \in Types |-> fetched[t] - avail[t]]
      OBVIOUS
    <2>4. spare["users"] = su /\ spare["posts"] = sp /\ spare["hashtags"] = sh
      BY <1>0, <1>1, <1>5, <2>2, <2>3
    <2> QED
      BY <1>1, <1>5, <1>6, <1>7, <1>8, <1>9, <2>1, <2>2, <2>3, <2>4 DEF Consumed
  <1>11. c["users"] = au + eu /\ c["posts"] = ap + ep /\ c["hashtags"] = ah + eh
    BY <1>0, <1>1, <1>3, <1>10
  <1>12. ep <= sp /\ eu <= su /\ eh <= sh
    BY <1>6, <1>7, <1>8 DEF Least
  <1>13. /\ \A t \in Types : c[t] \in Nat /\ c[t] <= fetched[t]
         /\ c \in Counts
    <2>1. \A t \in Types : c[t] \in Nat /\ c[t] <= fetched[t]
      BY <1>1, <1>4, <1>5, <1>11, <1>12 DEF Types
    <2>2. \E f : c = [t \in Types |-> f[t]]
      BY <1>10
    <2> QED
      BY <2>1, <2>2 DEF Counts
  <1>14. ASSUME ~HasMore(target, fetched) PROVE c = fetched
    <2>1. fu <= tu /\ fp <= tp /\ fh <= th
      BY <1>0, <1>1, <1>2, <1>14 DEF HasMore
    <2>1a. au = fu /\ ap = fp /\ ah = fh
      BY <1>3, <2>1 DEF Least
    <2>1b. eu = 0 /\ ep = 0 /\ eh = 0
      BY <1>5, <1>12, <2>1a
    <2>2. \A t \in Types : c[t] = fetched[t]
      BY <1>1, <1>11, <2>1a, <2>1b DEF Types
    <2> QED
      BY <1>13, <2>2 DEF Counts
  <1>15. ASSUME HasMore(target, fetched), tu > 0, tp > 0 PROVE au + eu > 0 \/ ap + ep > 0 \/ ah + eh > 0
    <2>1. fu = tu + 1 \/ fp = tp + 1 \/ fh = th + 1
      BY <1>1, <1>15 DEF HasMore, Types
    <2>2. CASE fu = tu + 1
      BY <1>3, <1>15, <2>2 DEF Least
    <2>3. CASE fp = tp + 1
      BY <1>3, <1>15, <2>3 DEF Least
    <2>4. CASE fh = th + 1
      BY <1>3, <1>4, <1>5, <1>6, <1>7, <1>8, <1>15, <2>4 DEF Least
    <2> QED
      BY <2>1, <2>2, <2>3, <2>4
  <1> QED
    BY <1>0, <1>1, <1>9, <1>11, <1>13, <1>14, <1>15

(* What is fetched of a type from an offset on.                             *)
LEMMA FetchedAreHits ==
  ASSUME NEW hits \in Nat, NEW offset \in Nat, NEW n \in Nat
  PROVE  /\ Fetch(hits, offset, n) \in Nat /\ Fetch(hits, offset, n) <= n
         /\ offset <= hits => /\ offset + Fetch(hits, offset, n) <= hits
                              /\ Fetch(hits, offset, n) # n => offset + Fetch(hits, offset, n) = hits
  BY DEF Fetch, Least

(* A page of a search shows the hits between where it starts and some place *)
(* further on; its cursor is that place, or it has none and the place is    *)
(* the end.                                                                 *)
AtMost(a, b) == \A t \in Types : a[t] <= b[t]
Takes(page, at, end) ==
  \E to \in Counts :
    /\ AtMost(at, to) /\ Shows(page.items, Between(at, to))
    /\ page.nextCursor \in {to, NoCursor}
    /\ AtMost(at, end) => /\ AtMost(to, end)
                          /\ page.nextCursor = NoCursor => to = end

(* A page of all types does so, and moves on if its limit is above one:     *)
(* users then have a share, and posts have one.                             *)
LEMMA BlendedTakes ==
  ASSUME NEW hits \in Counts, NEW at \in Counts, NEW limit \in 1..50
  PROVE  /\ Takes(Blended(hits, at, limit), at, hits)
         /\ limit > 1 => Blended(hits, at, limit).nextCursor # at
  <1>1. PICK target \in Counts :
          /\ target = Targets(limit)
          /\ limit > 1 => target["users"] > 0 /\ target["posts"] > 0
    BY TargetsAreShares
  <1>2. PICK fetched : fetched = [t \in Types |-> Fetch(hits[t], at[t], target[t] + 1)]
    OBVIOUS
  <1>3. ASSUME NEW t \in Types
        PROVE  /\ hits[t] \in Nat /\ at[t] \in Nat /\ target[t] \in Nat
               /\ fetched[t] \in Nat /\ fetched[t] <= target[t] + 1
               /\ at[t] <= hits[t] => /\ at[t] + fetched[t] <= hits[t]
                                      /\ fetched[t] # target[t] + 1 => at[t] + fetched[t] = hits[t]
    <2>1. hits[t] \in Nat /\ at[t] \in Nat /\ target[t] \in Nat
      BY DEF Counts
    <2>2. PICK n \in Nat : n = target[t] + 1
      BY <2>1
    <2>3. fetched[t] = Fetch(hits[t], at[t], n)
      BY <1>2, <2>2
    <2>4. PICK h \in Nat, o \in Nat : h = hits[t] /\ o = at[t]
      BY <2>1
    <2>5. /\ Fetch(h, o, n) \in Nat /\ Fetch(h, o, n) <= n
          /\ o <= h => o + Fetch(h, o, n) <= h /\ (Fetch(h, o, n) # n => o + Fetch(h, o, n) = h)
      BY FetchedAreHits
    <2> QED
      BY <2>1, <2>2, <2>3, <2>4, <2>5
  <1>4. fetched \in Counts
    BY <1>2, <1>3 DEF Counts
  <1>5. PICK consumed : consumed = Consumed(target, fetched)
    OBVIOUS
  <1>6. /\ consumed \in Counts
        /\ \A t \in Types : consumed[t] \in Nat /\ consumed[t] <= fetched[t]
        /\ ~HasMore(target, fetched) => consumed = fetched
        /\ HasMore(target, fetched) /\ limit > 1 => \E t \in Types : consumed[t] > 0
    <2>1. \A t \in Types : fetched[t] <= target[t] + 1
      BY <1>3
    <2>2. /\ consumed \in Counts
          /\ \A t \in Types : consumed[t] <= fetched[t]
          /\ ~HasMore(target, fetched) => consumed = fetched
          /\ HasMore(target, fetched) /\ limit > 1 => \E t \in Types : consumed[t] > 0
      BY <1>1, <1>4, <1>5, <2>1, ConsumedIsFetched
    <2>3. \A t \in Types : consumed[t] \in Nat
      BY <2>2 DEF Counts
    <2> QED
      BY <2>2, <2>3
  <1>7. PICK to : to = [t \in Types |-> at[t] + consumed[t]]
    OBVIOUS
  <1>8. to \in Counts /\ \A t \in Types : to[t] = at[t] + consumed[t]
    BY <1>3, <1>6, <1>7 DEF Counts
  <1>9. PICK page : page = Blended(hits, at, limit)
    OBVIOUS
  <1>10. /\ page.items = Blend(Arranged(at, consumed))
         /\ page.nextCursor = IF HasMore(target, fetched) THEN to ELSE NoCursor
    BY <1>1, <1>2, <1>5, <1>7, <1>9 DEF Blended, NewCursorPage
  <1>11. Shows(page.items, Between(at, to))
    <2>1. \A t \in Types : Shows(Arranged(at, consumed)[t], (at[t] + 1)..to[t])
      BY <1>6, <1>8, ArrangedShows
    <2> QED
      BY <1>8, <1>10, <2>1, BlendShows
  <1>12. AtMost(at, to)
    BY <1>3, <1>6, <1>8 DEF AtMost
  <1>13. ASSUME AtMost(at, hits)
         PROVE  AtMost(to, hits) /\ (page.nextCursor = NoCursor => to = hits)
    <2>1. AtMost(to, hits)
      <3>1. ASSUME NEW t \in Types PROVE to[t] <= hits[t]
        BY <1>3, <1>6, <1>8, <1>13 DEF AtMost
      <3> QED
        BY <3>1 DEF AtMost
    <2>2. ASSUME page.nextCursor = NoCursor PROVE to = hits
      <3>1. ~HasMore(target, fetched)
        BY <1>8, <1>10, <2>2, CountsAssumption
      <3>2. ASSUME NEW t \in Types PROVE to[t] = hits[t]
        <4>1. fetched[t] # target[t] + 1 /\ consumed[t] = fetched[t]
          BY <1>6, <3>1 DEF HasMore
        <4> QED
          BY <1>3, <1>8, <1>13, <4>1 DEF AtMost
      <3> QED
        BY <1>8, <3>2 DEF Counts
    <2> QED
      BY <2>1, <2>2
  <1>14. ASSUME limit > 1, page.nextCursor = at PROVE FALSE
    <2>1. HasMore(target, fetched) /\ to = at
      BY <1>10, <1>14, CountsAssumption
    <2>2. PICK t \in Types : consumed[t] > 0
      BY <1>6, <1>14, <2>1
    <2>3. at[t] = at[t] + consumed[t] /\ at[t] \in Nat /\ consumed[t] \in Nat
      BY <1>3, <1>6, <1>8, <2>1
    <2> QED
      BY <2>2, <2>3
  <1> QED
    BY <1>8, <1>9, <1>10, <1>11, <1>12, <1>13, <1>14 DEF Takes

(* Of one type, the same; the others are not begun.                         *)
Only(type, hits) == [t \in Types |-> IF t = type THEN hits[t] ELSE 0]

(* So does a page of one type, which moves on whenever it is full.          *)
LEMMA SingleTakes ==
  ASSUME NEW type \in Types, NEW hits \in Counts, NEW at \in Counts, NEW limit \in 1..50
  PROVE  /\ Takes(Single(type, hits, at, limit), at, Only(type, hits))
         /\ Single(type, hits, at, limit).nextCursor # at
  <1>1. PICK count \in Nat :
          /\ count = Fetch(hits[type], at[type], limit) /\ count <= limit
          /\ at[type] <= hits[type] => /\ at[type] + count <= hits[type]
                                       /\ count # limit => at[type] + count = hits[type]
    <2>1. hits[type] \in Nat /\ at[type] \in Nat /\ limit \in Nat
      BY DEF Counts
    <2> QED
      BY <2>1, FetchedAreHits
  <1>2. PICK to : to = [at EXCEPT ![type] = @ + count]
    OBVIOUS
  <1>3. /\ to \in Counts /\ to[type] = at[type] + count
        /\ \A t \in Types : t # type => to[t] = at[t]
        /\ \A t \in Types : at[t] \in Nat /\ to[t] \in Nat /\ hits[t] \in Nat
    BY <1>1, <1>2 DEF Counts
  <1>4. PICK s : s = [i \in 1..count |-> [type |-> type, rank |-> at[type] + i]]
    OBVIOUS
  <1>5. PICK page : page = Single(type, hits, at, limit)
    OBVIOUS
  <1>6. /\ page.items = s
        /\ page.nextCursor = IF count >= limit THEN [at EXCEPT ![type] = @ + limit] ELSE NoCursor
    BY <1>1, <1>4, <1>5 DEF Single, NewCursorPage
  <1>7. page.nextCursor = IF count = limit THEN to ELSE NoCursor
    <2>1. CASE count = limit
      BY <1>2, <1>6, <2>1
    <2>2. CASE count # limit
      BY <1>1, <1>6, <2>2
    <2> QED
      BY <2>1, <2>2
  <1>8. Shows(s, Between(at, to))
    <2>1. ASSUME NEW i \in 1..count
          PROVE  s[i] = [type |-> type, rank |-> at[type] + i] /\ s[i] \in Between(at, to)
      BY <1>1, <1>3, <1>4 DEF Between, HitSet
    <2>2. s \in Seq(Between(at, to)) /\ Len(s) = count
      BY <1>1, <1>4, <2>1
    <2>3. ASSUME NEW h \in Between(at, to) PROVE \E i \in 1..count : s[i] = h
      <3>1. /\ h.type \in Types /\ h.rank \in Nat /\ h = [type |-> h.type, rank |-> h.rank]
            /\ at[h.type] < h.rank /\ h.rank <= to[h.type]
        BY DEF Between, HitSet
      <3>2. h.type = type
        BY <1>3, <3>1
      <3>3. PICK i \in 1..count : i = h.rank - at[type]
        BY <1>1, <1>3, <3>1, <3>2
      <3>4. at[type] + i = h.rank
        BY <1>3, <3>1, <3>3
      <3> QED
        BY <2>1, <3>1, <3>2, <3>4
    <2>4. ASSUME NEW i \in 1..count, NEW j \in 1..count, s[i] = s[j] PROVE i = j
      <3>0. /\ s[i] = [type |-> type, rank |-> at[type] + i]
            /\ s[j] = [type |-> type, rank |-> at[type] + j]
        BY <2>1
      <3>1. s[i].rank = at[type] + i /\ s[j].rank = at[type] + j
        BY <3>0
      <3> QED
        BY <1>1, <1>3, <2>4, <3>1
    <2> QED
      BY <2>2, <2>3, <2>4 DEF Shows
  <1>9. AtMost(at, to)
    BY <1>1, <1>3 DEF AtMost
  <1>10. ASSUME AtMost(at, Only(type, hits))
         PROVE  /\ AtMost(to, Only(type, hits))
                /\ page.nextCursor = NoCursor => to = Only(type, hits)
    <2>1. /\ at[type] <= hits[type]
          /\ \A t \in Types : t # type => at[t] = 0
      <3>1. \A t \in Types : at[t] <= (IF t = type THEN hits[t] ELSE 0)
        BY <1>10 DEF AtMost, Only
      <3> QED
        BY <1>3, <3>1
    <2>2. AtMost(to, Only(type, hits))
      BY <1>1, <1>3, <2>1 DEF AtMost, Only
    <2>3. ASSUME page.nextCursor = NoCursor PROVE to = Only(type, hits)
      <3>1. count # limit
        BY <1>3, <1>7, <2>3, CountsAssumption
      <3>2. \A t \in Types : to[t] = (IF t = type THEN hits[t] ELSE 0)
        BY <1>1, <1>3, <2>1, <3>1
      <3> QED
        BY <1>3, <3>2 DEF Only, Counts
    <2> QED
      BY <2>2, <2>3
  <1>11. page.nextCursor # at
    <2>1. CASE count = limit
      <3>1. page.nextCursor = to /\ to[type] = at[type] + count
        BY <1>3, <1>7, <2>1
      <3>2. to[type] # at[type]
        BY <1>3, <2>1, <3>1
      <3> QED
        BY <3>1, <3>2
    <2>2. CASE count # limit
      BY <1>7, <2>2, CountsAssumption
    <2> QED
      BY <2>1, <2>2
  <1> QED
    BY <1>3, <1>5, <1>6, <1>7, <1>8, <1>9, <1>10, <1>11 DEF Takes

-----------------------------------------------------------------------------
(* The lists of searches.  All that a search lists ...                      *)
Ends(q) == IF Kind[q] = "all" THEN Hits[q] ELSE Only(Kind[q], Hits[q])

(* ... is either shown or after the cursor: the list shows the hits up to   *)
(* the cursor, each once.                                                   *)
Reach(q, next) == IF next = NoCursor THEN Ends(q) ELSE next
Lists(q, list, next) ==
  /\ next \in Counts \cup {NoCursor} /\ AtMost(Reach(q, next), Ends(q))
  /\ \E s : list = Marked(q, s) /\ Shows(s, Between(Start, Reach(q, next)))

(* The inductive invariant.  A page never goes from searches to tables, so  *)
(* that a request that is overtaken has a cursor of the same kind.          *)
Item == [query : Queries, item : Key \cup HitSet]
AllOf(q, list) == list \in Seq(Item) /\ \A i \in 1..Len(list) : list[i].query = q
HoldsItems(got, q, at) ==
  /\ AllOf(q, got.items)
  /\ Kind[q] # "rows" =>
       /\ got.nextCursor \in Counts \cup {NoCursor}
       /\ \E page :
            /\ Takes(page, at, Ends(q))
            /\ got.items = Marked(q, page.items) /\ got.nextCursor = page.nextCursor
            /\ (Kind[q] = "all" => MoreLimit[q] > 1) => page.nextCursor # at
PagesIInv ==
  /\ ListIInv
  /\ items \in Seq(Item) /\ overtaken \in BOOLEAN
  /\ ~overtaken => AllOf(query, items)
  /\ load # NoLoad =>
       /\ Kind[load.query] = "rows" <=> Kind[query] = "rows"
       /\ load.step = "answered" => HoldsItems(load.page, load.query, load.cursor)
  /\ Kind[query] # "rows" =>
       /\ cursor \in Counts \cup {NoCursor}
       /\ load # NoLoad => load.cursor \in Counts
       /\ ~overtaken => Lists(query, items, cursor)

(* What a search lists in the end is well-formed.                           *)
LEMMA SearchEnds ==
  ASSUME NEW q \in Queries, Kind[q] # "rows"
  PROVE  /\ Kind[q] = "all" \/ Kind[q] \in Types
         /\ Hits[q] \in Counts /\ Ends(q) \in Counts
         /\ \A t \in Types : Kind[q] \in {t, "all"} => Ends(q)[t] = Hits[q][t]
  <1>1. Hits[q] \in Counts /\ \A t \in Types : Hits[q][t] \in Nat
    BY HitsAssumption DEF Counts
  <1>2. Kind[q] = "all" \/ Kind[q] \in Types
    BY KindAssumption DEF Types
  <1>3. CASE Kind[q] = "all"
    BY <1>1, <1>3 DEF Ends
  <1>4. CASE Kind[q] \in Types
    <2>1. Kind[q] # "all"
      BY <1>4 DEF Types
    <2>2. Ends(q) = Only(Kind[q], Hits[q])
      BY <2>1 DEF Ends
    <2> QED
      BY <1>1, <1>4, <2>1, <2>2 DEF Only, Counts
  <1> QED
    BY <1>1, <1>2, <1>3, <1>4

(* A page of a search, its hits marked with the query.                      *)
LEMMA PageOfHits ==
  ASSUME NEW q \in Queries, Kind[q] # "rows", NEW at \in Counts, NEW limit \in 1..50
  PROVE  \E page :
           /\ Takes(page, at, Ends(q))
           /\ Page(q, at, limit).items = Marked(q, page.items)
           /\ Page(q, at, limit).nextCursor = page.nextCursor
           /\ (Kind[q] = "all" => limit > 1) => page.nextCursor # at
  <1>1. PICK page : page = IF Kind[q] = "all" THEN Blended(Hits[q], at, limit)
                           ELSE Single(Kind[q], Hits[q], at, limit)
    OBVIOUS
  <1>2. /\ Takes(page, at, Ends(q))
        /\ (Kind[q] = "all" => limit > 1) => page.nextCursor # at
    <2>1. CASE Kind[q] = "all"
      BY <1>1, <2>1, BlendedTakes, SearchEnds DEF Ends
    <2>2. CASE Kind[q] # "all"
      BY <1>1, <2>2, SingleTakes, SearchEnds DEF Ends
    <2> QED
      BY <2>1, <2>2
  <1>3. page = [items |-> page.items, nextCursor |-> page.nextCursor]
    BY <1>1 DEF Blended, Single, NewCursorPage
  <1>4. Page(q, at, limit) = [page EXCEPT !.items = [i \in 1..Len(page.items) |->
                                                        [query |-> q, item |-> page.items[i]]]]
    BY <1>1 DEF Page
  <1>5. /\ Page(q, at, limit).items = Marked(q, page.items)
        /\ Page(q, at, limit).nextCursor = page.nextCursor
    BY <1>3, <1>4 DEF Marked
  <1> QED
    BY <1>2, <1>5

(* Items are marked with the query of their page, whatever it lists.        *)
LEMMA MarkedItems ==
  ASSUME NEW q \in Queries, NEW S \in SUBSET (Key \cup HitSet), NEW s \in Seq(S)
  PROVE  /\ Marked(q, s) \in Seq(Item) /\ Len(Marked(q, s)) = Len(s)
         /\ \A i \in 1..Len(s) : Marked(q, s)[i] = [query |-> q, item |-> s[i]]
  <1>1. \A i \in 1..Len(s) : s[i] \in Key \cup HitSet
    OBVIOUS
  <1> QED
    BY <1>1 DEF Marked, Item

(* A page holds items of its query, and the cursor of a search is a count   *)
(* for each type.                                                           *)
LEMMA PageOfItems ==
  ASSUME TableTypeOK, NEW q \in Queries, NEW at, Kind[q] # "rows" => at \in Counts, NEW limit \in 1..50
  PROVE  /\ AllOf(q, Page(q, at, limit).items)
         /\ Kind[q] # "rows" => Page(q, at, limit).nextCursor \in Counts \cup {NoCursor}
  <1>1. ASSUME NEW S \in SUBSET (Key \cup HitSet), NEW s \in Seq(S), Page(q, at, limit).items = Marked(q, s)
        PROVE  AllOf(q, Page(q, at, limit).items)
    <2>1. PICK list : list = Page(q, at, limit).items
      OBVIOUS
    <2>2. /\ list \in Seq(Item) /\ Len(list) = Len(s)
          /\ \A i \in 1..Len(s) : list[i] = [query |-> q, item |-> s[i]]
      BY <1>1, <2>1, MarkedItems
    <2>3. ASSUME NEW i \in 1..Len(list)
          PROVE  list[i].query = q
      <3>1. list[i] = [query |-> q, item |-> s[i]]
        BY <2>2
      <3> QED
        BY <3>1
    <2>4. AllOf(q, list)
      BY <2>2, <2>3 DEF AllOf
    <2> QED
      BY <2>1, <2>4
  <1>2. CASE Kind[q] = "rows"
    <2>1. PICK s \in Seq(Key) : Page(q, at, limit).items = Marked(q, s)
      BY <1>2, PageOfRows
    <2> QED
      BY <1>1, <1>2, <2>1
  <1>3. CASE Kind[q] # "rows"
    <2>1. PICK page : /\ Takes(page, at, Ends(q))
                      /\ Page(q, at, limit).items = Marked(q, page.items)
                      /\ Page(q, at, limit).nextCursor = page.nextCursor
      BY <1>3, PageOfHits
    <2>2. PICK to \in Counts : Shows(page.items, Between(at, to)) /\ page.nextCursor \in {to, NoCursor}
      BY <2>1 DEF Takes
    <2>3. Between(at, to) \in SUBSET (Key \cup HitSet) /\ page.items \in Seq(Between(at, to))
      BY <2>2 DEF Shows, Between
    <2> QED
      BY <1>1, <2>1, <2>2, <2>3
  <1> QED
    BY <1>2, <1>3

(* The first page of a search begins its list ...                           *)
LEMMA FirstHits ==
  ASSUME NEW q \in Queries, Kind[q] # "rows"
  PROVE  Lists(q, FirstPage(q).items, FirstPage(q).nextCursor)
  <1>1. Start \in Counts /\ FirstLimit[q] \in 1..50 /\ Ends(q) \in Counts /\ AtMost(Start, Ends(q))
    <2>1. Start \in Counts /\ FirstLimit[q] \in 1..50 /\ Ends(q) \in Counts
      BY LimitsAssumption, SearchEnds DEF Start, Counts
    <2> QED
      BY <2>1 DEF AtMost, Start, Counts
  <1>2. PICK page : /\ Takes(page, Start, Ends(q))
                    /\ FirstPage(q).items = Marked(q, page.items)
                    /\ FirstPage(q).nextCursor = page.nextCursor
    BY <1>1, PageOfHits DEF FirstPage
  <1>3. PICK to \in Counts :
          /\ Shows(page.items, Between(Start, to)) /\ page.nextCursor \in {to, NoCursor}
          /\ AtMost(to, Ends(q)) /\ (page.nextCursor = NoCursor => to = Ends(q))
    BY <1>1, <1>2 DEF Takes
  <1>4. Reach(q, page.nextCursor) = to
    BY <1>3 DEF Reach
  <1> QED
    BY <1>2, <1>3, <1>4 DEF Lists

(* ... and the next one takes it on.                                        *)
LEMMA NextHits ==
  ASSUME NEW q \in Queries, Kind[q] # "rows", NEW list, NEW at \in Counts, Lists(q, list, at),
         NEW got, HoldsItems(got, q, at)
  PROVE  Lists(q, list \o got.items, got.nextCursor)
  <1>1. Start \in Counts /\ Ends(q) \in Counts
    BY SearchEnds DEF Start, Counts
  <1>2. Reach(q, at) = at
    BY CountsAssumption DEF Reach
  <1>3. PICK old : list = Marked(q, old) /\ Shows(old, Between(Start, at))
    BY <1>2 DEF Lists
  <1>4. PICK page : Takes(page, at, Ends(q)) /\ got.items = Marked(q, page.items) /\ got.nextCursor = page.nextCursor
    BY DEF HoldsItems
  <1>5. PICK to \in Counts :
          /\ AtMost(at, to) /\ Shows(page.items, Between(at, to))
          /\ page.nextCursor \in {to, NoCursor}
          /\ AtMost(to, Ends(q)) /\ (page.nextCursor = NoCursor => to = Ends(q))
    BY <1>2, <1>4 DEF Takes, Lists
  <1>6. PICK new : new = page.items
    OBVIOUS
  <1>7. Reach(q, page.nextCursor) = to
    BY <1>5 DEF Reach
  <1>8. Shows(old \o new, Between(Start, to))
    <2>1. \A t \in Types : at[t] \in Nat /\ to[t] \in Nat /\ Start[t] = 0 /\ at[t] <= to[t]
      BY <1>5 DEF Counts, Start, AtMost
    <2>2. Between(Start, at) \cap Between(at, to) = {}
      BY <2>1 DEF Between, HitSet
    <2>3. Between(Start, at) \cup Between(at, to) = Between(Start, to)
      BY <2>1 DEF Between, HitSet
    <2>4. Shows(new, Between(at, to))
      BY <1>5, <1>6
    <2> QED
      BY <1>3, <2>2, <2>3, <2>4, JoinedShow
  <1>9. list \o got.items = Marked(q, old \o new)
    <2>1. PICK A \in SUBSET HitSet, B \in SUBSET HitSet : A = Between(Start, at) /\ B = Between(at, to)
      BY DEF Between
    <2>2. old \in Seq(A) /\ new \in Seq(B)
      BY <1>3, <1>5, <1>6, <2>1 DEF Shows
    <2>3. old \in Seq(HitSet) /\ new \in Seq(HitSet)
      BY <2>2
    <2>4. PICK both \in Seq(HitSet) : both = old \o new
      BY <2>3, Joined
    <2>5. /\ Len(both) = Len(old) + Len(new) /\ Len(old) \in Nat /\ Len(new) \in Nat
          /\ \A i \in 1..Len(old) : both[i] = old[i]
          /\ \A i \in (Len(old) + 1)..(Len(old) + Len(new)) : both[i] = new[i - Len(old)]
      BY <2>3, <2>4, Joined
    <2>6. Marked(q, old) \in Seq(Item) /\ Marked(q, new) \in Seq(Item)
      BY <2>3, MarkedItems
    <2>7. /\ Len(Marked(q, old)) = Len(old) /\ Len(Marked(q, new)) = Len(new)
          /\ \A i \in 1..Len(old) : Marked(q, old)[i] = [query |-> q, item |-> old[i]]
          /\ \A i \in 1..Len(new) : Marked(q, new)[i] = [query |-> q, item |-> new[i]]
      BY <2>3, MarkedItems
    <2>8. PICK first \in Seq(Item), second \in Seq(Item) : first = Marked(q, old) /\ second = Marked(q, new)
      BY <2>6
    <2>8a. PICK all \in Seq(Item) : all = first \o second
      BY Joined
    <2>8b. /\ Len(all) = Len(first) + Len(second)
           /\ \A i \in 1..Len(first) : all[i] = first[i]
           /\ \A i \in (Len(first) + 1)..(Len(first) + Len(second)) : all[i] = second[i - Len(first)]
      BY <2>8a, Joined
    <2>9. /\ Len(all) = Len(both)
          /\ \A i \in 1..Len(old) : all[i] = Marked(q, old)[i]
          /\ \A i \in (Len(old) + 1)..(Len(old) + Len(new)) : all[i] = Marked(q, new)[i - Len(old)]
      BY <2>5, <2>7, <2>8, <2>8b
    <2>10. \A i \in 1..Len(both) : all[i] = [query |-> q, item |-> both[i]]
      <3> SUFFICES ASSUME NEW i \in 1..Len(both) PROVE all[i] = [query |-> q, item |-> both[i]]
        OBVIOUS
      <3>1. CASE i <= Len(old)
        <4>1. i \in 1..Len(old)
          BY <2>5, <3>1
        <4> QED
          BY <2>5, <2>7, <2>9, <4>1
      <3>2. CASE i > Len(old)
        <4>1. i \in (Len(old) + 1)..(Len(old) + Len(new)) /\ i - Len(old) \in 1..Len(new)
          BY <2>5, <3>2
        <4> QED
          BY <2>5, <2>7, <2>9, <4>1
      <3> QED
        BY <2>5, <3>1, <3>2
    <2>11. all = [i \in 1..Len(both) |-> [query |-> q, item |-> both[i]]]
      <3>1. all = [i \in 1..Len(all) |-> all[i]]
        OBVIOUS
      <3> QED
        BY <2>9, <2>10, <3>1
    <2> QED
      BY <1>3, <1>4, <1>6, <2>4, <2>8, <2>8a, <2>11 DEF Marked
  <1> QED
    BY <1>4, <1>5, <1>7, <1>8, <1>9 DEF Lists

(* A list that is opened.                                                   *)
LEMMA OpenedItems ==
  ASSUME TableTypeOK, NEW q \in Queries
  PROVE  /\ AllOf(q, FirstPage(q).items)
         /\ Kind[q] # "rows" => FirstPage(q).nextCursor \in Counts \cup {NoCursor}
  <1>1. Start \in Counts /\ FirstLimit[q] \in 1..50
    BY LimitsAssumption DEF Start, Counts
  <1>2. PICK at : at = IF Kind[q] = "rows" THEN NoCursor ELSE Start
    OBVIOUS
  <1>3. PICK limit \in 1..50 : limit = FirstLimit[q]
    BY <1>1
  <1>4. FirstPage(q) = Page(q, at, limit)
    BY <1>2, <1>3 DEF FirstPage
  <1>5. Kind[q] # "rows" => at \in Counts
    BY <1>1, <1>2
  <1> QED
    BY <1>4, <1>5, PageOfItems

(* The page that is open at first is the first page of its query.           *)
LEMMA PagesInitial == Init => PagesIInv
  <1> SUFFICES ASSUME Init PROVE PagesIInv
    OBVIOUS
  <1>1. ListIInv /\ load = NoLoad
    BY ListInitial DEF Init, PagesInit
  <1>2. PICK q \in Queries : query = q /\ items = FirstPage(q).items /\ cursor = FirstPage(q).nextCursor
    BY DEF Init, PagesInit
  <1>3. TableTypeOK /\ overtaken = FALSE
    BY <1>1 DEF ListIInv, Init, PagesInit
  <1>4. AllOf(q, items) /\ (Kind[q] # "rows" => cursor \in Counts \cup {NoCursor} /\ Lists(q, items, cursor))
    BY <1>2, <1>3, OpenedItems, FirstHits
  <1> QED
    BY <1>1, <1>2, <1>3, <1>4 DEF PagesIInv, AllOf

(* Going to another query opens its first page.                             *)
LEMMA NavigateKeepsPages ==
  ASSUME PagesIInv, NEW q \in Queries, Navigate(q), Kind[q] = "rows" <=> Kind[query] = "rows"
  PROVE  PagesIInv'
  <1>1. ListIInv'
    BY NavigateKeeps DEF PagesIInv
  <1>2. /\ query' = q /\ load' = load /\ overtaken' = FALSE
        /\ items' = FirstPage(q).items /\ cursor' = FirstPage(q).nextCursor
    BY DEF Navigate
  <1>3. /\ AllOf(q, items')
        /\ Kind[q] # "rows" => cursor' \in Counts \cup {NoCursor} /\ Lists(q, items', cursor')
    BY <1>2, OpenedItems, FirstHits DEF PagesIInv, ListIInv
  <1>4. /\ AllOf(query, items)' <=> AllOf(q, items')
        /\ Lists(query, items, cursor)' <=> Lists(q, items', cursor')
    BY <1>2 DEF AllOf, Lists, Reach
  <1>5. items' \in Seq(Item)
    BY <1>3 DEF AllOf
  <1> QED
    BY <1>1, <1>2, <1>3, <1>4, <1>5 DEF PagesIInv

(* An answer that is not overtaken continues its list: it shows the hits    *)
(* from the cursor on. One that is overtaken is appended to another list,   *)
(* which is why only lists that were not overtaken are spoken of.           *)
LEMMA LoadedKeepsPages ==
  ASSUME PagesIInv, Loaded
  PROVE  PagesIInv'
  <1>1. ListIInv'
    BY LoadedKeeps DEF PagesIInv
  <1>2. PICK q, at : q = load.query /\ at = load.cursor
    OBVIOUS
  <1>3. /\ load # NoLoad /\ q \in Queries /\ (Kind[q] = "rows" <=> Kind[query] = "rows")
        /\ Kind[q] # "rows" => at \in Counts
        /\ query' = query /\ load' = NoLoad
        /\ overtaken' = (overtaken \/ q # query \/ at # cursor)
    BY <1>2 DEF Loaded, PagesIInv, ListIInv, Request
  <1>4. PICK got, more, next : got = load.page /\ more = got.items /\ next = got.nextCursor
    OBVIOUS
  <1>5. items' = items \o more /\ cursor' = next
    BY <1>4 DEF Loaded
  <1>6. /\ HoldsItems(got, q, at) /\ AllOf(q, more)
        /\ Kind[q] # "rows" => next \in Counts \cup {NoCursor}
    <2>1. HoldsItems(got, q, at)
      BY <1>2, <1>4 DEF Loaded, PagesIInv
    <2> QED
      BY <1>4, <2>1 DEF HoldsItems
  <1>7. PICK old \in Seq(Item) : old = items
    BY DEF PagesIInv
  <1>8. more \in Seq(Item) /\ \A i \in 1..Len(more) : more[i].query = q
    BY <1>6 DEF AllOf
  <1>8a. PICK list \in Seq(Item) : list = old \o more
    BY <1>8, Joined
  <1>9. ASSUME ~overtaken', NEW i \in 1..Len(list) PROVE list[i].query = query
    <2>1. q = query /\ \A j \in 1..Len(old) : old[j].query = query
      BY <1>3, <1>7, <1>9 DEF PagesIInv, AllOf
    <2>2. /\ Len(list) = Len(old) + Len(more) /\ Len(old) \in Nat /\ Len(more) \in Nat
          /\ \A j \in 1..Len(old) : list[j] = old[j]
          /\ \A j \in (Len(old) + 1)..(Len(old) + Len(more)) : list[j] = more[j - Len(old)]
      BY <1>8, <1>8a, Joined
    <2>3. CASE i <= Len(old)
      BY <2>1, <2>2, <2>3
    <2>4. CASE i > Len(old)
      <3>1. i \in (Len(old) + 1)..(Len(old) + Len(more)) /\ i - Len(old) \in 1..Len(more)
        BY <2>2, <2>4
      <3> QED
        BY <1>8, <2>1, <2>2, <3>1
    <2> QED
      BY <2>2, <2>3, <2>4
  <1>10. ASSUME ~overtaken', Kind[query] # "rows" PROVE Lists(query, list, next)
    <2>1. q = query /\ at = cursor /\ at \in Counts /\ Lists(query, old, at)
      BY <1>3, <1>7, <1>10 DEF PagesIInv
    <2> QED
      BY <1>3, <1>4, <1>6, <1>8a, <1>10, <2>1, NextHits
  <1>11. items' = list /\ (Lists(query, items, cursor)' <=> Lists(query, list, next))
    BY <1>3, <1>5, <1>7, <1>8a DEF Lists, Reach
  <1>12. ~overtaken' => AllOf(query, items)'
    BY <1>3, <1>9, <1>11 DEF AllOf
  <1> QED
    BY <1>1, <1>3, <1>5, <1>6, <1>10, <1>11, <1>12 DEF PagesIInv

(* The server reads a page of the query.                                    *)
LEMMA AnswerHoldsItems ==
  ASSUME PagesIInv, Answer
  PROVE  /\ load # NoLoad /\ load'.query = load.query /\ load'.cursor = load.cursor
         /\ HoldsItems(load'.page, load'.query, load'.cursor)
  <1>1. PICK l, q, at, got : l = load /\ q = l.query /\ at = l.cursor /\ got = Page(q, at, MoreLimit[q])
    OBVIOUS
  <1>2. load # NoLoad /\ Request(l) /\ TableTypeOK
    BY <1>1 DEF PagesIInv, ListIInv, Answer
  <1>3. /\ l = [step |-> l.step, query |-> q, cursor |-> at, page |-> l.page, stayed |-> l.stayed]
        /\ q \in Queries
    BY <1>1, <1>2 DEF Request
  <1>4. Kind[q] # "rows" => at \in Counts
    BY <1>1, <1>2 DEF PagesIInv
  <1>5. load' = [l EXCEPT !.step = "answered", !.stayed = Keys, !.page = got]
    BY <1>1 DEF Answer
  <1>6. load'.query = q /\ load'.cursor = at /\ load'.page = got
    BY <1>3, <1>5
  <1>7. PICK limit \in 1..50 : limit = MoreLimit[q]
    BY <1>3, LimitsAssumption
  <1>8. AllOf(q, got.items) /\ (Kind[q] # "rows" => got.nextCursor \in Counts \cup {NoCursor})
    BY <1>1, <1>2, <1>3, <1>4, <1>7, PageOfItems
  <1>9. HoldsItems(got, q, at)
    <2>1. CASE Kind[q] # "rows"
      <3>1. PICK page : /\ Takes(page, at, Ends(q))
                        /\ got.items = Marked(q, page.items) /\ got.nextCursor = page.nextCursor
                        /\ (Kind[q] = "all" => limit > 1) => page.nextCursor # at
        BY <1>1, <1>3, <1>4, <1>7, <2>1, PageOfHits
      <3> QED
        BY <1>7, <1>8, <3>1 DEF HoldsItems
    <2>2. CASE Kind[q] = "rows"
      BY <1>8, <2>2 DEF HoldsItems
    <2> QED
      BY <2>1, <2>2
  <1> QED
    BY <1>1, <1>2, <1>6, <1>9

(* Every step keeps the invariant; what writes to the tables or records a   *)
(* search leaves the lists of searches alone.                               *)
LEMMA PagesInductive == PagesIInv /\ [Next]_searchVars => PagesIInv'
  <1> SUFFICES ASSUME PagesIInv, [Next]_searchVars PROVE PagesIInv'
    OBVIOUS
  <1>1. ListIInv' /\ query \in Queries
    BY ListInductive DEF PagesIInv, ListIInv
  <1>2. ASSUME NEW q \in Queries, Submit(q) PROVE PagesIInv'
    BY <1>2, NavigateKeepsPages DEF Submit
  <1>3. CASE Invalidate
    BY <1>1, <1>3, NavigateKeepsPages DEF Invalidate
  <1>4. CASE Loaded
    BY <1>4, LoadedKeepsPages
  <1>5. ASSUME UNCHANGED <<query, items, cursor, overtaken>>,
               load' # NoLoad =>
                 \/ /\ load # NoLoad /\ load'.query = load.query /\ load'.cursor = load.cursor
                    /\ \/ load'.step = load.step /\ load'.page = load.page
                       \/ HoldsItems(load'.page, load'.query, load'.cursor)
                 \/ load'.step = "asked" /\ load'.query = query /\ load'.cursor = cursor /\ cursor # NoCursor
        PROVE  PagesIInv'
    <2>1. /\ Lists(query, items, cursor)' <=> Lists(query, items, cursor)
          /\ AllOf(query, items)' <=> AllOf(query, items)
      BY <1>5 DEF Lists, Reach, AllOf
    <2>2. HoldsItems(load.page, load.query, load.cursor)' <=> HoldsItems(load'.page, load'.query, load'.cursor)
      BY DEF HoldsItems, AllOf
    <2>3. ASSUME load' # NoLoad
          PROVE  /\ Kind[load'.query] = "rows" <=> Kind[query'] = "rows"
                 /\ load'.step = "answered" => HoldsItems(load'.page, load'.query, load'.cursor)
                 /\ Kind[query'] # "rows" => load'.cursor \in Counts
      BY <1>5, <2>3 DEF PagesIInv
    <2> QED
      BY <1>1, <1>5, <2>1, <2>2, <2>3 DEF PagesIInv
  <1>6. CASE More
    BY <1>5, <1>6 DEF More
  <1>6a. CASE Answer
    BY <1>5, <1>6a, AnswerHoldsItems DEF Answer
  <1>7. CASE LoadFails
    BY <1>5, <1>7 DEF LoadFails
  <1>8. CASE TableChanges
    <2>1. PICK l : l = load
      OBVIOUS
    <2>2. load' = IF l = NoLoad THEN l ELSE [l EXCEPT !.stayed = @ \cap Keys']
      BY <1>8, <2>1 DEF TableChanges
    <2>3. ASSUME l # NoLoad
          PROVE  load'.step = l.step /\ load'.query = l.query /\ load'.cursor = l.cursor /\ load'.page = l.page
      <3>1. l = [step |-> l.step, query |-> l.query, cursor |-> l.cursor, page |-> l.page, stayed |-> l.stayed]
        BY <2>1, <2>3 DEF PagesIInv, ListIInv, Request
      <3> QED
        BY <2>2, <2>3, <3>1
    <2> QED
      BY <1>5, <1>8, <2>1, <2>2, <2>3 DEF TableChanges
  <1>9. CASE UNCHANGED listVars
    BY <1>5, <1>9 DEF listVars, pageVars
  <1> QED
    BY <1>2, <1>3, <1>4, <1>6, <1>6a, <1>7, <1>8, <1>9 DEF Next, searchVars

(* So it always holds.                                                      *)
LEMMA PagesInvariant == Spec => []PagesIInv
  BY PagesInitial, PagesInductive, PTL DEF Spec

(* The hits that a list shows of a type are the first, and as many as there *)
(* are items of that type.                                                  *)
LEMMA ShownHits ==
  ASSUME PagesIInv, ~overtaken, Kind[query] # "rows", NEW t \in Types
  PROVE  /\ Shown(t) = 1..Reach(query, cursor)[t]
         /\ HowMany(t) = Reach(query, cursor)[t]
  <1>1. PICK s : items = Marked(query, s) /\ Shows(s, Between(Start, Reach(query, cursor)))
    BY DEF PagesIInv, Lists
  <1>2. PICK to \in Counts : to = Reach(query, cursor)
    BY SearchEnds DEF PagesIInv, ListIInv, Lists, Reach
  <1>3. PICK S : S = Between(Start, to)
    OBVIOUS
  <1>4. s \in Seq(S) /\ S \in SUBSET HitSet
    BY <1>1, <1>2, <1>3 DEF Shows, Between
  <1>5. /\ Len(items) = Len(s) /\ Len(s) \in Nat
        /\ \A i \in 1..Len(s) : items[i].item = s[i] /\ s[i] \in S
    <2>1. query \in Queries
      BY DEF PagesIInv, ListIInv
    <2>2. s \in Seq(HitSet) /\ Len(s) \in Nat /\ \A i \in 1..Len(s) : s[i] \in S
      BY <1>4
    <2>3. PICK list : list = Marked(query, s)
      OBVIOUS
    <2>4. Len(list) = Len(s) /\ \A i \in 1..Len(s) : list[i] = [query |-> query, item |-> s[i]]
      BY <2>1, <2>2, <2>3, MarkedItems
    <2>5. ASSUME NEW i \in 1..Len(s)
          PROVE  list[i].item = s[i]
      <3>1. list[i] = [query |-> query, item |-> s[i]]
        BY <2>4
      <3> QED
        BY <3>1
    <2>6. items = list
      BY <1>1, <2>3
    <2> QED
      BY <2>2, <2>4, <2>5, <2>6
  <1>6. PICK n \in Nat : n = to[t]
    BY DEF Counts
  <1>7. PICK at : at = {j \in 1..Len(items) : Hit(j, t)}
    OBVIOUS
  <1>8. \A j \in at : j \in 1..Len(s) /\ s[j].type = t /\ s[j].rank \in 1..n /\ s[j] = [type |-> t, rank |-> s[j].rank]
    <2> SUFFICES ASSUME NEW j \in at
                 PROVE  /\ j \in 1..Len(s) /\ s[j].type = t
                        /\ s[j].rank \in 1..n /\ s[j] = [type |-> t, rank |-> s[j].rank]
      OBVIOUS
    <2>1. j \in 1..Len(s) /\ s[j].type = t /\ s[j] \in S
      BY <1>5, <1>7 DEF Hit
    <2>2. s[j] \in HitSet /\ Start[t] < s[j].rank /\ s[j].rank <= to[t]
      BY <1>3, <2>1 DEF Between
    <2>3. s[j].rank \in Nat /\ Start[t] = 0 /\ s[j] = [type |-> s[j].type, rank |-> s[j].rank]
      BY <2>2 DEF HitSet, Start
    <2> QED
      BY <1>6, <2>1, <2>2, <2>3
  <1>9. \A r \in 1..n : \E j \in at : s[j].rank = r
    <2> SUFFICES ASSUME NEW r \in 1..n PROVE \E j \in at : s[j].rank = r
      OBVIOUS
    <2>1. [type |-> t, rank |-> r] \in S
      BY <1>3, <1>6 DEF Between, HitSet, Start
    <2>2. PICK j \in 1..Len(s) : s[j] = [type |-> t, rank |-> r]
      BY <1>1, <1>2, <1>3, <2>1 DEF Shows
    <2> QED
      BY <1>5, <1>7, <2>2 DEF Hit
  <1>10. PICK rank : rank = [j \in at |-> s[j].rank]
    OBVIOUS
  <1>11. rank \in Surjection(at, 1..n)
    <2>1. rank \in [at -> 1..n]
      BY <1>8, <1>10
    <2>2. \A r \in 1..n : \E j \in at : rank[j] = r
      BY <1>9, <1>10
    <2> QED
      BY <2>1, <2>2, Fun_IsSurj
  <1>12. rank \in Injection(at, 1..n)
    <2>1. rank \in [at -> 1..n]
      BY <1>8, <1>10
    <2>2. ASSUME NEW j \in at, NEW k \in at, rank[j] = rank[k] PROVE j = k
      <3>1. s[j] = s[k] /\ j \in 1..Len(s) /\ k \in 1..Len(s)
        BY <1>8, <1>10, <2>2
      <3> QED
        BY <1>1, <3>1 DEF Shows
    <2> QED
      BY <2>1, <2>2, Fun_IsInj
  <1>13. IsFiniteSet(1..n) /\ Cardinality(1..n) = n
    BY FS_Interval
  <1>14. Cardinality(at) = n
    BY <1>11, <1>12, <1>13, FS_Injection
  <1>15. Shown(t) = 1..n
    <2>1. Shown(t) = {items[i].item.rank : i \in at}
      BY <1>7 DEF Shown
    <2>2. Shown(t) = {s[i].rank : i \in at}
      <3>1. \A i \in at : items[i].item.rank = s[i].rank
        BY <1>5, <1>8
      <3> QED
        BY <2>1, <3>1
    <2>3. \A i \in at : s[i].rank \in 1..n
      BY <1>8
    <2> QED
      BY <1>9, <2>2, <2>3
  <1> QED
    BY <1>2, <1>6, <1>7, <1>14, <1>15 DEF HowMany

(* However the pages blend the types, make up for the short ones and put    *)
(* followed users first, for any searches, numbers of hits and limits: a    *)
(* list that was not overtaken shows a beginning of what it was asked for,  *)
(* without gaps and each hit once, and nothing else.                        *)
THEOREM PagesAreBeginnings == Spec => []PagesInv
  <1>1. ASSUME PagesIInv PROVE ListIsPrefix
    <2> SUFFICES ASSUME Listed(Searches), NEW t \in Types PROVE Shown(t) = 1..HowMany(t)
      BY DEF ListIsPrefix
    <2>1. ~overtaken /\ Kind[query] # "rows"
      BY DEF Listed, Searches, Types
    <2> QED
      BY <1>1, <2>1, ShownHits
  <1>2. ASSUME PagesIInv, RecentTypes PROVE TypeOK
    <2>1. /\ query \in Queries /\ stayed \subseteq Keys /\ TableTypeOK
          /\ load = NoLoad \/ (load.query \in Queries /\ load.step \in {"asked", "answered"})
      BY <1>2 DEF PagesIInv, ListIInv, Request
    <2>2. \A i \in 1..Len(items) : items[i].query \in Queries
      <3>1. PICK list \in Seq(Item) : list = items
        BY <1>2 DEF PagesIInv
      <3>2. \A i \in 1..Len(list) : list[i] \in Item
        OBVIOUS
      <3> QED
        BY <3>1, <3>2 DEF Item
    <2>3. RecentTypeOK
      BY <1>2 DEF RecentTypes
    <2>4. overtaken \in BOOLEAN
      BY <1>2 DEF PagesIInv
    <2> QED
      BY <2>1, <2>2, <2>3, <2>4 DEF TypeOK
  <1>3. PagesIInv /\ RecentTypes => PagesInv
    BY <1>1, <1>2 DEF PagesInv, PagesIInv, AllOf
  <1> QED
    BY <1>3, PagesInvariant, RecentTypesInvariant, PTL

(* When no "Load more" is offered, a list that was not overtaken has shown  *)
(* every hit, and every row that was there since the oldest of its pages    *)
(* was read, be it one that was under way when the list was reset.          *)
THEOREM NothingIsLeftOut == Spec => []NothingLeftOut
  <1>1. ASSUME PagesIInv, cursor = NoCursor, Listed({"rows"}) PROVE stayed \subseteq ShownKeys
    BY <1>1 DEF PagesIInv, ListIInv, Begins, ShownKeys
  <1>2. ASSUME PagesIInv, cursor = NoCursor, Listed(Searches), NEW t \in Types, Kind[query] \in {t, "all"}
        PROVE  Shown(t) = 1..Hits[query][t]
    <2>1. ~overtaken /\ Kind[query] # "rows" /\ query \in Queries
      BY <1>2 DEF Listed, Searches, Types, PagesIInv, ListIInv
    <2>2. Reach(query, cursor)[t] = Hits[query][t]
      BY <1>2, <2>1, SearchEnds DEF Reach
    <2> QED
      BY <1>2, <2>1, <2>2, ShownHits
  <1>3. PagesIInv => NothingLeftOut
    BY <1>1, <1>2 DEF NothingLeftOut
  <1> QED
    BY <1>3, PagesInvariant, PTL

(* An answer that offers more has moved on, so that every list can be gone  *)
(* through: of a table, because its cursor is below; of a search, because a *)
(* page that is not the last takes something.                               *)
THEOREM PagesMoveOn == Spec => PagesAdvance
  <1>1. ASSUME PagesIInv, Loaded, Kind[load.query] = "all" => MoreLimit[load.query] > 1
        PROVE  cursor' # load.cursor
    <2>1. PICK q, at, got : q = load.query /\ at = load.cursor /\ got = load.page
      OBVIOUS
    <2>2. cursor' = got.nextCursor /\ Request(load) /\ HoldsItems(got, q, at) /\ load.step = "answered"
      BY <1>1, <2>1 DEF Loaded, PagesIInv, ListIInv
    <2>3. CASE Kind[q] = "rows"
      <3>1. HoldsRows(got, q, at, load.stayed)
        BY <2>1, <2>2, <2>3 DEF Request
      <3>2. PICK S \in SUBSET Key : (\A k \in S : Older(k, at)) /\ cursor' \in S \cup {NoCursor}
        BY <2>2, <3>1 DEF HoldsRows, Continues
      <3>3. cursor' = at => at \in Key /\ Older(at, at)
        BY <2>1, <2>2, <3>2 DEF Request
      <3> QED
        BY <2>1, <3>3, KeysAreOrdered
    <2>4. CASE Kind[q] # "rows"
      BY <1>1, <2>1, <2>2, <2>4 DEF HoldsItems
    <2> QED
      BY <2>1, <2>3, <2>4
  <1>2. PagesIInv /\ [Next]_searchVars =>
          [Loaded /\ (Kind[load.query] = "all" => MoreLimit[load.query] > 1)
             => cursor' # load.cursor]_searchVars
    BY <1>1
  <1> QED
    BY <1>2, PagesInvariant, PTL DEF Spec, PagesAdvance
=============================================================================
