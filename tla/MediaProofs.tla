---------------------------- MODULE MediaProofs ----------------------------
(***************************************************************************)
(* What becomes of an image, for any number of users, files and requests   *)
(* and any limit on pending uploads: it is consumed once, its blob is kept *)
(* as long as a row names it and goes when none does, and the limit is     *)
(* exceeded by no more uploads than there are other requests.              *)
(*                                                                         *)
(* The invariants of the runs say what the tables are like; what keeps     *)
(* them so is what each request knows while it holds its locks.            *)
(***************************************************************************)
EXTENDS Media, FiniteSetTheorems, FunctionTheorems, TLAPS

(* A row has one holder, and only rows that are there are held. *)
LocksApart == \A p, q \in Requests : p # q => req[p].locks \cap req[q].locks = {}
LocksHeld ==
  \A q \in Requests : \A f \in Files :
    /\ UploadRow(f) \in req[q].locks => f \in uploads
    /\ PostRow(f) \in req[q].locks => f \in posts

(* What nobody has a use for any more. *)
Disposable(f) ==
  \/ f \in undone \cup deleted
  \/ f \in (aged \cup answered) \ (uploads \cup posts) /\ \A u \in Users : avatar[u] # f

Consumed(f) == f \in posts \cup deleted

(* CreateFile: the new name is its own, and the expired rows are locked. *)
UploadOK(r) ==
  /\ r.user \in Users /\ r.file \in drawn \ (answered \cup aged \cup uploads)
  /\ Uploader[r.file] = r.user
  /\ r.doomed \subseteq Pending(r.user) \cap aged
  /\ \A f \in r.doomed : UploadRow(f) \in r.locks

(* CreatePost holds the upload it consumes. *)
PostOK(r) ==
  /\ r.at # "sweep" /\ r.doomed = {}
  /\ r.file \in answered /\ UploadRow(r.file) \in r.locks

(* UpdateProfile holds the user's row, so that the old avatar is the one to *)
(* judge; the new one is blank, known already, or an upload that is held.   *)
AvatarOK(r) ==
  /\ r.user \in Users /\ UserRow(r.user) \in r.locks
  /\ r.old = avatar[r.user]
  /\ r.file \in answered \cup {NoFile}
  /\ r.file # NoFile => Uploader[r.file] = r.user
  /\ \A f \in Files : UploadRow(f) \in r.locks => f = r.file
  /\ r.at \in {"check", "consume"} => r.file # NoFile
  /\ r.at # "commit" => r.doomed = {}
  /\ r.at \in {"update", "commit"} =>
       r.file \in {NoFile, r.old} \/ Consumed(r.file) \/ UploadRow(r.file) \in r.locks
  /\ r.at = "commit" =>
       /\ \A f \in r.doomed : f = r.old /\ f # r.file /\ f \notin posts
       /\ r.doomed = {} => r.old \in {NoFile, r.file} \/ Consumed(r.old)

(* DeletePost holds the post, and the rows of users it is the avatar of. *)
DeleteOK(r) ==
  /\ r.doomed = {} /\ PostRow(r.file) \in r.locks
  /\ \A u \in Users : UserRow(u) \in r.locks => avatar[u] = r.file
  /\ \A f \in Files : UploadRow(f) \notin r.locks

(* After the transaction, blobs that nobody has a use for are deleted. *)
SweepOK(r) ==
  /\ r.op \in {"upload", "avatar", "delete"} /\ r.locks = {}
  /\ r.op = "upload" /\ r.file # NoFile => r.file \in (uploads \cap drawn) \ (answered \cup aged)
  /\ \A f \in r.doomed : Disposable(f)

RequestOK(r) ==
  /\ r.op = "none" => r = Idle
  /\ r.op = "upload" /\ r.at # "sweep" => UploadOK(r)
  /\ r.op = "post" => PostOK(r)
  /\ r.op = "avatar" /\ r.at # "sweep" => AvatarOK(r)
  /\ r.op = "delete" /\ r.at # "sweep" => DeleteOK(r)
  /\ r.at = "sweep" => SweepOK(r)

(* No two uploads draw the same name. *)
OwnNames ==
  \A p, q \in Requests :
    p # q /\ req[p].op = "upload" /\ req[q].op = "upload" /\ req[p].file # NoFile
      => req[p].file # req[q].file

(* What the client was told of is all that can be used. *)
Answered ==
  /\ uploads \cup aged \subseteq drawn
  /\ posts \cup deleted \cup blobs \subseteq answered
  /\ \A u \in Users : /\ avatar[u] \in answered \cup {NoFile}
                      /\ avatar[u] # NoFile => Uploader[avatar[u]] = u

UploadsKeepTheirBlobs == (uploads \cap answered) \ undone \subseteq blobs

Swept(f) == \E q \in Requests : req[q].at = "sweep" /\ f \in req[q].doomed

(* A blob that is of no use is about to be deleted, that of a post always. *)
UselessIsSwept ==
  /\ \A f \in blobs \ abandoned : f \in uploads \cup posts \/ (\E u \in Users : avatar[u] = f) \/ Swept(f)
  /\ \A f \in deleted : f \notin blobs \/ f \in abandoned \/ Swept(f)

RequestsInv ==
  /\ LocksApart /\ LocksHeld
  /\ \A r \in {req[q] : q \in Requests} : RequestOK(r)
  /\ OwnNames

TablesInv ==
  /\ Answered
  /\ ConsumedOnce
  /\ UploadsKeepTheirBlobs /\ PostsKeepTheirBlobs /\ AvatarsKeepTheirBlobs

(* The inductive invariant: what the tables are like, and why they stay so. *)
MediaIInv == TypeOK /\ RequestsInv /\ TablesInv /\ UselessIsSwept

(* The number of pending uploads: what a request that counts has yet to     *)
(* learn of.                                                                *)
Counting(r) == r.op = "upload" /\ r.at \in {"count", "insert"}
Known(r) == (r.seen \cup r.doomed) \cap Pending(r.user)
Behind(u, m) == {q \in Requests : Counting(req[q]) /\ req[q].user = u /\ Cardinality(Known(req[q])) < m}

Drawing(r) == r.op = "upload" /\ r.at # "sweep"

CountOK ==
  /\ IsFiniteSet(uploads)
  /\ \A q \in Requests : Counting(req[q]) =>
       /\ req[q].seen \subseteq drawn
       /\ req[q].at = "insert" => Cardinality(req[q].seen \cap uploads) < MaxPending
       /\ \A p \in Requests : Drawing(req[p]) => req[p].file \notin req[q].seen

FewBehind ==
  \A u \in Users : \A m \in MaxPending..Cardinality(Pending(u)) :
    Cardinality(Behind(u, m)) + Cardinality(Pending(u)) - m < Cardinality(Requests)

PendingIInv == CountOK /\ FewBehind

-----------------------------------------------------------------------------
(* Rows of different tables, and of different keys, are different rows. *)
LEMMA RowsDiffer ==
  /\ \A f, g : UploadRow(f) = UploadRow(g) => f = g
  /\ \A f, g : PostRow(f) = PostRow(g) => f = g
  /\ \A u, v : UserRow(u) = UserRow(v) => u = v
  /\ \A f, g : UploadRow(f) # PostRow(g) /\ UploadRow(f) # UserRow(g) /\ PostRow(f) # UserRow(g)
  /\ \A f : (UploadRow(f) \in Rows <=> f \in Files) /\ (PostRow(f) \in Rows <=> f \in Files)
  /\ \A u : UserRow(u) \in Rows <=> u \in Users
  BY DEF UploadRow, PostRow, UserRow, Rows

(* A replica that serves nothing has an idle request in its hands. *)
LEMMA IdleIsRequest == Idle \in Request /\ RequestOK(Idle)
  BY DEF Idle, Request, RequestOK

(* What a step of one request leaves of all of them. *)
LEMMA BecameRequest ==
  ASSUME TypeOK, NEW q \in Requests, NEW r \in Request, Became(q, r)
  PROVE  /\ req' \in [Requests -> Request]
         /\ req'[q] = r
         /\ \A p \in Requests \ {q} : req'[p] = req[p]
  BY DEF Became, TypeOK

(* A request and what is known of it. *)
LEMMA Serving ==
  ASSUME MediaIInv, NEW q \in Requests
  PROVE  req[q] \in Request /\ RequestOK(req[q])
  <1>1. req[q] \in Request
    BY DEF MediaIInv, TypeOK
  <1>2. PICK r \in Request : r = req[q]
    BY <1>1
  <1> QED
    BY <1>2 DEF MediaIInv, RequestsInv

(* What a step of q may do to the tables under the other requests: what is  *)
(* consumed stays so, it is consumed by those who hold it, and only q's own *)
(* upload becomes known.                                                    *)
TablesMove(q) ==
  /\ drawn \subseteq drawn' /\ aged \subseteq aged' /\ answered \subseteq answered'
  /\ undone \subseteq undone' /\ deleted \subseteq deleted'
  /\ posts \cup deleted \subseteq posts' \cup deleted'
  /\ \A f \in uploads' \ uploads : f \notin aged' \cup answered'
  /\ \A f \in uploads \ uploads' : f \in aged \cup answered /\ Free(q, UploadRow(f))
  /\ \A f \in posts' \ posts : f \in uploads
  /\ \A f \in posts \ posts' : Free(q, PostRow(f))
  /\ \A u \in Users : avatar'[u] # avatar[u] =>
       /\ Free(q, UserRow(u))
       /\ avatar'[u] \in {NoFile} \cup posts \cup deleted \cup uploads
  /\ \A p \in Requests \ {q} : req[p].op = "upload" /\ req[p].file # NoFile =>
       req[p].file \notin (answered' \ answered) \cup (aged' \ aged) \cup (uploads' \ uploads)

(* What is of no use stays so. *)
LEMMA StaysDisposable ==
  ASSUME MediaIInv, TypeOK', NEW q \in Requests, TablesMove(q), NEW f \in Files, Disposable(f)
  PROVE  Disposable(f)'
  BY FilesAssumption DEF Disposable, TablesMove, MediaIInv, TypeOK

(* What the other requests know stays true. *)
LEMMA OthersKeep ==
  ASSUME MediaIInv, TypeOK', NEW q \in Requests, TablesMove(q), LocksHeld',
         NEW p \in Requests \ {q}, NEW r \in Request, r = req[p], r = req'[p]
  PROVE  RequestOK(r)'
  <1>1. RequestOK(r)
    BY Serving
  <1>2. /\ \A f \in Files : UploadRow(f) \in r.locks => f \in uploads'
        /\ \A u \in Users : UserRow(u) \in r.locks => avatar'[u] = avatar[u]
    BY DEF LocksHeld, TablesMove, Free
  <1>3. r.op = "upload" /\ r.file # NoFile =>
          r.file \notin (answered' \ answered) \cup (aged' \ aged) \cup (uploads' \ uploads)
    BY DEF TablesMove
  <1>4. \A f \in uploads \ uploads' : f \in aged \cup answered
    BY DEF TablesMove
  <1>5. r.doomed \subseteq Files /\ r.file \in Files \cup {NoFile} /\ r.user \in Users \cup {NoFile}
    BY DEF Request
  <1>6. /\ drawn \subseteq drawn' /\ aged \subseteq aged' /\ answered \subseteq answered'
        /\ posts \cup deleted \subseteq posts' \cup deleted' /\ deleted \subseteq deleted'
        /\ posts' \subseteq posts \cup uploads
    BY DEF TablesMove
  <1>7. CASE r.op = "none"
    BY <1>1, <1>7 DEF RequestOK, Idle
  <1>8. CASE r.op = "upload" /\ r.at # "sweep"
    <2>1. UploadOK(r)
      BY <1>1, <1>8 DEF RequestOK
    <2>2. r.file # NoFile
      BY <2>1, FilesAssumption DEF UploadOK, MediaIInv, TypeOK
    <2>3. r.file \in drawn' \ (answered' \cup aged' \cup uploads')
      BY <1>3, <1>6, <1>8, <2>1, <2>2 DEF UploadOK
    <2>4. r.doomed \subseteq Pending(r.user)' \cap aged'
      BY <1>2, <1>5, <1>6, <2>1 DEF UploadOK, Pending
    <2> QED
      BY <1>8, <2>1, <2>3, <2>4 DEF RequestOK, UploadOK
  <1>9. CASE r.op = "post"
    BY <1>1, <1>6, <1>9 DEF RequestOK, PostOK
  <1>10. CASE r.op = "avatar" /\ r.at # "sweep"
    <2>1. AvatarOK(r) /\ r.old = avatar[r.user] /\ r.user \in Users /\ avatar'[r.user] = avatar[r.user]
      BY <1>1, <1>2, <1>10 DEF RequestOK, AvatarOK
    <2>2. \A f : Consumed(f) => f \in posts' \cup deleted'
      BY <1>6 DEF Consumed
    <2>3. r.old \notin uploads
      BY <2>1 DEF MediaIInv, TablesInv, ConsumedOnce
    <2>4. AvatarOK(r)'
      BY <1>2, <1>6, <2>1, <2>2, <2>3 DEF AvatarOK, Consumed
    <2> QED
      BY <1>10, <2>4 DEF RequestOK
  <1>11. CASE r.op = "delete" /\ r.at # "sweep"
    BY <1>1, <1>2, <1>11 DEF RequestOK, DeleteOK
  <1>12. CASE r.at = "sweep"
    <2>1. SweepOK(r)
      BY <1>1, <1>12 DEF RequestOK
    <2>2. \A f \in r.doomed : Disposable(f)'
      BY <1>5, <2>1, StaysDisposable DEF SweepOK
    <2>3. SweepOK(r)'
      BY <1>3, <1>4, <1>6, <2>1, <2>2 DEF SweepOK
    <2> QED
      BY <1>12, <2>1, <2>3 DEF RequestOK, SweepOK
  <1> QED
    BY <1>7, <1>8, <1>9, <1>10, <1>11, <1>12 DEF Request

(* What q may come to: it locks rows that are there and that nobody holds,  *)
(* and uploads under a name of its own.                                     *)
MayBecome(q, r) ==
  /\ Became(q, r)
  /\ \A row \in r.locks \ req[q].locks : Free(q, row)
  /\ \A f \in Files : /\ UploadRow(f) \in r.locks => f \in uploads'
                      /\ PostRow(f) \in r.locks => f \in posts'
  /\ r.op = "upload" /\ r.file # NoFile =>
       \A p \in Requests \ {q} : req[p].op = "upload" => req[p].file # r.file

(* What a step makes of all requests. *)
LEMMA RequestsKeep ==
  ASSUME MediaIInv, TypeOK', NEW q \in Requests, NEW r \in Request, MayBecome(q, r),
         TablesMove(q), RequestOK(r)'
  PROVE  RequestsInv'
  <1> USE DEF MayBecome
  <1>1. /\ req' \in [Requests -> Request] /\ req'[q] = r
        /\ \A p \in Requests \ {q} : req'[p] = req[p]
    BY BecameRequest DEF MediaIInv
  <1>2. LocksApart'
    <2> SUFFICES ASSUME NEW p \in Requests, NEW o \in Requests, p # o,
                        NEW row, row \in req'[p].locks, row \in req'[o].locks
                 PROVE  FALSE
      BY DEF LocksApart
    <2>1. ASSUME NEW x \in Requests \ {q}, row \in req[x].locks PROVE row \notin r.locks
      BY <2>1 DEF Free, LocksApart, MediaIInv, RequestsInv
    <2> QED
      BY <1>1, <2>1 DEF LocksApart, MediaIInv, RequestsInv
  <1>3. LocksHeld'
    <2> SUFFICES ASSUME NEW p \in Requests, NEW f \in Files
                 PROVE  /\ UploadRow(f) \in req'[p].locks => f \in uploads'
                        /\ PostRow(f) \in req'[p].locks => f \in posts'
      BY DEF LocksHeld
    <2>1. CASE p = q
      BY <1>1, <2>1
    <2>2. CASE p # q
      BY <1>1, <2>2 DEF LocksHeld, MediaIInv, RequestsInv, TablesMove, Free
    <2> QED
      BY <2>1, <2>2
  <1>4. ASSUME NEW s \in {req[p] : p \in Requests}' PROVE RequestOK(s)'
    <2>1. PICK p \in Requests : s = req'[p]
      BY <1>4
    <2>2. CASE p = q
      BY <1>1, <2>1, <2>2
    <2>3. CASE p # q
      BY <1>1, <1>3, <2>1, <2>3, OthersKeep
    <2> QED
      BY <2>2, <2>3
  <1>5. OwnNames'
    BY <1>1 DEF OwnNames, MediaIInv, RequestsInv
  <1> QED
    BY <1>2, <1>3, <1>4, <1>5 DEF RequestsInv

(* What was about to be deleted still is, but for what q is done with. *)
LEMMA SweptStays ==
  ASSUME MediaIInv, NEW q \in Requests, NEW r \in Request, Became(q, r), NEW done,
         req[q].at = "sweep" =>
           req[q].doomed \subseteq done \/ (r.at = "sweep" /\ req[q].doomed \subseteq r.doomed \cup done),
         NEW f, f \notin done, Swept(f)
  PROVE  Swept(f)'
  <1>1. /\ req'[q] = r
        /\ \A p \in Requests \ {q} : req'[p] = req[p]
    BY BecameRequest DEF MediaIInv
  <1>2. PICK p \in Requests : req[p].at = "sweep" /\ f \in req[p].doomed
    BY DEF Swept
  <1> QED
    BY <1>1, <1>2 DEF Swept

(* So every blob on its way out stays so.                                  *)
LEMMA AllSweptStay ==
  ASSUME MediaIInv, NEW q \in Requests, NEW r \in Request, Became(q, r),
         req[q].at = "sweep" => req[q].doomed = {}
  PROVE  \A f : Swept(f) => Swept(f)'
  <1> TAKE f
  <1>1. f \notin {}
    OBVIOUS
  <1> QED
    BY <1>1, SweptStays

(* Steps that take a request further and leave the tables alone. *)
LEMMA MoveKeeps ==
  ASSUME MediaIInv, NEW q \in Requests, NEW r \in Request, MayBecome(q, r),
         UNCHANGED <<tables, blobs, answered, mishaps>>,
         drawn \subseteq drawn', drawn' \subseteq Files, RequestOK(r)',
         req[q].at = "sweep" => req[q].doomed = {}
  PROVE  MediaIInv'
  <1> USE DEF tables, mishaps
  <1>0. Became(q, r)
    BY DEF MayBecome
  <1>1. TypeOK'
    BY <1>0, BecameRequest DEF MediaIInv, TypeOK
  <1>2. TablesMove(q)
    BY DEF TablesMove
  <1>3. RequestsInv'
    BY <1>1, <1>2, RequestsKeep
  <1>4. TablesInv'
    BY DEF MediaIInv, TablesInv, Answered, ConsumedOnce, UploadsKeepTheirBlobs, PostsKeepTheirBlobs,
           AvatarsKeepTheirBlobs
  <1>5. \A f : Swept(f) => Swept(f)'
    BY <1>0, AllSweptStay
  <1>6. UselessIsSwept'
    BY <1>5 DEF MediaIInv, UselessIsSwept
  <1> QED
    BY <1>1, <1>3, <1>4, <1>6 DEF MediaIInv

-----------------------------------------------------------------------------
(* CreateFile begins: the name is new, and so are the locks. *)
LEMMA DeleteExpiredKeeps ==
  ASSUME MediaIInv, NEW q \in Requests, NEW f \in Files, DeleteExpired(q, f)
  PROVE  MediaIInv'
  <1> DEFINE expired == Pending(Uploader[f]) \cap aged
  <1>1. expired \subseteq uploads \cap aged /\ uploads \subseteq Files /\ Uploader[f] \in Users
    BY UploaderAssumption DEF Pending, MediaIInv, TypeOK
  <1>2. PICK r : r = [Idle EXCEPT !.op = "upload", !.user = Uploader[f], !.file = f, !.at = "snapshot",
                                  !.locks = {UploadRow(g) : g \in expired}, !.doomed = expired]
    OBVIOUS
  <1>3. /\ r \in Request
        /\ r.op = "upload" /\ r.user = Uploader[f] /\ r.file = f /\ r.at = "snapshot"
        /\ r.locks = {UploadRow(g) : g \in expired} /\ r.doomed = expired
    <2>1. {UploadRow(g) : g \in expired} \subseteq Rows
      BY <1>1, RowsDiffer
    <2> QED
      BY <1>1, <1>2, <2>1 DEF Idle, Request
  <1>4. /\ Became(q, r) /\ UNCHANGED <<tables, blobs, answered, mishaps>>
        /\ drawn' = drawn \cup {f} /\ f \notin drawn
        /\ \A g \in expired : Free(q, UploadRow(g))
        /\ req[q] = Idle
    BY <1>2 DEF DeleteExpired
  <1> HIDE DEF expired
  <1>5. drawn \subseteq drawn' /\ drawn' \subseteq Files
    BY <1>4 DEF MediaIInv, TypeOK
  <1>6. UploadOK(r)'
    <2>1. f \in drawn' \ (answered' \cup aged' \cup uploads')
      BY <1>4 DEF MediaIInv, TypeOK, TablesInv, Answered, tables
    <2>2. r.doomed \subseteq (Pending(Uploader[f]) \cap aged)'
      BY <1>3, <1>4 DEF Pending, tables, expired
    <2> QED
      BY <1>1, <1>3, <2>1, <2>2 DEF UploadOK
  <1>7. RequestOK(r)'
    BY <1>3, <1>6 DEF RequestOK
  <1>8. \A p \in Requests \ {q} : req[p].op = "upload" => req[p].file # f
    <2> SUFFICES ASSUME NEW p \in Requests, req[p].op = "upload", req[p].file = f PROVE FALSE
      OBVIOUS
    <2>1. RequestOK(req[p])
      BY Serving
    <2>2. f \in drawn
      BY <2>1, FilesAssumption DEF RequestOK, UploadOK, SweepOK
    <2> QED
      BY <1>4, <2>2
  <1>9. MayBecome(q, r)
    <2>1. \A g \in Files : /\ UploadRow(g) \in r.locks => g \in uploads'
                           /\ PostRow(g) \in r.locks => g \in posts'
      BY <1>1, <1>3, <1>4, RowsDiffer DEF tables
    <2> QED
      BY <1>3, <1>4, <1>8, <2>1 DEF MayBecome
  <1>10. req[q].at # "sweep"
    BY <1>4 DEF Idle
  <1> QED
    BY <1>3, <1>4, <1>5, <1>7, <1>9, <1>10, MoveKeeps

(* What a request that draws no name and leaves the tables alone must show. *)
LEMMA QuietKeeps ==
  ASSUME MediaIInv, NEW q \in Requests, NEW r \in Request, Became(q, r),
         UNCHANGED <<tables, blobs, drawn, answered, mishaps>>, RequestOK(r),
         \A row \in r.locks \ req[q].locks : Free(q, row),
         \A f \in Files : /\ UploadRow(f) \in r.locks \ req[q].locks => f \in uploads
                          /\ PostRow(f) \in r.locks \ req[q].locks => f \in posts,
         r.op = "upload" => req[q].op = "upload" /\ r.file = req[q].file,
         req[q].at = "sweep" => req[q].doomed = {}
  PROVE  MediaIInv'
  <1>1. RequestOK(r)'
    BY DEF RequestOK, UploadOK, PostOK, AvatarOK, DeleteOK, SweepOK, Disposable, Consumed, Pending, tables,
           mishaps
  <1>2. drawn \subseteq drawn' /\ drawn' \subseteq Files /\ UNCHANGED <<tables, blobs, answered, mishaps>>
    BY DEF MediaIInv, TypeOK
  <1>3. \A f \in Files : /\ UploadRow(f) \in r.locks => f \in uploads'
                         /\ PostRow(f) \in r.locks => f \in posts'
    BY DEF MediaIInv, RequestsInv, LocksHeld, tables
  <1>4. r.op = "upload" /\ r.file # NoFile =>
          \A p \in Requests \ {q} : req[p].op = "upload" => req[p].file # r.file
    BY DEF MediaIInv, RequestsInv, OwnNames
  <1>5. MayBecome(q, r)
    BY <1>3, <1>4 DEF MayBecome
  <1> QED
    BY <1>1, <1>2, <1>5, MoveKeeps

(* CreateFile takes its snapshot and counts the rows it can lock. *)
LEMMA SnapshotKeeps ==
  ASSUME MediaIInv, NEW q \in Requests, SnapshotUploads(q)
  PROVE  MediaIInv'
  <1>1. PICK s \in Request : s = req[q] /\ RequestOK(s)
    BY Serving
  <1>2. PICK r : r = [s EXCEPT !.at = "count", !.seen = Pending(s.user) \ s.doomed]
    OBVIOUS
  <1>3. s.op = "upload" /\ s.at = "snapshot" /\ Became(q, r)
    BY <1>1, <1>2 DEF SnapshotUploads, At, Goto
  <1>4. Pending(s.user) \subseteq Files
    BY DEF Pending, MediaIInv, TypeOK
  <1>5. /\ r \in Request /\ r.op = "upload" /\ r.at = "count" /\ r.locks = s.locks
        /\ r.user = s.user /\ r.file = s.file /\ r.doomed = s.doomed
    BY <1>2, <1>3, <1>4 DEF Request
  <1>6. RequestOK(r)
    BY <1>1, <1>3, <1>5 DEF RequestOK, UploadOK
  <1> QED
    BY <1>1, <1>3, <1>5, <1>6, QuietKeeps DEF SnapshotUploads

(* CreateFile counts what is pending, and refuses or goes on.              *)
LEMMA CountKeeps ==
  ASSUME MediaIInv, NEW q \in Requests, CountUploads(q)
  PROVE  MediaIInv'
  <1>1. PICK s \in Request : s = req[q] /\ RequestOK(s)
    BY Serving
  <1> DEFINE rows == s.seen \cap uploads
  <1>2. PICK label \in {"full", "insert"} : label = IF Cardinality(rows) >= MaxPending THEN "full" ELSE "insert"
    OBVIOUS
  <1>3. PICK r : r = [s EXCEPT !.at = label, !.locks = @ \cup {UploadRow(g) : g \in rows}]
    OBVIOUS
  <1>4. /\ s.op = "upload" /\ s.at = "count" /\ Became(q, r)
        /\ \A g \in rows : Free(q, UploadRow(g))
    BY <1>1, <1>2, <1>3 DEF CountUploads, At, Goto
  <1>5. rows \subseteq uploads /\ rows \subseteq Files
    BY DEF MediaIInv, TypeOK
  <1> HIDE DEF rows
  <1>6. /\ r \in Request /\ r.op = "upload" /\ r.at = label
        /\ r.locks = s.locks \cup {UploadRow(g) : g \in rows}
        /\ r.user = s.user /\ r.file = s.file /\ r.doomed = s.doomed
    <2>1. {UploadRow(g) : g \in rows} \subseteq Rows
      BY <1>5, RowsDiffer
    <2> QED
      BY <1>3, <1>4, <2>1 DEF Request
  <1>7. RequestOK(r)
    BY <1>1, <1>2, <1>4, <1>6 DEF RequestOK, UploadOK
  <1>8. /\ \A row \in r.locks \ s.locks : Free(q, row)
        /\ \A f \in Files : /\ UploadRow(f) \in r.locks \ s.locks => f \in uploads
                            /\ PostRow(f) \in r.locks \ s.locks => f \in posts
    BY <1>4, <1>5, <1>6, RowsDiffer
  <1> QED
    BY <1>1, <1>4, <1>6, <1>7, <1>8, QuietKeeps DEF CountUploads

(* A request is answered, or CheckFile ends it. *)
LEMMA FinishKeeps ==
  ASSUME MediaIInv, NEW q \in Requests, Finish(q), UNCHANGED <<tables, blobs, drawn, answered, mishaps>>,
         req[q].at = "sweep" => req[q].doomed = {}
  PROVE  MediaIInv'
  <1>1. PICK r \in Request : r = Idle /\ RequestOK(r)
    BY IdleIsRequest
  <1>2. Became(q, r) /\ r.locks = {} /\ r.op = "none"
    BY <1>1 DEF Finish, Idle
  <1> QED
    BY <1>1, <1>2, QuietKeeps

(* CreatePost takes hold of the upload it consumes. *)
LEMMA ConsumeKeeps ==
  ASSUME MediaIInv, NEW q \in Requests, NEW f \in Files, ConsumeUpload(q, f)
  PROVE  MediaIInv'
  <1>1. PICK r : r = [Idle EXCEPT !.op = "post", !.user = Uploader[f], !.file = f, !.at = "insert",
                                  !.locks = {UploadRow(f)}]
    OBVIOUS
  <1>2. /\ r \in Request /\ r.op = "post" /\ r.at = "insert" /\ r.file = f /\ r.doomed = {}
        /\ r.locks = {UploadRow(f)}
    <2>1. {UploadRow(f)} \subseteq Rows /\ Uploader[f] \in Users
      BY RowsDiffer, UploaderAssumption
    <2> QED
      BY <1>1, <2>1 DEF Idle, Request
  <1>3. /\ Became(q, r) /\ f \in answered \cap uploads /\ Free(q, UploadRow(f)) /\ req[q] = Idle
        /\ UNCHANGED <<tables, blobs, drawn, answered, mishaps>>
    BY <1>1 DEF ConsumeUpload
  <1>4. RequestOK(r)
    BY <1>2, <1>3 DEF RequestOK, PostOK
  <1>5. /\ \A row \in r.locks : Free(q, row)
        /\ \A g \in Files : /\ UploadRow(g) \in r.locks => g \in uploads
                            /\ PostRow(g) \in r.locks => g \in posts
    BY <1>2, <1>3, RowsDiffer
  <1>6. req[q].at # "sweep"
    BY <1>3 DEF Idle
  <1> QED
    BY <1>2, <1>3, <1>4, <1>5, <1>6, QuietKeeps

(* UpdateProfile locks the user's row and notes the old avatar. *)
LEMMA LockProfileKeeps ==
  ASSUME MediaIInv, NEW q \in Requests, NEW u \in Users,
         NEW f \in {f \in answered : Uploader[f] = u} \cup {NoFile}, LockProfile(q, u, f)
  PROVE  MediaIInv'
  <1>1. PICK label \in {"update", "check"} : label = IF f = NoFile THEN "update" ELSE "check"
    OBVIOUS
  <1>2. PICK r : r = [Idle EXCEPT !.op = "avatar", !.user = u, !.file = f, !.old = avatar[u],
                                  !.locks = {UserRow(u)}, !.at = label]
    OBVIOUS
  <1>3. avatar[u] \in Files \cup {NoFile} /\ f \in Files \cup {NoFile}
    BY DEF MediaIInv, TypeOK
  <1>4. /\ r \in Request /\ r.op = "avatar" /\ r.at = label /\ r.file = f /\ r.doomed = {}
        /\ r.user = u /\ r.locks = {UserRow(u)} /\ r.old = avatar[u]
    <2>1. {UserRow(u)} \subseteq Rows
      BY RowsDiffer, UploaderAssumption
    <2> QED
      BY <1>2, <1>3, <2>1 DEF Idle, Request
  <1>5. /\ Became(q, r) /\ Free(q, UserRow(u)) /\ req[q] = Idle
        /\ UNCHANGED <<tables, blobs, drawn, answered, mishaps>>
    BY <1>1, <1>2 DEF LockProfile
  <1>6. RequestOK(r)
    BY <1>1, <1>4, RowsDiffer DEF RequestOK, AvatarOK
  <1>7. /\ \A row \in r.locks : Free(q, row)
        /\ \A g \in Files : UploadRow(g) \notin r.locks /\ PostRow(g) \notin r.locks
    BY <1>4, <1>5, RowsDiffer
  <1>8. req[q].at # "sweep"
    BY <1>5 DEF Idle
  <1> QED
    BY <1>4, <1>5, <1>6, <1>7, <1>8, QuietKeeps

(* UpdateProfile looks at the avatar it was given ...                      *)
LEMMA CheckAvatarKeeps ==
  ASSUME MediaIInv, NEW q \in Requests, CheckAvatar(q)
  PROVE  MediaIInv'
  <1>1. PICK s \in Request : s = req[q] /\ RequestOK(s)
    BY Serving
  <1>2. PICK label \in {"update", "consume"} :
          label = IF s.file = s.old \/ s.file \in posts THEN "update" ELSE "consume"
    OBVIOUS
  <1>3. PICK r : r = [s EXCEPT !.at = label]
    OBVIOUS
  <1>4. s.op = "avatar" /\ s.at = "check" /\ Became(q, r)
    BY <1>1, <1>2, <1>3 DEF CheckAvatar, At, Goto
  <1>5. /\ r \in Request /\ r.op = "avatar" /\ r.at = label /\ r.locks = s.locks /\ r.old = s.old
        /\ r.user = s.user /\ r.file = s.file /\ r.doomed = s.doomed
    BY <1>3, <1>4 DEF Request
  <1>6. RequestOK(r)
    BY <1>1, <1>2, <1>4, <1>5 DEF RequestOK, AvatarOK, Consumed
  <1> QED
    BY <1>1, <1>4, <1>5, <1>6, QuietKeeps DEF CheckAvatar

(* The new avatar is a pending upload, or the update ends. *)
LEMMA ConsumeForAvatarKeeps ==
  ASSUME MediaIInv, NEW q \in Requests, ConsumeForAvatar(q)
  PROVE  MediaIInv'
  <1>1. PICK s \in Request : s = req[q] /\ RequestOK(s)
    BY Serving
  <1>2. /\ s.op = "avatar" /\ s.at = "consume" /\ AvatarOK(s)
        /\ s.file \in Files
        /\ UNCHANGED <<tables, blobs, drawn, answered, mishaps>>
    BY <1>1 DEF ConsumeForAvatar, At, RequestOK, AvatarOK, Request
  <1>3. CASE Finish(q)
    BY <1>1, <1>2, <1>3, FinishKeeps
  <1>4. CASE s.file \in uploads
    <2>1. PICK r : r = [s EXCEPT !.at = "update", !.locks = @ \cup {UploadRow(s.file)}]
      OBVIOUS
    <2>2. Became(q, r) /\ Free(q, UploadRow(s.file))
      BY <1>1, <1>4, <2>1 DEF ConsumeForAvatar, Goto
    <2>3. UploadRow(s.file) \in Rows
      BY <1>2, RowsDiffer
    <2>4. /\ r \in Request /\ r.op = "avatar" /\ r.at = "update" /\ r.old = s.old
          /\ r.locks = s.locks \cup {UploadRow(s.file)}
          /\ r.user = s.user /\ r.file = s.file /\ r.doomed = s.doomed
      BY <1>2, <2>1, <2>3 DEF Request
    <2>5. RequestOK(r)
      BY <1>2, <2>4, RowsDiffer DEF RequestOK, AvatarOK
    <2>6. /\ \A row \in r.locks \ s.locks : Free(q, row)
          /\ \A f \in Files : /\ UploadRow(f) \in r.locks \ s.locks => f \in uploads
                              /\ PostRow(f) \in r.locks \ s.locks => f \in posts
      BY <1>4, <2>2, <2>4, RowsDiffer
    <2> QED
      BY <1>1, <1>2, <2>2, <2>4, <2>5, <2>6, QuietKeeps
  <1> QED
    BY <1>1, <1>3, <1>4 DEF ConsumeForAvatar

(* The old avatar is doomed unless it is a post's: an avatar is its         *)
(* uploader's, so no other user has it.                                     *)
LEMMA JudgeKeeps ==
  ASSUME MediaIInv, NEW q \in Requests, JudgeOldAvatar(q)
  PROVE  MediaIInv'
  <1>1. PICK s \in Request : s = req[q] /\ RequestOK(s)
    BY Serving
  <1> DEFINE stillUsed == s.old \in posts \/ \E v \in Users \ {s.user} : avatar[v] = s.old
  <1>2. /\ s.op = "avatar" /\ s.at = "update" /\ AvatarOK(s) /\ s.old \in Files \cup {NoFile}
        /\ UNCHANGED <<tables, blobs, drawn, answered, mishaps>>
    BY <1>1 DEF JudgeOldAvatar, At, RequestOK, Request
  <1>3. PICK dead : dead = IF s.old \in {NoFile, s.file} \/ stillUsed THEN {} ELSE {s.old}
    OBVIOUS
  <1>4. stillUsed => s.old = NoFile \/ s.old \in posts
    BY <1>2 DEF AvatarOK, MediaIInv, TablesInv, Answered
  <1>5. PICK r : r = [s EXCEPT !.at = "commit", !.doomed = dead]
    OBVIOUS
  <1>6. Became(q, r)
    BY <1>1, <1>3, <1>5 DEF JudgeOldAvatar, Goto
  <1>7. dead \subseteq Files
    BY <1>2, <1>3
  <1>8. /\ r \in Request /\ r.op = "avatar" /\ r.at = "commit" /\ r.old = s.old /\ r.locks = s.locks
        /\ r.user = s.user /\ r.file = s.file /\ r.doomed = dead
    BY <1>2, <1>5, <1>7 DEF Request
  <1>9. /\ \A f \in dead : f = s.old /\ f # s.file /\ f \notin posts
        /\ dead = {} => s.old \in {NoFile, s.file} \/ s.old \in posts
    BY <1>3, <1>4
  <1>10. RequestOK(r)
    BY <1>2, <1>8, <1>9 DEF RequestOK, AvatarOK, Consumed
  <1> QED
    BY <1>1, <1>2, <1>6, <1>8, <1>10, QuietKeeps

(* DeletePost locks the post, then the rows whose avatar it is. *)
LEMMA LockPostKeeps ==
  ASSUME MediaIInv, NEW q \in Requests, NEW f \in Files, LockPost(q, f)
  PROVE  MediaIInv'
  <1>1. PICK r : r = [Idle EXCEPT !.op = "delete", !.user = Uploader[f], !.file = f, !.at = "clear",
                                  !.locks = {PostRow(f)}]
    OBVIOUS
  <1>2. /\ r \in Request /\ r.op = "delete" /\ r.at = "clear" /\ r.file = f /\ r.doomed = {}
        /\ r.locks = {PostRow(f)}
    <2>1. {PostRow(f)} \subseteq Rows /\ Uploader[f] \in Users
      BY RowsDiffer, UploaderAssumption
    <2> QED
      BY <1>1, <2>1 DEF Idle, Request
  <1>3. /\ Became(q, r) /\ f \in posts /\ Free(q, PostRow(f)) /\ req[q] = Idle
        /\ UNCHANGED <<tables, blobs, drawn, answered, mishaps>>
    BY <1>1 DEF LockPost
  <1>4. RequestOK(r)
    BY <1>2, <1>3, RowsDiffer DEF RequestOK, DeleteOK
  <1>5. /\ \A row \in r.locks : Free(q, row)
        /\ \A g \in Files : /\ UploadRow(g) \in r.locks => g \in uploads
                            /\ PostRow(g) \in r.locks => g \in posts
    BY <1>2, <1>3, RowsDiffer
  <1>6. req[q].at # "sweep"
    BY <1>3 DEF Idle
  <1> QED
    BY <1>2, <1>3, <1>4, <1>5, <1>6, QuietKeeps

(* DeletePost takes the post off the profiles it is the avatar of.         *)
LEMMA ClearAvatarKeeps ==
  ASSUME MediaIInv, NEW q \in Requests, ClearAvatar(q)
  PROVE  MediaIInv'
  <1>1. PICK s \in Request : s = req[q] /\ RequestOK(s)
    BY Serving
  <1> DEFINE match == {u \in Users : avatar[u] = s.file}
  <1>2. PICK r : r = [s EXCEPT !.at = "commit", !.locks = @ \cup {UserRow(u) : u \in match}]
    OBVIOUS
  <1>3. /\ s.op = "delete" /\ s.at = "clear" /\ DeleteOK(s) /\ Became(q, r)
        /\ \A u \in match : Free(q, UserRow(u))
        /\ UNCHANGED <<tables, blobs, drawn, answered, mishaps>>
    BY <1>1, <1>2 DEF ClearAvatar, At, Goto, RequestOK
  <1>4. {UserRow(u) : u \in match} \subseteq Rows
    BY RowsDiffer
  <1>5. /\ r \in Request /\ r.op = "delete" /\ r.at = "commit"
        /\ r.locks = s.locks \cup {UserRow(u) : u \in match}
        /\ r.file = s.file /\ r.doomed = s.doomed
    BY <1>2, <1>3, <1>4 DEF Request
  <1>6. RequestOK(r)
    BY <1>3, <1>5, RowsDiffer DEF RequestOK, DeleteOK
  <1>7. /\ \A row \in r.locks \ s.locks : Free(q, row)
        /\ \A f \in Files : UploadRow(f) \notin r.locks \ s.locks /\ PostRow(f) \notin r.locks \ s.locks
    BY <1>3, <1>5, RowsDiffer
  <1> QED
    BY <1>1, <1>3, <1>5, <1>6, <1>7, QuietKeeps

-----------------------------------------------------------------------------
(* The steps that change tables or blobs leave q without locks. *)
LEMMA HeldIsFree ==
  ASSUME MediaIInv, NEW q \in Requests, NEW row, row \in req[q].locks
  PROVE  Free(q, row)
  BY DEF Free, MediaIInv, RequestsInv, LocksApart

(* What a request becomes, it becomes beside the others.                   *)
LEMMA ChangeKeeps ==
  ASSUME MediaIInv, NEW q \in Requests, NEW r \in Request, Became(q, r), TablesMove(q), TypeOK',
         r.locks = {}, RequestOK(r)',
         r.op = "upload" => r.file = NoFile \/ (req[q].op = "upload" /\ r.file = req[q].file)
  PROVE  RequestsInv'
  <1>1. r.op = "upload" /\ r.file # NoFile =>
          \A p \in Requests \ {q} : req[p].op = "upload" => req[p].file # r.file
    BY DEF MediaIInv, RequestsInv, OwnNames
  <1>2. MayBecome(q, r)
    BY <1>1 DEF MayBecome
  <1> QED
    BY <1>2, RequestsKeep

(* The rows that CreateFile has deleted: nobody can have used them. *)
LEMMA DoomedRows ==
  ASSUME MediaIInv, NEW q \in Requests, req[q].op = "upload", req[q].at # "sweep", NEW f \in req[q].doomed
  PROVE  /\ f \in uploads \cap aged /\ f \notin posts
         /\ \A u \in Users : avatar[u] # f
         /\ Free(q, UploadRow(f))
  <1>1. UploadOK(req[q])
    BY Serving DEF RequestOK
  <1>2. f \in uploads \cap aged /\ UploadRow(f) \in req[q].locks
    BY <1>1 DEF UploadOK, Pending
  <1> QED
    BY <1>2, HeldIsFree DEF MediaIInv, TablesInv, ConsumedOnce

(* CreateFile gives up, its deletions committed. *)
LEMMA RejectKeeps ==
  ASSUME MediaIInv, NEW q \in Requests, RejectUpload(q)
  PROVE  MediaIInv'
  <1>1. PICK s \in Request : s = req[q] /\ RequestOK(s)
    BY Serving
  <1>2. PICK r : r = [s EXCEPT !.at = "sweep", !.locks = {}, !.seen = {}, !.doomed = s.doomed, !.file = NoFile]
    OBVIOUS
  <1>3. /\ s.op = "upload" /\ s.at = "full" /\ Became(q, r)
        /\ uploads' = uploads \ s.doomed
        /\ UNCHANGED <<aged, posts, deleted, avatar, blobs, drawn, answered, mishaps>>
    <2>1. r = [Sweeping(q, req[q].doomed) EXCEPT !.file = NoFile]
      BY <1>1, <1>2 DEF Sweeping, Request
    <2> QED
      BY <1>1, <2>1 DEF RejectUpload, At
  <1>4. /\ r \in Request /\ r.op = "upload" /\ r.at = "sweep" /\ r.locks = {} /\ r.file = NoFile
        /\ r.doomed = s.doomed
    BY <1>2, <1>3 DEF Request
  <1>5. \A f \in s.doomed : /\ f \in uploads \cap aged /\ f \notin posts
                            /\ \A u \in Users : avatar[u] # f
                            /\ Free(q, UploadRow(f))
    BY <1>1, <1>3, DoomedRows
  <1>6. TypeOK'
    BY <1>3, <1>4, BecameRequest DEF MediaIInv, TypeOK, mishaps
  <1>7. TablesMove(q)
    BY <1>3, <1>5 DEF TablesMove, mishaps
  <1>8. RequestOK(r)'
    BY <1>3, <1>4, <1>5 DEF RequestOK, SweepOK, Disposable
  <1>9. RequestsInv'
    <2>1. r.op = "upload" => r.file = NoFile \/ (req[q].op = "upload" /\ r.file = req[q].file)
      BY <1>4
    <2> QED
      BY <1>3, <1>4, <1>6, <1>7, <1>8, <2>1, ChangeKeeps
  <1>10. TablesInv'
    BY <1>3 DEF MediaIInv, TablesInv, Answered, ConsumedOnce, UploadsKeepTheirBlobs, PostsKeepTheirBlobs,
                AvatarsKeepTheirBlobs, mishaps
  <1>11. UselessIsSwept'
    <2>1. \A f : Swept(f) => Swept(f)'
      BY <1>1, <1>3, <1>4, AllSweptStay
    <2>2. \A f \in s.doomed : Swept(f)'
      BY <1>3, <1>4, BecameRequest DEF Swept, MediaIInv
    <2> QED
      BY <1>3, <2>1, <2>2 DEF MediaIInv, UselessIsSwept, mishaps
  <1> QED
    BY <1>6, <1>9, <1>10, <1>11 DEF MediaIInv

(* CreateFile commits; the new file is not known to anybody yet. *)
LEMMA InsertUploadKeeps ==
  ASSUME MediaIInv, NEW q \in Requests, InsertUpload(q)
  PROVE  MediaIInv'
  <1>1. PICK s \in Request : s = req[q] /\ RequestOK(s)
    BY Serving
  <1>2. PICK r : r = [s EXCEPT !.at = "sweep", !.locks = {}, !.seen = {}, !.doomed = s.doomed]
    OBVIOUS
  <1>3. /\ s.op = "upload" /\ s.at = "insert" /\ Became(q, r)
        /\ uploads' = (uploads \ s.doomed) \cup {s.file}
        /\ UNCHANGED <<aged, posts, deleted, avatar, blobs, drawn, answered, mishaps>>
    <2>1. r = Sweeping(q, req[q].doomed)
      BY <1>1, <1>2 DEF Sweeping
    <2> QED
      BY <1>1, <2>1 DEF InsertUpload, At
  <1>4. /\ r \in Request /\ r.op = "upload" /\ r.at = "sweep" /\ r.locks = {} /\ r.file = s.file
        /\ r.doomed = s.doomed
    BY <1>2, <1>3 DEF Request
  <1>5. \A f \in s.doomed : /\ f \in uploads \cap aged /\ f \notin posts
                            /\ \A u \in Users : avatar[u] # f
                            /\ Free(q, UploadRow(f))
    BY <1>1, <1>3, DoomedRows
  <1>6. /\ s.file \in drawn \ (answered \cup aged \cup uploads)
        /\ s.file \in Files /\ s.file # NoFile
    BY <1>1, <1>3, FilesAssumption DEF RequestOK, UploadOK, MediaIInv, TypeOK
  <1>7. TypeOK'
    BY <1>3, <1>4, <1>6, BecameRequest DEF MediaIInv, TypeOK, mishaps
  <1>8. \A p \in Requests \ {q} : req[p].op = "upload" => req[p].file # s.file
    BY <1>1, <1>3, <1>6 DEF MediaIInv, RequestsInv, OwnNames
  <1>9. TablesMove(q)
    BY <1>3, <1>5, <1>6, <1>8 DEF TablesMove, mishaps
  <1>10. RequestOK(r)'
    BY <1>3, <1>4, <1>5, <1>6 DEF RequestOK, SweepOK, Disposable
  <1>11. RequestsInv'
    BY <1>1, <1>3, <1>4, <1>7, <1>9, <1>10, ChangeKeeps
  <1>12. TablesInv'
    BY <1>3, <1>6 DEF MediaIInv, TablesInv, Answered, ConsumedOnce, UploadsKeepTheirBlobs,
                      PostsKeepTheirBlobs, AvatarsKeepTheirBlobs, mishaps
  <1>13. UselessIsSwept'
    <2>1. \A f : Swept(f) => Swept(f)'
      BY <1>1, <1>3, <1>4, AllSweptStay
    <2>2. \A f \in s.doomed : Swept(f)'
      BY <1>3, <1>4, BecameRequest DEF Swept, MediaIInv
    <2> QED
      BY <1>3, <2>1, <2>2 DEF MediaIInv, UselessIsSwept, mishaps
  <1> QED
    BY <1>7, <1>11, <1>12, <1>13 DEF MediaIInv

(* A blob is deleted, or the deletion fails: nobody had a use for it. *)
LEMMA DeleteBlobKeeps ==
  ASSUME MediaIInv, NEW q \in Requests, DeleteBlob(q)
  PROVE  MediaIInv'
  <1>1. PICK s \in Request : s = req[q] /\ RequestOK(s)
    BY Serving
  <1>2. PICK f \in s.doomed :
          /\ s.at = "sweep"
          /\ \/ blobs' = blobs \ {f} /\ UNCHANGED abandoned
             \/ abandoned' = abandoned \cup {f} /\ UNCHANGED blobs
          /\ Became(q, [s EXCEPT !.doomed = @ \ {f}])
          /\ UNCHANGED <<tables, drawn, answered, undone>>
    BY <1>1 DEF DeleteBlob
  <1>3. PICK r : r = [s EXCEPT !.doomed = @ \ {f}]
    OBVIOUS
  <1>4. /\ r \in Request /\ r.op = s.op /\ r.at = "sweep" /\ r.locks = s.locks /\ r.file = s.file
        /\ r.doomed = s.doomed \ {f} /\ f \in Files
    BY <1>2, <1>3 DEF Request
  <1>5. Became(q, r)
    BY <1>2, <1>3
  <1>6. SweepOK(s) /\ s.locks = {} /\ s.op \in {"upload", "avatar", "delete"} /\ Disposable(f)
    BY <1>1, <1>2 DEF RequestOK, SweepOK
  <1>7. TypeOK'
    BY <1>2, <1>4, <1>5, BecameRequest DEF MediaIInv, TypeOK, tables
  <1>8. TablesMove(q)
    BY <1>2 DEF TablesMove, tables
  <1>9. RequestOK(r)'
    BY <1>2, <1>4, <1>6 DEF RequestOK, SweepOK, Disposable, tables
  <1>10. RequestsInv'
    BY <1>1, <1>4, <1>5, <1>6, <1>7, <1>8, <1>9, ChangeKeeps
  <1>11. TablesInv'
    BY <1>2, <1>6 DEF MediaIInv, TablesInv, Answered, ConsumedOnce, UploadsKeepTheirBlobs,
                      PostsKeepTheirBlobs, AvatarsKeepTheirBlobs, Disposable, tables
  <1>12. UselessIsSwept'
    <2>1. \A g : g # f /\ Swept(g) => Swept(g)'
      <3> TAKE g
      <3>1. req[q].doomed \subseteq r.doomed \cup {f}
        BY <1>1, <1>4
      <3> QED
        BY <1>4, <1>5, <3>1, SweptStays, g \notin {f} <=> g # f
    <2> QED
      BY <1>2, <2>1 DEF MediaIInv, UselessIsSwept, tables
  <1> QED
    BY <1>7, <1>10, <1>11, <1>12 DEF MediaIInv

(* The new blob is put, and its name answered. *)
LEMMA PutBlobKeeps ==
  ASSUME MediaIInv, NEW q \in Requests, PutBlob(q)
  PROVE  MediaIInv'
  <1>1. PICK s \in Request : s = req[q] /\ RequestOK(s)
    BY Serving
  <1>2. PICK r \in Request : r = Idle
    BY IdleIsRequest
  <1>3. /\ s.op = "upload" /\ s.at = "sweep" /\ s.doomed = {} /\ s.file # NoFile
        /\ blobs' = blobs \cup {s.file} /\ answered' = answered \cup {s.file}
        /\ Became(q, r) /\ UNCHANGED <<tables, drawn, mishaps>>
    BY <1>1, <1>2 DEF PutBlob, At, Finish
  <1>4. s.file \in (uploads \cap drawn) \ (answered \cup aged) /\ s.file \in Files
    BY <1>1, <1>3 DEF RequestOK, SweepOK, Request
  <1>5. r.op = "none" /\ r.locks = {} /\ RequestOK(r)'
    BY <1>2 DEF RequestOK, Idle
  <1>6. TypeOK'
    BY <1>2, <1>3, <1>4, BecameRequest DEF MediaIInv, TypeOK, tables, mishaps
  <1>7. \A p \in Requests \ {q} : req[p].op = "upload" => req[p].file # s.file
    BY <1>1, <1>3 DEF MediaIInv, RequestsInv, OwnNames
  <1>8. TablesMove(q)
    BY <1>3, <1>4, <1>7 DEF TablesMove, tables, mishaps
  <1>9. RequestsInv'
    BY <1>2, <1>3, <1>5, <1>6, <1>8, ChangeKeeps
  <1>10. TablesInv'
    BY <1>3, <1>4 DEF MediaIInv, TablesInv, Answered, ConsumedOnce, UploadsKeepTheirBlobs,
                      PostsKeepTheirBlobs, AvatarsKeepTheirBlobs, tables, mishaps
  <1>11. UselessIsSwept'
    <2>1. \A f : Swept(f) => Swept(f)'
      BY <1>1, <1>2, <1>3, AllSweptStay
    <2>2. s.file \notin deleted
      BY <1>4 DEF MediaIInv, TablesInv, ConsumedOnce
    <2> QED
      BY <1>3, <1>4, <2>1, <2>2 DEF MediaIInv, UselessIsSwept, tables, mishaps
  <1> QED
    BY <1>6, <1>9, <1>10, <1>11 DEF MediaIInv

(* The upload becomes a post. *)
LEMMA InsertPostKeeps ==
  ASSUME MediaIInv, NEW q \in Requests, InsertPost(q)
  PROVE  MediaIInv'
  <1>1. PICK s \in Request : s = req[q] /\ RequestOK(s)
    BY Serving
  <1>2. PICK r \in Request : r = Idle
    BY IdleIsRequest
  <1>3. /\ s.op = "post" /\ s.at = "insert"
        /\ uploads' = uploads \ {s.file} /\ posts' = posts \cup {s.file}
        /\ Became(q, r) /\ UNCHANGED <<aged, deleted, avatar, blobs, drawn, answered, mishaps>>
    BY <1>1, <1>2 DEF InsertPost, At, Finish
  <1>4. s.file \in answered /\ s.file \in Files /\ UploadRow(s.file) \in s.locks
    BY <1>1, <1>3 DEF RequestOK, PostOK, MediaIInv, TypeOK
  <1>5. s.file \in uploads /\ Free(q, UploadRow(s.file))
    BY <1>1, <1>4, HeldIsFree DEF MediaIInv, RequestsInv, LocksHeld
  <1>6. r.op = "none" /\ r.locks = {} /\ RequestOK(r)'
    BY <1>2 DEF RequestOK, Idle
  <1>7. TypeOK'
    BY <1>2, <1>3, <1>4, BecameRequest DEF MediaIInv, TypeOK, mishaps
  <1>8. TablesMove(q)
    BY <1>3, <1>4, <1>5 DEF TablesMove, mishaps
  <1>9. RequestsInv'
    BY <1>2, <1>3, <1>6, <1>7, <1>8, ChangeKeeps
  <1>10. TablesInv'
    BY <1>3, <1>4, <1>5 DEF MediaIInv, TablesInv, Answered, ConsumedOnce, UploadsKeepTheirBlobs,
                            PostsKeepTheirBlobs, AvatarsKeepTheirBlobs, mishaps
  <1>11. UselessIsSwept'
    <2>1. req[q].at # "sweep"
      BY <1>1, <1>3
    <2>2. \A f : Swept(f) => Swept(f)'
      BY <1>3, <2>1, AllSweptStay
    <2> QED
      BY <1>3, <2>2 DEF MediaIInv, UselessIsSwept, mishaps
  <1> QED
    BY <1>7, <1>9, <1>10, <1>11 DEF MediaIInv

(* The new avatar is in; the old one is doomed or some post's. *)
LEMMA CommitAvatarKeeps ==
  ASSUME MediaIInv, NEW q \in Requests, CommitAvatar(q)
  PROVE  MediaIInv'
  <1>1. PICK s \in Request : s = req[q] /\ RequestOK(s)
    BY Serving
  <1>2. PICK r : r = [s EXCEPT !.at = "sweep", !.locks = {}, !.seen = {}, !.doomed = s.doomed]
    OBVIOUS
  <1>3. /\ s.op = "avatar" /\ s.at = "commit" /\ Became(q, r)
        /\ avatar' = [avatar EXCEPT ![s.user] = s.file]
        /\ uploads' = {f \in uploads : UploadRow(f) \notin s.locks}
        /\ UNCHANGED <<aged, posts, deleted, blobs, drawn, answered, mishaps>>
    <2>1. r = Sweeping(q, req[q].doomed)
      BY <1>1, <1>2 DEF Sweeping
    <2> QED
      BY <1>1, <2>1 DEF CommitAvatar, At
  <1>4. /\ r \in Request /\ r.op = "avatar" /\ r.at = "sweep" /\ r.locks = {} /\ r.doomed = s.doomed
    BY <1>2, <1>3 DEF Request
  <1>5. /\ AvatarOK(s) /\ s.user \in Users /\ s.file \in Files \cup {NoFile} /\ s.old = avatar[s.user]
        /\ s.doomed \subseteq Files
    BY <1>1, <1>3 DEF RequestOK, AvatarOK, Request
  <1>6. /\ avatar'[s.user] = s.file
        /\ \A u \in Users \ {s.user} : avatar'[u] = avatar[u]
        /\ avatar' \in [Users -> Files \cup {NoFile}]
    BY <1>3, <1>5 DEF MediaIInv, TypeOK
  <1>7. \A f \in uploads : UploadRow(f) \in s.locks =>
          f = s.file /\ f \in answered /\ Free(q, UploadRow(f))
    BY <1>1, <1>5, FilesAssumption, HeldIsFree DEF AvatarOK, MediaIInv, TypeOK
  <1>8. TypeOK'
    BY <1>3, <1>4, <1>6, BecameRequest DEF MediaIInv, TypeOK, mishaps
  <1>9. \/ s.file \in {NoFile, s.old} \cup posts \cup deleted
        \/ s.file \in uploads \cap answered /\ s.file \notin uploads'
    BY <1>1, <1>3, <1>5, FilesAssumption DEF AvatarOK, Consumed, MediaIInv, RequestsInv, LocksHeld
  <1>10. TablesMove(q)
    <2>1. Free(q, UserRow(s.user))
      BY <1>1, <1>5, HeldIsFree DEF AvatarOK
    <2>2. \A u \in Users : avatar'[u] # avatar[u] =>
            Free(q, UserRow(u)) /\ avatar'[u] \in {NoFile} \cup posts \cup deleted \cup uploads
      BY <1>5, <1>6, <1>9, <2>1
    <2>3. uploads' \subseteq uploads /\ \A f \in uploads \ uploads' : f \in answered /\ Free(q, UploadRow(f))
      BY <1>3, <1>7
    <2> QED
      BY <1>3, <2>2, <2>3 DEF TablesMove, mishaps
  <1>11. \A f \in s.doomed : f = s.old /\ f # s.file /\ f \notin posts
    BY <1>3, <1>5 DEF AvatarOK
  <1>12. RequestOK(r)'
    <2> SUFFICES ASSUME NEW f \in s.doomed PROVE Disposable(f)'
      BY <1>4 DEF RequestOK, SweepOK
    <2>1. f \in answered \ (uploads \cup posts) /\ Uploader[f] = s.user
      BY <1>5, <1>11, FilesAssumption DEF MediaIInv, TablesInv, Answered, ConsumedOnce
    <2>2. \A u \in Users : avatar'[u] # f
      BY <1>5, <1>6, <1>11, <2>1, FilesAssumption DEF MediaIInv, TablesInv, Answered
    <2> QED
      BY <1>3, <2>1, <2>2 DEF Disposable
  <1>13. RequestsInv'
    BY <1>1, <1>3, <1>4, <1>8, <1>10, <1>12, ChangeKeeps
  <1>14. TablesInv'
    <2>1. Answered'
      BY <1>3, <1>5, <1>6 DEF AvatarOK, MediaIInv, TablesInv, Answered
    <2>2. s.file \notin uploads'
      BY <1>3, <1>5, <1>9, FilesAssumption DEF MediaIInv, TypeOK, TablesInv, ConsumedOnce
    <2>3. ConsumedOnce'
      BY <1>3, <1>6, <2>2 DEF MediaIInv, TablesInv, ConsumedOnce
    <2>4. s.file \in blobs \cup deleted \cup undone \cup {NoFile}
      BY <1>5, <1>9 DEF MediaIInv, TablesInv, UploadsKeepTheirBlobs, PostsKeepTheirBlobs, AvatarsKeepTheirBlobs
    <2>5. AvatarsKeepTheirBlobs'
      BY <1>3, <1>6, <2>4 DEF MediaIInv, TablesInv, AvatarsKeepTheirBlobs, mishaps
    <2> QED
      BY <1>3, <2>1, <2>3, <2>5 DEF MediaIInv, TablesInv, UploadsKeepTheirBlobs, PostsKeepTheirBlobs, mishaps
  <1>15. UselessIsSwept'
    <2>1. \A f : Swept(f) => Swept(f)'
      BY <1>1, <1>3, <1>4, AllSweptStay
    <2>2. \A f \in s.doomed : Swept(f)'
      BY <1>3, <1>4, BecameRequest DEF Swept, MediaIInv
    <2>3. \A f \in deleted : f \notin blobs \/ f \in abandoned \/ Swept(f)'
      BY <2>1 DEF MediaIInv, UselessIsSwept
    <2> SUFFICES ASSUME NEW f \in blobs \ abandoned, f \notin uploads' \cup posts, ~Swept(f)'
                 PROVE  \E u \in Users : avatar'[u] = f
      BY <1>3, <2>3 DEF UselessIsSwept, mishaps
    <2>4. f \in uploads \/ \E u \in Users : avatar[u] = f
      BY <2>1 DEF MediaIInv, UselessIsSwept
    <2>5. CASE f \in uploads
      BY <1>3, <1>5, <1>6, <1>7, <2>5
    <2>6. CASE s.old # f /\ \E u \in Users : avatar[u] = f
      BY <1>5, <1>6, <2>6
    <2>7. CASE s.old = f
      <3>1. s.doomed = {} /\ f # NoFile
        BY <1>11, <2>2, <2>7, FilesAssumption DEF MediaIInv, TypeOK
      <3>2. f = s.file \/ f \in deleted
        BY <1>3, <1>5, <2>7, <3>1 DEF AvatarOK, Consumed
      <3> QED
        BY <1>5, <1>6, <2>3, <3>2
    <2> QED
      BY <2>4, <2>5, <2>6, <2>7
  <1> QED
    BY <1>8, <1>13, <1>14, <1>15 DEF MediaIInv

(* The post is gone, and with it the avatars that showed its image. *)
LEMMA CommitDeleteKeeps ==
  ASSUME MediaIInv, NEW q \in Requests, CommitDelete(q)
  PROVE  MediaIInv'
  <1>1. PICK s \in Request : s = req[q] /\ RequestOK(s)
    BY Serving
  <1>2. PICK r : r = [s EXCEPT !.at = "sweep", !.locks = {}, !.seen = {}, !.doomed = {s.file}]
    OBVIOUS
  <1>3. /\ s.op = "delete" /\ s.at = "commit" /\ Became(q, r)
        /\ posts' = posts \ {s.file} /\ deleted' = deleted \cup {s.file}
        /\ avatar' = [u \in Users |-> IF UserRow(u) \in s.locks THEN NoFile ELSE avatar[u]]
        /\ UNCHANGED <<uploads, aged, blobs, drawn, answered, mishaps>>
    <2>1. r = Sweeping(q, {req[q].file})
      BY <1>1, <1>2 DEF Sweeping
    <2> QED
      BY <1>1, <2>1 DEF CommitDelete, At
  <1>4. /\ PostRow(s.file) \in s.locks /\ s.file \in Files
        /\ \A u \in Users : UserRow(u) \in s.locks => avatar[u] = s.file
    BY <1>1, <1>3, RowsDiffer DEF RequestOK, DeleteOK, Request
  <1>5. s.file \in posts /\ s.file \notin uploads /\ s.file \in answered
    BY <1>1, <1>4 DEF MediaIInv, RequestsInv, LocksHeld, TablesInv, ConsumedOnce, Answered
  <1>6. /\ r \in Request /\ r.op = "delete" /\ r.at = "sweep" /\ r.locks = {} /\ r.doomed = {s.file}
    BY <1>2, <1>3, <1>4 DEF Request
  <1>7. TypeOK'
    BY <1>3, <1>4, <1>6, BecameRequest DEF MediaIInv, TypeOK, mishaps
  <1>8. TablesMove(q)
    <2>1. \A u \in Users : avatar'[u] # avatar[u] => Free(q, UserRow(u)) /\ avatar'[u] = NoFile
      BY <1>1, <1>3, HeldIsFree
    <2>2. Free(q, PostRow(s.file))
      BY <1>1, <1>4, HeldIsFree
    <2> QED
      BY <1>3, <2>1, <2>2 DEF TablesMove, mishaps
  <1>9. RequestOK(r)'
    BY <1>3, <1>6 DEF RequestOK, SweepOK, Disposable
  <1>10. RequestsInv'
    BY <1>3, <1>6, <1>7, <1>8, <1>9, ChangeKeeps
  <1>11. TablesInv'
    BY <1>3, <1>5, FilesAssumption DEF MediaIInv, TypeOK, TablesInv, Answered, ConsumedOnce, UploadsKeepTheirBlobs,
                      PostsKeepTheirBlobs, AvatarsKeepTheirBlobs, mishaps
  <1>12. UselessIsSwept'
    <2>1. req[q].at # "sweep"
      BY <1>1, <1>3
    <2>2. \A f : Swept(f) => Swept(f)'
      BY <1>3, <1>6, <2>1, AllSweptStay
    <2>3. Swept(s.file)'
      BY <1>3, <1>6, BecameRequest DEF Swept, MediaIInv
    <2>4. \A f \in deleted' : f \notin blobs' \/ f \in abandoned' \/ Swept(f)'
      BY <1>3, <2>2, <2>3 DEF MediaIInv, UselessIsSwept, mishaps
    <2> SUFFICES ASSUME NEW f \in blobs \ abandoned, f # s.file, f \notin uploads \cup posts, ~Swept(f)'
                 PROVE  \E u \in Users : avatar'[u] = f
      BY <1>3, <2>3, <2>4 DEF UselessIsSwept, mishaps
    <2>5. PICK u \in Users : avatar[u] = f
      BY <2>2 DEF MediaIInv, UselessIsSwept
    <2> QED
      BY <1>3, <1>4, <2>5
  <1> QED
    BY <1>7, <1>10, <1>11, <1>12 DEF MediaIInv

(* A transaction is undone; an upload's goes on to delete blobs whose rows  *)
(* are back.                                                                *)
LEMMA RollBackKeeps ==
  ASSUME MediaIInv, NEW q \in Requests, req[q].at # "sweep", RollBack(q)
  PROVE  MediaIInv'
  <1>1. PICK s \in Request : s = req[q] /\ RequestOK(s)
    BY Serving
  <1>2. CASE s.op # "upload"
    <2>1. Finish(q) /\ UNCHANGED <<tables, blobs, drawn, answered, mishaps>>
      BY <1>1, <1>2 DEF RollBack, Finish, mishaps
    <2> QED
      BY <2>1, FinishKeeps
  <1>3. CASE s.op = "upload"
    <2>1. PICK r : r = [s EXCEPT !.at = "sweep", !.locks = {}, !.seen = {}, !.doomed = s.doomed, !.file = NoFile]
      OBVIOUS
    <2>2. r = [Sweeping(q, req[q].doomed) EXCEPT !.file = NoFile]
      BY <1>1, <2>1 DEF Sweeping, Request
    <2>3. /\ Became(q, r) /\ undone' = undone \cup s.doomed
          /\ UNCHANGED <<tables, blobs, drawn, answered, abandoned>>
      BY <1>1, <1>3, <2>2 DEF RollBack
    <2>4. /\ r \in Request /\ r.op = "upload" /\ r.at = "sweep" /\ r.locks = {} /\ r.file = NoFile
          /\ r.doomed = s.doomed /\ s.doomed \subseteq Files
      BY <1>3, <2>1 DEF Request
    <2>5. TypeOK'
      BY <2>3, <2>4, BecameRequest DEF MediaIInv, TypeOK, tables
    <2>6. TablesMove(q)
      BY <2>3 DEF TablesMove, tables
    <2>7. RequestOK(r)'
      BY <2>3, <2>4 DEF RequestOK, SweepOK, Disposable
    <2>8. RequestsInv'
      BY <2>3, <2>4, <2>5, <2>6, <2>7, ChangeKeeps
    <2>9. TablesInv'
      BY <2>3 DEF MediaIInv, TablesInv, Answered, ConsumedOnce, UploadsKeepTheirBlobs, PostsKeepTheirBlobs,
                  AvatarsKeepTheirBlobs, tables
    <2>10. UselessIsSwept'
      <3>1. \A f : Swept(f) => Swept(f)'
        BY <2>3, <2>4, AllSweptStay
      <3> QED
        BY <2>3, <3>1 DEF MediaIInv, UselessIsSwept, tables
    <2> QED
      BY <2>5, <2>8, <2>9, <2>10 DEF MediaIInv
  <1> QED
    BY <1>2, <1>3

(* A replica dies: what it was to delete is left behind. *)
LEMMA DieKeeps ==
  ASSUME MediaIInv, NEW q \in Requests, Die(q)
  PROVE  MediaIInv'
  <1>1. PICK s \in Request : s = req[q] /\ RequestOK(s)
    BY Serving
  <1>2. CASE s.at # "sweep"
    <2>1. Finish(q) /\ UNCHANGED <<tables, blobs, drawn, answered, mishaps>>
      BY <1>1, <1>2 DEF Die, InTransaction, mishaps
    <2> QED
      BY <1>1, <1>2, <2>1, FinishKeeps
  <1>3. CASE s.at = "sweep"
    <2>1. PICK r \in Request : r = Idle
      BY IdleIsRequest
    <2>2. /\ Became(q, r) /\ abandoned' = abandoned \cup s.doomed
          /\ UNCHANGED <<tables, blobs, drawn, answered, undone>>
      BY <1>1, <1>3, <2>1 DEF Die, InTransaction, Finish
    <2>3. r.op = "none" /\ r.locks = {} /\ RequestOK(r)' /\ s.doomed \subseteq Files
      BY <2>1 DEF RequestOK, Idle, Request
    <2>4. TypeOK'
      BY <2>2, <2>3, BecameRequest DEF MediaIInv, TypeOK, tables
    <2>5. TablesMove(q)
      BY <2>2 DEF TablesMove, tables
    <2>6. RequestsInv'
      BY <2>2, <2>3, <2>4, <2>5, ChangeKeeps
    <2>7. TablesInv'
      BY <2>2 DEF MediaIInv, TablesInv, Answered, ConsumedOnce, UploadsKeepTheirBlobs, PostsKeepTheirBlobs,
                  AvatarsKeepTheirBlobs, tables
    <2>8. UselessIsSwept'
      <3>1. \A f : f \notin s.doomed /\ Swept(f) => Swept(f)'
        BY <1>1, <2>2, SweptStays
      <3> QED
        BY <2>2, <3>1 DEF MediaIInv, UselessIsSwept, tables
    <2> QED
      BY <2>4, <2>6, <2>7, <2>8 DEF MediaIInv
  <1> QED
    BY <1>2, <1>3

(* An hour passes over an upload that no request is about. *)
LEMMA ExpireKeeps ==
  ASSUME MediaIInv, NEW f \in Files, Expire(f)
  PROVE  MediaIInv'
  <1>1. /\ f \in uploads /\ aged' = aged \cup {f}
        /\ \A q \in Requests : req[q].op = "upload" => req[q].file # f
        /\ UNCHANGED <<uploads, posts, deleted, avatar, blobs, drawn, answered, req, mishaps>>
    BY DEF Expire
  <1>2. TypeOK'
    BY <1>1 DEF MediaIInv, TypeOK, mishaps
  <1>3. ASSUME NEW r \in {req[q] : q \in Requests}' PROVE RequestOK(r)'
    <2>1. RequestOK(r) /\ (r.op = "upload" => r.file # f)
      BY <1>1 DEF MediaIInv, RequestsInv
    <2>2. \A g : Disposable(g) => Disposable(g)'
      BY <1>1 DEF Disposable, mishaps
    <2>3. UploadOK(r) /\ r.file # f => UploadOK(r)'
      BY <1>1 DEF UploadOK, Pending
    <2>4. SweepOK(r) /\ (r.op = "upload" => r.file # f) => SweepOK(r)'
      BY <1>1, <2>2 DEF SweepOK
    <2>5. (PostOK(r) => PostOK(r)') /\ (AvatarOK(r) => AvatarOK(r)') /\ (DeleteOK(r) => DeleteOK(r)')
      BY <1>1 DEF PostOK, AvatarOK, DeleteOK, Consumed
    <2> QED
      BY <2>1, <2>3, <2>4, <2>5 DEF RequestOK
  <1>4. RequestsInv'
    BY <1>1, <1>3 DEF MediaIInv, RequestsInv, LocksApart, LocksHeld, OwnNames
  <1>5. TablesInv'
    BY <1>1 DEF MediaIInv, TablesInv, Answered, ConsumedOnce, UploadsKeepTheirBlobs, PostsKeepTheirBlobs,
                AvatarsKeepTheirBlobs, mishaps
  <1>6. UselessIsSwept'
    BY <1>1 DEF MediaIInv, UselessIsSwept, Swept, mishaps
  <1> QED
    BY <1>2, <1>4, <1>5, <1>6 DEF MediaIInv

-----------------------------------------------------------------------------
(* Nothing is uploaded at first. *)
LEMMA MediaInitial == Init => MediaIInv
  <1> SUFFICES ASSUME Init PROVE MediaIInv
    OBVIOUS
  <1>1. TypeOK
    BY IdleIsRequest DEF Init, TypeOK
  <1>2. ASSUME NEW q \in Requests PROVE req[q] = Idle /\ Idle.locks = {} /\ Idle.op = "none"
    BY DEF Init, Idle
  <1>3. RequestsInv
    BY <1>2, IdleIsRequest DEF RequestsInv, LocksApart, LocksHeld, OwnNames
  <1>4. TablesInv
    BY DEF Init, TablesInv, Answered, ConsumedOnce, UploadsKeepTheirBlobs, PostsKeepTheirBlobs,
           AvatarsKeepTheirBlobs
  <1> QED
    BY <1>1, <1>3, <1>4 DEF Init, MediaIInv, UselessIsSwept

(* Every step of every request, every failure and every hour keeps it. *)
LEMMA MediaInductive == MediaIInv /\ [Next]_vars => MediaIInv'
  <1> SUFFICES ASSUME MediaIInv, [Next]_vars PROVE MediaIInv'
    OBVIOUS
  <1>1. ASSUME NEW q \in Requests, Accept(q) PROVE MediaIInv'
    BY <1>1, DeleteExpiredKeeps, ConsumeKeeps, LockPostKeeps, LockProfileKeeps DEF Accept
  <1>2. ASSUME NEW q \in Requests, Answer(q) PROVE MediaIInv'
    BY <1>2, FinishKeeps DEF Answer
  <1>3. ASSUME NEW q \in Requests, Serve(q) PROVE MediaIInv'
    BY <1>2, <1>3, SnapshotKeeps, CountKeeps, RejectKeeps, InsertUploadKeeps, DeleteBlobKeeps, PutBlobKeeps,
       InsertPostKeeps, CheckAvatarKeeps, ConsumeForAvatarKeeps, JudgeKeeps, CommitAvatarKeeps,
       ClearAvatarKeeps, CommitDeleteKeeps DEF Serve
  <1>4. ASSUME NEW q \in Requests, Fail(q) PROVE MediaIInv'
    BY <1>4, RollBackKeeps DEF Fail, InTransaction
  <1>5. ASSUME NEW q \in Requests, Die(q) PROVE MediaIInv'
    BY <1>5, DieKeeps
  <1>6. ASSUME NEW q \in Requests, NEW p \in Requests, BreakDeadlock(q, p) PROVE MediaIInv'
    <2>1. req[q].at # "sweep" /\ req[p].at # "sweep"
      BY <1>6 DEF BreakDeadlock, At
    <2> QED
      BY <1>6, <2>1, RollBackKeeps DEF BreakDeadlock
  <1>7. ASSUME NEW f \in Files, Expire(f) PROVE MediaIInv'
    BY <1>7, ExpireKeeps
  <1>8. CASE UNCHANGED vars
    <2>1. UNCHANGED <<uploads, aged, posts, deleted, avatar, blobs, drawn, answered, req, undone, abandoned>>
      BY <1>8 DEF vars, mishaps
    <2>2. ASSUME NEW r \in {req[q] : q \in Requests}' PROVE RequestOK(r)'
      <3>1. RequestOK(r)
        BY <2>1 DEF MediaIInv, RequestsInv
      <3> QED
        BY <2>1, <3>1 DEF RequestOK, UploadOK, PostOK, AvatarOK, DeleteOK, SweepOK, Disposable, Consumed, Pending
    <2>3. RequestsInv'
      BY <2>1, <2>2 DEF MediaIInv, RequestsInv, LocksApart, LocksHeld, OwnNames
    <2> QED
      BY <2>1, <2>3 DEF MediaIInv, TypeOK, TablesInv, Answered, ConsumedOnce, UploadsKeepTheirBlobs,
                        PostsKeepTheirBlobs, AvatarsKeepTheirBlobs, UselessIsSwept, Swept
  <1> QED
    BY <1>1, <1>3, <1>4, <1>5, <1>6, <1>7, <1>8 DEF Next

(* What is true of the tables, the blobs and the requests at all times.     *)
THEOREM MediaInvariant == Spec => []MediaIInv
  BY MediaInitial, MediaInductive, PTL DEF Spec

(* No upload is used twice: DELETE ... RETURNING makes the rows that        *)
(* CreatePost and UpdateProfile consume theirs alone.                       *)
THEOREM UploadsConsumedOnce == Spec => []ConsumedOnce
  <1>1. MediaIInv => ConsumedOnce
    BY DEF MediaIInv, TablesInv
  <1> QED
    BY <1>1, MediaInvariant, PTL

(* However the handlers of uploads, posts and profiles interleave, fail and *)
(* are cut off, no blob goes that a post or an avatar still names.          *)
THEOREM BlobsAreKept == Spec => []BlobsKept
  <1>1. MediaIInv => BlobsKept
    BY DEF MediaIInv, TablesInv, BlobsKept
  <1> QED
    BY <1>1, MediaInvariant, PTL

(* And a blob that none names is about to be deleted by the handler that    *)
(* made it useless, or that handler failed to.                              *)
THEOREM UselessBlobsGo == Spec => []NoOrphanBlobs
  <1>1. MediaIInv => NoOrphanBlobs
    BY DEF MediaIInv, UselessIsSwept, Swept, NoOrphanBlobs
  <1> QED
    BY <1>1, MediaInvariant, PTL

-----------------------------------------------------------------------------
(* A set that loses rows loses no more of those that are known. *)
LEMMA LosingRows ==
  ASSUME NEW P, IsFiniteSet(P), NEW Q \in SUBSET P, NEW K
  PROVE  /\ Cardinality(P) \in Nat /\ Cardinality(Q) \in Nat /\ Cardinality(Q) <= Cardinality(P)
         /\ Cardinality(K \cap P) \in Nat /\ Cardinality(K \cap Q) \in Nat
         /\ Cardinality(K \cap P) <= Cardinality(K \cap Q) + Cardinality(P) - Cardinality(Q)
  <1>1. /\ IsFiniteSet(Q) /\ Cardinality(Q) <= Cardinality(P)
        /\ Cardinality(P) \in Nat /\ Cardinality(Q) \in Nat
    BY FS_Subset, FS_CardinalityType
  <1>2. IsFiniteSet(K \cap P) /\ IsFiniteSet(K \cap Q) /\ IsFiniteSet(K \cap (P \ Q)) /\ IsFiniteSet(P \ Q)
    BY FS_Subset
  <1>3. Cardinality(P \ Q) = Cardinality(P) - Cardinality(Q)
    <2>1. P \cap Q = Q
      OBVIOUS
    <2> QED
      BY <2>1, FS_Difference
  <1>4. Cardinality(K \cap (P \ Q)) <= Cardinality(P \ Q)
    BY <1>2, FS_Subset
  <1>5. Cardinality(K \cap P) = Cardinality(K \cap Q) + Cardinality(K \cap (P \ Q))
    <2>1. PICK X, Y : X = K \cap Q /\ Y = K \cap (P \ Q)
      OBVIOUS
    <2>2. X \cup Y = K \cap P /\ X \cap Y = {}
      BY <2>1
    <2>3. Cardinality(X) \in Nat /\ Cardinality(Y) \in Nat /\ Cardinality({}) = 0
      BY <1>2, <2>1, FS_CardinalityType, FS_EmptySet
    <2>4. Cardinality(X \cup Y) = Cardinality(X) + Cardinality(Y) - Cardinality(X \cap Y)
      BY <1>2, <2>1, FS_Union
    <2>5. Cardinality(X \cap Y) = 0 /\ Cardinality(X \cup Y) = Cardinality(K \cap P)
      BY <2>2, <2>3
    <2>6. Cardinality(K \cap P) = Cardinality(X) + Cardinality(Y)
      BY <2>3, <2>4, <2>5
    <2> QED
      BY <2>1, <2>6
  <1>6. Cardinality(K \cap P) \in Nat /\ Cardinality(K \cap Q) \in Nat /\ Cardinality(K \cap (P \ Q)) \in Nat
    BY <1>2, FS_CardinalityType
  <1> QED
    BY <1>1, <1>3, <1>4, <1>5, <1>6

(* A request that goes on counting what it has seen. *)
StillCounts(x) ==
  /\ Counting(req[x])
  /\ req'[x].user = req[x].user /\ req'[x].seen = req[x].seen /\ req'[x].doomed = req[x].doomed

(* Sets of requests, and the pending rows of a user, are finite. *)
LEMMA Finiteness ==
  ASSUME CountOK, NEW u \in Users, NEW m
  PROVE  /\ IsFiniteSet(Pending(u)) /\ Cardinality(Pending(u)) \in Nat
         /\ IsFiniteSet(Behind(u, m)) /\ Cardinality(Behind(u, m)) \in Nat
         /\ Cardinality(Requests) \in Nat
  <1>1. Pending(u) \in SUBSET uploads /\ Behind(u, m) \in SUBSET Requests
    BY DEF Pending, Behind
  <1> QED
    BY <1>1, RequestsAssumption, FS_Subset, FS_CardinalityType DEF CountOK

(* Rows go: who is behind was behind by no more than they are.              *)
LEMMA StaysBehind ==
  ASSUME CountOK, NEW u \in Users, NEW m \in Nat, NEW x \in Requests, x \in Behind(u, m)',
         StillCounts(x), NEW P, P = Pending(u), NEW Q \in SUBSET P,
         (req[x].seen \cup req[x].doomed) \cap Pending(u)' = (req[x].seen \cup req[x].doomed) \cap Q
  PROVE  x \in Behind(u, m + Cardinality(P) - Cardinality(Q))
  <1>1. PICK K : K = req[x].seen \cup req[x].doomed
    OBVIOUS
  <1>2. Known(req[x])' = K \cap Q /\ req[x].user = u /\ Cardinality(K \cap Q) < m
    BY <1>1 DEF Behind, Known, StillCounts
  <1>3. Known(req[x]) = K \cap P
    BY <1>1, <1>2 DEF Known
  <1>4. IsFiniteSet(P)
    BY Finiteness
  <1>5. Cardinality(K \cap P) < m + Cardinality(P) - Cardinality(Q)
    <2>1. /\ Cardinality(P) \in Nat /\ Cardinality(Q) \in Nat
          /\ Cardinality(K \cap P) \in Nat /\ Cardinality(K \cap Q) \in Nat
          /\ Cardinality(K \cap P) <= Cardinality(K \cap Q) + Cardinality(P) - Cardinality(Q)
      BY <1>4, LosingRows
    <2> QED
      BY <1>2, <2>1
  <1> QED
    BY <1>2, <1>3, <1>5 DEF Behind, StillCounts

(* A request that has just looked at all the pending uploads of its user. *)
Informed(x) == Pending(req[x].user) \subseteq req[x].seen \cup req[x].doomed

(* Steps that only take rows away. *)
LEMMA RemovalKeepsFew ==
  ASSUME PendingIInv, CountOK', uploads' \subseteq uploads,
         \A x \in Requests : Counting(req[x])' => StillCounts(x) \/ Informed(x)'
  PROVE  FewBehind'
  <1> SUFFICES ASSUME NEW u \in Users, NEW m \in MaxPending..Cardinality(Pending(u)')
               PROVE  Cardinality(Behind(u, m)') + Cardinality(Pending(u)') - m < Cardinality(Requests)
    BY DEF FewBehind
  <1>1. PICK P, Q, B : P = Pending(u) /\ Q = Pending(u)' /\ B = Behind(u, m)'
    OBVIOUS
  <1>2. Q \in SUBSET P /\ IsFiniteSet(P) /\ IsFiniteSet(B) /\ Cardinality(Requests) \in Nat
    BY <1>1, Finiteness, RequestsAssumption, FS_Subset, FS_CardinalityType DEF Pending, PendingIInv, Behind
  <1>3. Cardinality(P) \in Nat /\ Cardinality(Q) \in Nat /\ Cardinality(Q) <= Cardinality(P)
    BY <1>2, LosingRows
  <1>4. m \in Nat /\ m <= Cardinality(Q) /\ m >= MaxPending
    BY <1>1, <1>3, MaxPendingAssumption
  <1>5. PICK k : k = m + Cardinality(P) - Cardinality(Q)
    OBVIOUS
  <1>6. k \in MaxPending..Cardinality(P)
    BY <1>3, <1>4, <1>5, MaxPendingAssumption
  <1>7. B \subseteq Behind(u, k)
    <2> SUFFICES ASSUME NEW x \in B PROVE x \in Behind(u, k)
      OBVIOUS
    <2>1. x \in Requests /\ Counting(req[x])' /\ req'[x].user = u /\ Cardinality(Known(req[x])') < m
      BY <1>1 DEF Behind
    <2>2. StillCounts(x)
      <3> SUFFICES ASSUME Informed(x)' PROVE FALSE
        BY <2>1
      <3>1. Known(req[x])' = Q
        BY <1>1, <2>1 DEF Known, Informed
      <3> QED
        BY <1>4, <2>1, <3>1, <1>3
    <2> QED
      BY <1>1, <1>2, <1>4, <1>5, <2>1, <2>2, StaysBehind DEF PendingIInv
  <1>8. Cardinality(Behind(u, k)) + Cardinality(P) - k < Cardinality(Requests)
    BY <1>1, <1>6 DEF PendingIInv, FewBehind
  <1>9. Cardinality(B) <= Cardinality(Behind(u, k)) /\ Cardinality(B) \in Nat /\ Cardinality(Behind(u, k)) \in Nat
    BY <1>2, <1>7, Finiteness, FS_Subset, FS_CardinalityType DEF PendingIInv
  <1>10. Cardinality(B) + Cardinality(Q) - m < Cardinality(Requests)
    BY <1>2, <1>3, <1>4, <1>5, <1>8, <1>9
  <1> QED
    BY <1>1, <1>10
(* Steps after which nobody counts anew, or whoever does knows all there is. *)
Quiet ==
  /\ uploads' \subseteq uploads /\ drawn \subseteq drawn'
  /\ \A x \in Requests :
       /\ Counting(req[x])' =>
            \/ /\ StillCounts(x)
               /\ req'[x].at = "insert" =>
                    req[x].at = "insert" \/ Cardinality(req[x].seen \cap uploads) < MaxPending
            \/ Informed(x)' /\ req'[x].at = "count" /\ req'[x].seen \subseteq uploads
       /\ Drawing(req[x])' =>
            \/ Drawing(req[x]) /\ req'[x].file = req[x].file
            \/ req'[x].file \notin drawn

(* A name that is being drawn is not that of an upload yet. *)
LEMMA DrawnIsNew ==
  ASSUME MediaIInv, NEW p \in Requests, Drawing(req[p])
  PROVE  req[p].file \in drawn /\ req[p].file \notin uploads /\ req[p].doomed \subseteq Pending(req[p].user)
  BY Serving DEF Drawing, RequestOK, UploadOK

(* Nothing is inserted and nobody learns less: the count stays near.       *)
LEMMA QuietKeepsPending ==
  ASSUME MediaIInv, PendingIInv, Quiet
  PROVE  PendingIInv'
  <1>1. IsFiniteSet(uploads')
    BY FS_Subset DEF Quiet, PendingIInv, CountOK
  <1>2. uploads \subseteq drawn
    BY DEF MediaIInv, TablesInv, Answered
  <1>3. ASSUME NEW x \in Requests, Counting(req[x])'
        PROVE  /\ req'[x].seen \subseteq drawn
               /\ req'[x].at = "insert" => Cardinality(req'[x].seen \cap uploads') < MaxPending
               /\ \A p \in Requests : Drawing(req[p]) => req[p].file \notin req'[x].seen
    <2>1. CASE /\ StillCounts(x)
               /\ req'[x].at = "insert" =>
                    req[x].at = "insert" \/ Cardinality(req[x].seen \cap uploads) < MaxPending
      <3>1. /\ req'[x].seen \subseteq drawn
            /\ \A p \in Requests : Drawing(req[p]) => req[p].file \notin req'[x].seen
        BY <2>1 DEF StillCounts, PendingIInv, CountOK
      <3>2. ASSUME req'[x].at = "insert" PROVE Cardinality(req'[x].seen \cap uploads') < MaxPending
        <4>1. PICK X, Y : X = req[x].seen \cap uploads /\ Y = req'[x].seen \cap uploads'
          OBVIOUS
        <4>2. Y \subseteq X /\ IsFiniteSet(X)
          BY <2>1, <4>1, FS_Subset DEF StillCounts, Quiet, PendingIInv, CountOK
        <4>3. /\ Cardinality(Y) <= Cardinality(X)
              /\ Cardinality(X) \in Nat /\ Cardinality(Y) \in Nat /\ MaxPending \in Nat
          BY <4>2, FS_Subset, FS_CardinalityType, MaxPendingAssumption
        <4>4. Cardinality(X) < MaxPending
          BY <2>1, <3>2, <4>1 DEF StillCounts, PendingIInv, CountOK
        <4> QED
          BY <4>1, <4>3, <4>4
      <3> QED
        BY <3>1, <3>2
    <2>2. CASE req'[x].at = "count" /\ req'[x].seen \subseteq uploads
      BY <1>2, <2>2, DrawnIsNew
    <2> QED
      BY <1>3, <2>1, <2>2 DEF Quiet
  <1>4. CountOK'
    <2> SUFFICES ASSUME NEW x \in Requests, Counting(req[x])', NEW p \in Requests, Drawing(req[p])'
                 PROVE  req'[p].file \notin req'[x].seen
      BY <1>1, <1>3 DEF CountOK, Quiet
    <2>1. CASE Drawing(req[p]) /\ req'[p].file = req[p].file
      BY <1>3, <2>1
    <2>2. CASE req'[p].file \notin drawn
      BY <1>3, <2>2
    <2> QED
      BY <2>1, <2>2 DEF Quiet
  <1>5. FewBehind'
    <2>1. uploads' \subseteq uploads /\ \A x \in Requests : Counting(req[x])' => StillCounts(x) \/ Informed(x)'
      BY DEF Quiet
    <2> QED
      BY <1>4, <2>1, RemovalKeepsFew
  <1> QED
    BY <1>4, <1>5 DEF PendingIInv

(* Steps of requests that are not counting after them. *)
LEMMA OthersAreQuiet ==
  ASSUME MediaIInv, NEW q \in Requests, NEW r, Became(q, r), ~Counting(r),
         Drawing(r) => r.file \notin drawn, uploads' \subseteq uploads, drawn \subseteq drawn'
  PROVE  Quiet
  <1>1. /\ req'[q] = r
        /\ \A p \in Requests \ {q} : req'[p] = req[p]
    BY DEF Became, MediaIInv, TypeOK
  <1> SUFFICES ASSUME NEW x \in Requests
               PROVE  /\ Counting(req[x])' =>
                           /\ StillCounts(x)
                           /\ req'[x].at = "insert" => req[x].at = "insert"
                      /\ Drawing(req[x])' =>
                           \/ Drawing(req[x]) /\ req'[x].file = req[x].file
                           \/ req'[x].file \notin drawn
    BY DEF Quiet
  <1>2. CASE x = q
    BY <1>1, <1>2 DEF Counting, Drawing
  <1>3. CASE x # q
    BY <1>1, <1>3 DEF Counting, Drawing, StillCounts
  <1> QED
    BY <1>2, <1>3

(* The new upload: those who count do not know it, but q, who knew of fewer *)
(* than the limit, counts no more.                                          *)
LEMMA InsertKeepsPending ==
  ASSUME MediaIInv, PendingIInv, NEW q \in Requests, InsertUpload(q)
  PROVE  PendingIInv'
  <1>1. PICK s \in Request : s = req[q] /\ RequestOK(s)
    BY Serving
  <1>2. PICK r : r = Sweeping(q, s.doomed)
    OBVIOUS
  <1>3. /\ s.op = "upload" /\ s.at = "insert" /\ Became(q, r)
        /\ uploads' = (uploads \ s.doomed) \cup {s.file} /\ drawn' = drawn
        /\ r = [s EXCEPT !.at = "sweep", !.locks = {}, !.seen = {}, !.doomed = s.doomed]
    BY <1>1, <1>2 DEF InsertUpload, At, Sweeping
  <1>4. r \in Request /\ ~Counting(r) /\ ~Drawing(r)
    BY <1>3 DEF Request, Counting, Drawing
  <1>5. /\ req'[q] = r
        /\ \A p \in Requests \ {q} : req'[p] = req[p]
    BY <1>3, <1>4, BecameRequest DEF MediaIInv
  <1>6. /\ s.user \in Users /\ Uploader[s.file] = s.user /\ s.file \in Files /\ s.file \notin uploads
        /\ s.doomed \subseteq Pending(s.user)
    BY <1>1, <1>3 DEF RequestOK, UploadOK, MediaIInv, TypeOK
  <1>7. /\ ~Counting(req'[q]) /\ ~Drawing(req'[q]) /\ Drawing(req[q]) /\ Counting(req[q])
    BY <1>1, <1>3, <1>4, <1>5 DEF Counting, Drawing
  <1>8. ASSUME NEW x \in Requests, Counting(req'[x])
        PROVE  /\ x # q /\ req'[x] = req[x] /\ StillCounts(x)
               /\ s.file \notin req[x].seen /\ s.file \notin req[x].doomed
    <2>1. x # q /\ req'[x] = req[x]
      BY <1>5, <1>7, <1>8
    <2>2. s.file \notin req[x].seen
      BY <1>1, <1>7, <1>8, <2>1 DEF PendingIInv, CountOK
    <2>3. req[x].doomed \subseteq uploads
      BY <1>8, <2>1, DrawnIsNew DEF Counting, Drawing, Pending
    <2> QED
      BY <1>6, <1>8, <2>1, <2>2, <2>3 DEF StillCounts
  <1>9. IsFiniteSet(uploads')
    <2>1. IsFiniteSet(uploads \ s.doomed)
      BY FS_Subset DEF PendingIInv, CountOK
    <2> QED
      BY <1>3, <2>1, FS_AddElement
  <1>10. CountOK'
    <2> SUFFICES ASSUME NEW x \in Requests, Counting(req'[x])
                 PROVE  /\ req'[x].seen \subseteq drawn'
                        /\ req'[x].at = "insert" => Cardinality(req'[x].seen \cap uploads') < MaxPending
                        /\ \A p \in Requests : Drawing(req'[p]) => req'[p].file \notin req'[x].seen
      BY <1>9 DEF CountOK, Counting, Drawing
    <2>1. Counting(req[x]) /\ req'[x] = req[x] /\ s.file \notin req[x].seen
      BY <1>8 DEF StillCounts
    <2>2. \A p \in Requests : Drawing(req'[p]) => req'[p].file \notin req[x].seen
      BY <1>5, <1>7, <2>1 DEF PendingIInv, CountOK
    <2>3. ASSUME req[x].at = "insert" PROVE Cardinality(req[x].seen \cap uploads') < MaxPending
      <3>1. PICK X, Y : X = req[x].seen \cap uploads /\ Y = req[x].seen \cap uploads'
        OBVIOUS
      <3>2. Y \subseteq X /\ IsFiniteSet(X)
        BY <1>3, <2>1, <3>1, FS_Subset DEF PendingIInv, CountOK
      <3>3. /\ Cardinality(Y) <= Cardinality(X)
            /\ Cardinality(X) \in Nat /\ Cardinality(Y) \in Nat /\ MaxPending \in Nat
        BY <3>2, FS_Subset, FS_CardinalityType, MaxPendingAssumption
      <3>4. Cardinality(X) < MaxPending
        BY <2>1, <2>3, <3>1 DEF PendingIInv, CountOK
      <3> QED
        BY <3>1, <3>3, <3>4
    <2> QED
      BY <1>3, <2>1, <2>2, <2>3 DEF PendingIInv, CountOK
  <1>11. ASSUME NEW u \in Users, NEW m \in MaxPending..Cardinality(Pending(u)')
         PROVE  Cardinality(Behind(u, m)') + Cardinality(Pending(u)') - m < Cardinality(Requests)
    <2>1. PICK P, Q, B : P = Pending(u) /\ Q = P \ s.doomed /\ B = Behind(u, m)'
      OBVIOUS
    <2>2. /\ Q \in SUBSET P /\ IsFiniteSet(P) /\ IsFiniteSet(Q) /\ IsFiniteSet(B) /\ IsFiniteSet(Requests)
          /\ Cardinality(Requests) \in Nat /\ Cardinality(B) \in Nat
      BY <2>1, Finiteness, RequestsAssumption, FS_Subset, FS_CardinalityType DEF PendingIInv, Behind
    <2>3. Cardinality(P) \in Nat /\ Cardinality(Q) \in Nat /\ Cardinality(Q) <= Cardinality(P)
      BY <2>2, LosingRows
    <2>4. \A x \in B : /\ x \in Requests /\ Counting(req'[x]) /\ req'[x].user = u
                       /\ x # q /\ StillCounts(x)
                       /\ s.file \notin req[x].seen /\ s.file \notin req[x].doomed
      <3>1. \A x \in B : x \in Requests /\ Counting(req'[x]) /\ req'[x].user = u
        BY <2>1 DEF Behind, Counting
      <3> QED
        BY <1>8, <3>1
    <2>5. CASE u # s.user
      <3>1. Pending(u)' = P /\ Q = P
        BY <1>3, <1>6, <2>1, <2>5 DEF Pending
      <3>2. B \subseteq Behind(u, m)
        BY <1>8, <2>1, <2>4, <3>1 DEF Behind, Known, StillCounts, Counting
      <3>3. Cardinality(B) <= Cardinality(Behind(u, m)) /\ Cardinality(Behind(u, m)) \in Nat
        BY <2>2, <3>2, Finiteness, FS_Subset DEF PendingIInv
      <3>4. m \in Nat /\ Cardinality(Behind(u, m)) + Cardinality(P) - m < Cardinality(Requests)
        BY <2>1, <2>3, <3>1, MaxPendingAssumption DEF PendingIInv, FewBehind
      <3> QED
        BY <2>1, <2>2, <2>3, <3>1, <3>3, <3>4
    <2>6. CASE u = s.user
      <3>1. Pending(u)' = Q \cup {s.file} /\ s.file \notin P
        BY <1>3, <1>6, <2>1, <2>6 DEF Pending
      <3>2. Cardinality(Pending(u)') = Cardinality(Q) + 1
        BY <2>1, <2>2, <3>1, FS_AddElement
      <3>3. m \in Nat /\ m >= MaxPending /\ m <= Cardinality(Q) + 1 /\ MaxPending \in Nat
        BY <2>3, <3>2, MaxPendingAssumption
      <3>4. PICK k : k = m + Cardinality(P) - Cardinality(Q)
        OBVIOUS
      <3>5. B \subseteq Behind(u, k)
        <4> SUFFICES ASSUME NEW x \in B PROVE x \in Behind(u, k)
          OBVIOUS
        <4>1. x \in Requests /\ StillCounts(x) /\ s.file \notin req[x].seen \cup req[x].doomed
          BY <2>4
        <4>2. (req[x].seen \cup req[x].doomed) \cap Pending(u)' = (req[x].seen \cup req[x].doomed) \cap Q
          BY <3>1, <4>1
        <4> QED
          BY <2>1, <2>2, <3>3, <3>4, <4>1, <4>2, StaysBehind DEF PendingIInv
      <3>6. q \in Behind(u, k)
        <4>1. PICK K, N, D : K = Known(s) /\ N = s.seen \cap uploads /\ D = s.doomed
          OBVIOUS
        <4>2. K \subseteq N \cup D /\ IsFiniteSet(N) /\ IsFiniteSet(D) /\ D \subseteq P
          BY <1>6, <2>1, <2>2, <2>6, <4>1, FS_Subset DEF Known, Pending, PendingIInv, CountOK
        <4>3. Cardinality(N) < MaxPending
          BY <1>1, <1>3, <1>7, <4>1 DEF PendingIInv, CountOK
        <4>4. Cardinality(D) = Cardinality(P) - Cardinality(Q)
          <5>1. P \ D = Q /\ P \cap D = D
            BY <2>1, <4>1, <4>2
          <5>2. Cardinality(P \ D) = Cardinality(P) - Cardinality(P \cap D)
            BY <2>2, FS_Difference
          <5>3. Cardinality(D) \in Nat
            BY <4>2, FS_CardinalityType
          <5>4. Cardinality(P \ D) = Cardinality(Q) /\ Cardinality(P \cap D) = Cardinality(D)
            BY <5>1
          <5> QED
            BY <2>3, <5>2, <5>3, <5>4
        <4>5. Cardinality(K) <= Cardinality(N) + Cardinality(D) /\ Cardinality(K) \in Nat /\ Cardinality(N) \in Nat
          <5>1. /\ IsFiniteSet(N \cup D)
                /\ Cardinality(N \cup D) = Cardinality(N) + Cardinality(D) - Cardinality(N \cap D)
            BY <4>2, FS_Union
          <5>2. IsFiniteSet(N \cap D) /\ IsFiniteSet(K) /\ Cardinality(K) <= Cardinality(N \cup D)
            BY <4>2, <5>1, FS_Subset
          <5>3. /\ Cardinality(K) \in Nat /\ Cardinality(N) \in Nat /\ Cardinality(D) \in Nat
                /\ Cardinality(N \cap D) \in Nat /\ Cardinality(N \cup D) \in Nat
            BY <4>2, <5>1, <5>2, FS_CardinalityType
          <5> QED
            BY <5>1, <5>2, <5>3
        <4>6. Cardinality(K) < k
          BY <2>3, <3>3, <3>4, <4>3, <4>4, <4>5
        <4> QED
          BY <1>1, <1>7, <2>6, <4>1, <4>6 DEF Behind
      <3>7. Cardinality(B) < Cardinality(Behind(u, k)) /\ Cardinality(Behind(u, k)) \in Nat
        <4>1. IsFiniteSet(Behind(u, k)) /\ Cardinality(Behind(u, k)) \in Nat
          BY Finiteness DEF PendingIInv
        <4>2. PICK A : A = Behind(u, k) \ {q}
          OBVIOUS
        <4>3. IsFiniteSet(A) /\ Cardinality(A) = Cardinality(Behind(u, k)) - 1
          BY <3>6, <4>1, <4>2, FS_RemoveElement
        <4>4. B \subseteq A
          BY <2>4, <3>5, <4>2
        <4>5. Cardinality(B) <= Cardinality(A)
          BY <4>3, <4>4, FS_Subset
        <4> QED
          BY <2>2, <4>1, <4>3, <4>5
      <3>8. CASE k <= Cardinality(P)
        <4>1. k \in MaxPending..Cardinality(P)
          BY <2>3, <3>3, <3>4, <3>8
        <4>2. Cardinality(Behind(u, k)) + Cardinality(P) - k < Cardinality(Requests)
          BY <2>1, <4>1 DEF PendingIInv, FewBehind
        <4>3. Cardinality(B) + (Cardinality(Q) + 1) - m < Cardinality(Requests)
          BY <2>2, <2>3, <3>3, <3>4, <3>7, <4>2
        <4> QED
          BY <2>1, <3>2, <4>3
      <3>9. CASE k > Cardinality(P)
        <4>1. m = Cardinality(Q) + 1
          BY <2>3, <3>3, <3>4, <3>9
        <4>2. Behind(u, k) \subseteq Requests
          BY DEF Behind
        <4>3. Cardinality(Behind(u, k)) <= Cardinality(Requests)
          BY <2>2, <4>2, FS_Subset
        <4>4. Cardinality(B) + (Cardinality(Q) + 1) - m < Cardinality(Requests)
          BY <2>2, <2>3, <3>7, <4>1, <4>3
        <4> QED
          BY <2>1, <3>2, <4>4
      <3> QED
        BY <2>3, <3>3, <3>4, <3>8, <3>9
    <2> QED
      BY <2>5, <2>6
  <1> QED
    BY <1>10, <1>11 DEF PendingIInv, FewBehind
(* The requests that count: they have just looked, or have them locked now. *)
LEMMA SnapshotIsQuiet ==
  ASSUME MediaIInv, NEW q \in Requests, SnapshotUploads(q)
  PROVE  Quiet
  <1>1. PICK s \in Request : s = req[q] /\ RequestOK(s)
    BY Serving
  <1>2. PICK r : r = [s EXCEPT !.at = "count", !.seen = Pending(s.user) \ s.doomed]
    OBVIOUS
  <1>3. s.op = "upload" /\ s.at = "snapshot" /\ Became(q, r) /\ uploads' = uploads /\ drawn' = drawn
    BY <1>1, <1>2 DEF SnapshotUploads, At, Goto, tables
  <1>4. r.user = s.user /\ r.file = s.file /\ r.op = "upload" /\ r.at = "count" /\ r.doomed = s.doomed
        /\ r.seen = Pending(s.user) \ s.doomed /\ r.seen \subseteq uploads /\ r \in Request
    BY <1>2, <1>3 DEF Request, Pending, MediaIInv, TypeOK
  <1>5. /\ req'[q] = r
        /\ \A p \in Requests \ {q} : req'[p] = req[p]
    BY <1>3, <1>4, BecameRequest DEF MediaIInv
  <1>6. Informed(q)'
    BY <1>3, <1>4, <1>5 DEF Informed, Pending
  <1> SUFFICES ASSUME NEW x \in Requests
               PROVE  /\ Counting(req[x])' =>
                           \/ /\ StillCounts(x)
                              /\ req'[x].at = "insert" => req[x].at = "insert"
                           \/ Informed(x)' /\ req'[x].at = "count" /\ req'[x].seen \subseteq uploads
                      /\ Drawing(req[x])' => Drawing(req[x]) /\ req'[x].file = req[x].file
    BY <1>3 DEF Quiet
  <1>7. CASE x = q
    BY <1>1, <1>3, <1>4, <1>5, <1>6, <1>7 DEF Drawing
  <1>8. CASE x # q
    BY <1>5, <1>8 DEF Counting, Drawing, StillCounts
  <1> QED
    BY <1>7, <1>8

(* A request that has counted knows all the rows that were pending.        *)
LEMMA CountIsQuiet ==
  ASSUME MediaIInv, PendingIInv, NEW q \in Requests, CountUploads(q)
  PROVE  Quiet
  <1>1. PICK s \in Request : s = req[q] /\ RequestOK(s)
    BY Serving
  <1>2. PICK n : n = Cardinality(s.seen \cap uploads)
    OBVIOUS
  <1>3. PICK label, held : /\ label = (IF n >= MaxPending THEN "full" ELSE "insert")
                           /\ held = s.locks \cup {UploadRow(g) : g \in s.seen \cap uploads}
    OBVIOUS
  <1>4. PICK r : r = [s EXCEPT !.at = label, !.locks = held]
    OBVIOUS
  <1>5. s.op = "upload" /\ s.at = "count" /\ Became(q, r) /\ uploads' = uploads /\ drawn' = drawn
    BY <1>1, <1>2, <1>3, <1>4 DEF CountUploads, At, Goto, tables
  <1>6. {UploadRow(g) : g \in s.seen \cap uploads} \subseteq Rows
    BY RowsDiffer DEF MediaIInv, TypeOK
  <1>7. held \subseteq Rows /\ label \in {"full", "insert"}
    BY <1>3, <1>6 DEF Request
  <1>8. /\ r \in Request
        /\ r.at = label /\ r.op = s.op /\ r.user = s.user /\ r.seen = s.seen /\ r.doomed = s.doomed
        /\ r.file = s.file
    BY <1>4, <1>7 DEF Request
  <1>9. /\ req'[q] = r
        /\ \A p \in Requests \ {q} : req'[p] = req[p]
    BY <1>5, <1>8, BecameRequest DEF MediaIInv
  <1>10. n \in Nat
    BY <1>2, FS_Subset, FS_CardinalityType DEF PendingIInv, CountOK
  <1>11. label = "insert" => n < MaxPending
    BY <1>3, <1>10, MaxPendingAssumption
  <1> SUFFICES ASSUME NEW x \in Requests
               PROVE  /\ Counting(req[x])' =>
                           /\ StillCounts(x)
                           /\ req'[x].at = "insert" =>
                                req[x].at = "insert" \/ Cardinality(req[x].seen \cap uploads) < MaxPending
                      /\ Drawing(req[x])' => Drawing(req[x]) /\ req'[x].file = req[x].file
    BY <1>5 DEF Quiet
  <1>12. CASE x = q
    BY <1>1, <1>2, <1>5, <1>8, <1>9, <1>11, <1>12 DEF Drawing, Counting, StillCounts
  <1>13. CASE x # q
    BY <1>9, <1>13 DEF Counting, Drawing, StillCounts
  <1> QED
    BY <1>12, <1>13

(* A request that is finished, or rolled back, or deletes blobs. *)
LEMMA EndIsQuiet ==
  ASSUME MediaIInv, NEW q \in Requests, Finish(q) \/ RollBack(q),
         uploads' \subseteq uploads, drawn' = drawn
  PROVE  Quiet
  <1>1. PICK s \in Request : s = req[q] /\ RequestOK(s)
    BY Serving
  <1>2. PICK t : t = [s EXCEPT !.at = "sweep", !.locks = {}, !.seen = {}, !.doomed = s.doomed, !.file = NoFile]
    OBVIOUS
  <1>3. t \in Request /\ t.at = "sweep"
    BY <1>2 DEF Request
  <1>4. ASSUME Became(q, Idle) PROVE Quiet
    BY <1>4, IdleIsRequest, OthersAreQuiet DEF Idle, Counting, Drawing
  <1>5. ASSUME Became(q, t) PROVE Quiet
    BY <1>3, <1>5, OthersAreQuiet DEF Counting, Drawing
  <1>6. Became(q, Idle) \/ Became(q, t)
    BY <1>1, <1>2 DEF Finish, RollBack, Sweeping
  <1> QED
    BY <1>4, <1>5, <1>6
(* All the others do not count, nor do they draw a name. *)
LEMMA BusinessIsQuiet ==
  ASSUME MediaIInv, NEW q \in Requests, NEW r, Became(q, r), r.op # "upload" \/ r.at = "sweep",
         uploads' \subseteq uploads, drawn' = drawn
  PROVE  Quiet
  BY OthersAreQuiet DEF Counting, Drawing

(* What a client sends begins a request that has counted nothing.          *)
LEMMA AcceptIsQuiet ==
  ASSUME MediaIInv, NEW q \in Requests, Accept(q)
  PROVE  Quiet
  <1>1. ASSUME NEW f \in Files, DeleteExpired(q, f) PROVE Quiet
    <2>1. PICK gone : gone = Pending(Uploader[f]) \cap aged
      OBVIOUS
    <2>2. PICK held : held = {UploadRow(g) : g \in gone}
      OBVIOUS
    <2>3. PICK r : r = [Idle EXCEPT !.op = "upload", !.user = Uploader[f], !.file = f, !.at = "snapshot",
                                    !.locks = held, !.doomed = gone]
      OBVIOUS
    <2>4. r.at = "snapshot" /\ r.file = f
      BY <2>3 DEF Idle
    <2>5. Became(q, r) /\ f \notin drawn /\ drawn' = drawn \cup {f} /\ uploads' = uploads
      BY <1>1, <2>1, <2>2, <2>3 DEF DeleteExpired, tables
    <2> QED
      BY <2>4, <2>5, OthersAreQuiet DEF Counting
  <1>2. ASSUME NEW f \in Files, ConsumeUpload(q, f) PROVE Quiet
    <2>1. PICK r : r = [Idle EXCEPT !.op = "post", !.user = Uploader[f], !.file = f, !.at = "insert",
                                    !.locks = {UploadRow(f)}]
      OBVIOUS
    <2>2. r.op = "post" /\ Became(q, r) /\ uploads' = uploads /\ drawn' = drawn
      BY <1>2, <2>1 DEF ConsumeUpload, tables, Idle
    <2> QED
      BY <2>2, BusinessIsQuiet
  <1>3. ASSUME NEW f \in Files, LockPost(q, f) PROVE Quiet
    <2>1. PICK r : r = [Idle EXCEPT !.op = "delete", !.user = Uploader[f], !.file = f, !.at = "clear",
                                    !.locks = {PostRow(f)}]
      OBVIOUS
    <2>2. r.op = "delete" /\ Became(q, r) /\ uploads' = uploads /\ drawn' = drawn
      BY <1>3, <2>1 DEF LockPost, tables, Idle
    <2> QED
      BY <2>2, BusinessIsQuiet
  <1>4. ASSUME NEW u \in Users, NEW f, LockProfile(q, u, f) PROVE Quiet
    <2>1. PICK r : r = [Idle EXCEPT !.op = "avatar", !.user = u, !.file = f, !.old = avatar[u],
                                    !.locks = {UserRow(u)}, !.at = IF f = NoFile THEN "update" ELSE "check"]
      OBVIOUS
    <2>2. r.op = "avatar" /\ Became(q, r) /\ uploads' = uploads /\ drawn' = drawn
      BY <1>4, <2>1 DEF LockProfile, tables, Idle
    <2> QED
      BY <2>2, BusinessIsQuiet
  <1> QED
    BY <1>1, <1>2, <1>3, <1>4 DEF Accept

(* What a request does, the INSERT of an upload apart. *)
LEMMA ServeIsQuiet ==
  ASSUME MediaIInv, PendingIInv, NEW q \in Requests, Serve(q) \/ Answer(q)
  PROVE  Quiet \/ InsertUpload(q)
  <1>1. PICK s \in Request : s = req[q]
    BY Serving
  <1>2. ASSUME RejectUpload(q) PROVE Quiet
    <2>1. PICK r : r = [s EXCEPT !.at = "sweep", !.locks = {}, !.seen = {}, !.doomed = s.doomed, !.file = NoFile]
      OBVIOUS
    <2>2. r.at = "sweep" /\ Became(q, r) /\ uploads' \subseteq uploads /\ drawn' = drawn
      BY <1>1, <1>2, <2>1 DEF RejectUpload, Sweeping, Request
    <2> QED
      BY <2>2, BusinessIsQuiet
  <1>3. ASSUME DeleteBlob(q) PROVE Quiet
    <2>1. PICK f : Became(q, [req[q] EXCEPT !.doomed = @ \ {f}]) /\ s.at = "sweep"
      BY <1>1, <1>3 DEF DeleteBlob
    <2>2. PICK r : r = [s EXCEPT !.doomed = @ \ {f}]
      OBVIOUS
    <2>3. r.at = "sweep" /\ Became(q, r) /\ uploads' = uploads /\ drawn' = drawn
      BY <1>1, <1>3, <2>1, <2>2 DEF DeleteBlob, tables, Request
    <2> QED
      BY <2>3, BusinessIsQuiet
  <1>4. ASSUME PutBlob(q) \/ Answer(q) \/ InsertPost(q) PROVE Quiet
    <2>1. Finish(q) /\ uploads' \subseteq uploads /\ drawn' = drawn
      BY <1>4 DEF PutBlob, Answer, InsertPost, tables
    <2> QED
      BY <2>1, EndIsQuiet
  <1>5. ASSUME CheckAvatar(q) PROVE Quiet
    <2>1. PICK label : label = IF s.file = s.old \/ s.file \in posts THEN "update" ELSE "consume"
      OBVIOUS
    <2>2. PICK r : r = [s EXCEPT !.at = label]
      OBVIOUS
    <2>3. r.op = "avatar" /\ Became(q, r) /\ uploads' = uploads /\ drawn' = drawn
      BY <1>1, <1>5, <2>1, <2>2 DEF CheckAvatar, At, Goto, tables, Request
    <2> QED
      BY <2>3, BusinessIsQuiet
  <1>6. ASSUME ConsumeForAvatar(q) PROVE Quiet
    <2>1. CASE Finish(q)
      BY <1>6, <2>1, EndIsQuiet DEF ConsumeForAvatar, tables
    <2>2. CASE ~Finish(q)
      <3>1. PICK held : held = s.locks \cup {UploadRow(s.file)}
        OBVIOUS
      <3>2. PICK r : r = [s EXCEPT !.at = "update", !.locks = held]
        OBVIOUS
      <3>3. r.op = "avatar" /\ Became(q, r) /\ uploads' = uploads /\ drawn' = drawn
        BY <1>1, <1>6, <2>2, <3>1, <3>2 DEF ConsumeForAvatar, At, Goto, tables, Request
      <3> QED
        BY <3>3, BusinessIsQuiet
    <2> QED
      BY <2>1, <2>2
  <1>7. ASSUME JudgeOldAvatar(q) PROVE Quiet
    <2>1. PICK dead : Became(q, [Goto(q, "commit") EXCEPT !.doomed = dead])
      BY <1>7 DEF JudgeOldAvatar
    <2>2. PICK r : r = [s EXCEPT !.at = "commit", !.doomed = dead]
      OBVIOUS
    <2>3. r.op = "avatar" /\ Became(q, r) /\ uploads' = uploads /\ drawn' = drawn
      BY <1>1, <1>7, <2>1, <2>2 DEF JudgeOldAvatar, At, Goto, tables, Request
    <2> QED
      BY <2>3, BusinessIsQuiet
  <1>8. ASSUME ClearAvatar(q) PROVE Quiet
    <2>1. PICK more : more = {UserRow(u) : u \in {u \in Users : avatar[u] = s.file}}
      OBVIOUS
    <2>2. PICK r : r = [s EXCEPT !.at = "commit", !.locks = @ \cup more]
      OBVIOUS
    <2>3. r.op = "delete" /\ Became(q, r) /\ uploads' = uploads /\ drawn' = drawn
      BY <1>1, <1>8, <2>1, <2>2 DEF ClearAvatar, At, Goto, tables, Request
    <2> QED
      BY <2>3, BusinessIsQuiet
  <1>9. ASSUME CommitAvatar(q) \/ CommitDelete(q) PROVE Quiet
    <2>1. PICK dead : Became(q, Sweeping(q, dead))
      BY <1>9 DEF CommitAvatar, CommitDelete
    <2>2. PICK r : r = [s EXCEPT !.at = "sweep", !.locks = {}, !.seen = {}, !.doomed = dead]
      OBVIOUS
    <2>3. r.at = "sweep" /\ Became(q, r)
      BY <1>1, <2>1, <2>2 DEF Sweeping, Request
    <2>4. uploads' \subseteq uploads /\ drawn' = drawn
      BY <1>9 DEF CommitAvatar, CommitDelete
    <2> QED
      BY <2>3, <2>4, BusinessIsQuiet
  <1> QED
    BY <1>2, <1>3, <1>4, <1>5, <1>6, <1>7, <1>8, <1>9, SnapshotIsQuiet, CountIsQuiet DEF Serve

(* No step takes a user further over the limit. *)
LEMMA PendingInductive == MediaIInv /\ PendingIInv /\ [Next]_vars => PendingIInv'
  <1> SUFFICES ASSUME MediaIInv, PendingIInv, [Next]_vars PROVE PendingIInv'
    OBVIOUS
  <1>1. ASSUME NEW q \in Requests, Accept(q) PROVE PendingIInv'
    BY <1>1, AcceptIsQuiet, QuietKeepsPending
  <1>2. ASSUME NEW q \in Requests, Serve(q) PROVE PendingIInv'
    BY <1>2, ServeIsQuiet, InsertKeepsPending, QuietKeepsPending
  <1>3. ASSUME NEW q \in Requests, RollBack(q) \/ Die(q) PROVE PendingIInv'
    <2>1. (Finish(q) \/ RollBack(q)) /\ uploads' \subseteq uploads /\ drawn' = drawn
      BY <1>3 DEF Die, RollBack, tables
    <2> QED
      BY <2>1, EndIsQuiet, QuietKeepsPending
  <1>4. ASSUME uploads' = uploads, drawn' = drawn, req' = req PROVE PendingIInv'
    <2>1. Quiet
      BY <1>4 DEF Quiet, StillCounts, Counting, Drawing
    <2> QED
      BY <2>1, QuietKeepsPending
  <1>5. ASSUME NEW f \in Files, Expire(f) PROVE PendingIInv'
    BY <1>4, <1>5 DEF Expire
  <1>6. CASE UNCHANGED vars
    BY <1>4, <1>6 DEF vars
  <1> QED
    BY <1>1, <1>2, <1>3, <1>5, <1>6 DEF Next, Fail, BreakDeadlock

(* At first nothing is pending.                                            *)
LEMMA PendingInitial == Init => PendingIInv
  <1> SUFFICES ASSUME Init PROVE PendingIInv
    OBVIOUS
  <1>1. IsFiniteSet(uploads) /\ Cardinality({}) = 0
    BY FS_EmptySet DEF Init
  <1>2. ASSUME NEW q \in Requests PROVE ~Counting(req[q])
    BY DEF Init, Idle, Counting
  <1>3. ASSUME NEW u \in Users PROVE MaxPending..Cardinality(Pending(u)) = {}
    <2>1. Pending(u) = {}
      BY DEF Init, Pending
    <2>2. Cardinality(Pending(u)) = 0
      BY <1>1, <2>1
    <2> QED
      BY <2>2, MaxPendingAssumption
  <1> QED
    BY <1>1, <1>2, <1>3 DEF PendingIInv, CountOK, FewBehind

(* A user has no more pending uploads than the limit and one for each other *)
(* request: whoever counted knew of all but those of the requests that had  *)
(* counted with it and inserted since.                                      *)
THEOREM PendingStaysNearLimit == Spec => []PendingNearLimit
  <1>1. PendingIInv => PendingNearLimit
    <2> SUFFICES ASSUME PendingIInv, NEW u \in Users
                 PROVE  Cardinality(Pending(u)) <= MaxPending + Cardinality(Requests) - 1
      BY DEF PendingNearLimit
    <2>1. /\ Cardinality(Pending(u)) \in Nat /\ Cardinality(Requests) \in Nat
          /\ Cardinality(Behind(u, MaxPending)) \in Nat /\ MaxPending \in Nat
      BY Finiteness, MaxPendingAssumption DEF PendingIInv
    <2>2. CASE Cardinality(Pending(u)) < MaxPending
      BY <2>1, <2>2
    <2>3. CASE Cardinality(Pending(u)) >= MaxPending
      <3>1. MaxPending \in MaxPending..Cardinality(Pending(u))
        BY <2>1, <2>3
      <3>2. Cardinality(Behind(u, MaxPending)) + Cardinality(Pending(u)) - MaxPending < Cardinality(Requests)
        BY <3>1 DEF PendingIInv, FewBehind
      <3> QED
        BY <2>1, <3>2
    <2> QED
      BY <2>1, <2>2, <2>3
  <1>2. Spec => [](MediaIInv /\ PendingIInv)
    BY MediaInitial, MediaInductive, PendingInitial, PendingInductive, PTL DEF Spec
  <1> QED
    BY <1>1, <1>2, PTL
============================================================================
