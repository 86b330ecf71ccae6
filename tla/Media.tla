-------------------------------- MODULE Media --------------------------------
(***************************************************************************)
(* The life of an image: uploaded, kept pending, turned into a post or an  *)
(* avatar, deleted (internal/uploads, internal/posts, UpdateProfile of     *)
(* internal/users).                                                        *)
(*                                                                         *)
(* Three tables refer to a blob by its file name, and the blob store is    *)
(* not part of any transaction: requests delete blobs after they commit.   *)
(* A request is modelled statement by statement, as PostgreSQL runs it at  *)
(* READ COMMITTED: a statement reads what is committed, a row that another *)
(* transaction has locked makes it wait, and what a transaction writes     *)
(* becomes visible when it commits.                                        *)
(*                                                                         *)
(* A file name is random: only its uploader can use it, once the upload    *)
(* was answered.                                                           *)
(***************************************************************************)
EXTENDS Naturals, FiniteSets

CONSTANTS
  Users,
  Files,                \* the names that uploads will draw
  NoFile,               \* a blank avatar
  Uploader,             \* Uploader[f]: the user whose upload draws f
  Requests,             \* requests that can be served at the same time
  MaxPending            \* maxPendingUploads (20 in the code)

ASSUME FilesAssumption == NoFile \notin Files
ASSUME UploaderAssumption == Uploader \in [Files -> Users]
ASSUME MaxPendingAssumption == MaxPending \in Nat \ {0}
ASSUME RequestsAssumption == IsFiniteSet(Requests)

VARIABLES
  uploads,              \* rows of the uploads table
  aged,                 \* uploads that are more than an hour old
  posts,                \* files of the posts that exist
  deleted,              \* files of the posts that were deleted
  avatar,               \* avatar[u]
  blobs,                \* what the blob store holds
  drawn,                \* names that have been drawn
  answered,             \* names the client has been told
  req,                  \* req[q]: the request q is serving, and how far it is
  undone,               \* expired uploads whose deletion was rolled back
  abandoned             \* blobs whose deletion failed, or was never tried

mishaps == <<undone, abandoned>>
vars == <<uploads, aged, posts, deleted, avatar, blobs, drawn, answered, req, mishaps>>
tables == <<uploads, aged, posts, deleted, avatar>>

Pending(u) == {f \in uploads : Uploader[f] = u}

(* Row locks.  doomed: the blobs to delete once the transaction is over.    *)
UploadRow(f) == <<"upload", f>>
PostRow(f) == <<"post", f>>
UserRow(u) == <<"user", u>>
Rows == ({"upload", "post"} \X Files) \cup ({"user"} \X Users)

Idle == [op |-> "none", user |-> NoFile, file |-> NoFile, at |-> "start", locks |-> {}, seen |-> {},
         doomed |-> {}, old |-> NoFile]

Request ==
  [op : {"none", "upload", "post", "avatar", "delete"}, user : Users \cup {NoFile}, file : Files \cup {NoFile},
   at : {"start", "snapshot", "count", "full", "insert", "check", "consume", "update",
         "clear", "commit", "sweep"},
   locks : SUBSET Rows, seen : SUBSET Files, doomed : SUBSET Files, old : Files \cup {NoFile}]

Free(q, row) == \A p \in Requests \ {q} : row \notin req[p].locks

At(q, op, label) == req[q].op = op /\ req[q].at = label
Goto(q, label) == [req[q] EXCEPT !.at = label]
Became(q, r) == req' = [req EXCEPT ![q] = r]
Finish(q) == Became(q, Idle)

(* After the transaction: no locks, and blobs to delete. *)
Sweeping(q, dead) == [req[q] EXCEPT !.at = "sweep", !.locks = {}, !.seen = {}, !.doomed = dead]

Init ==
  /\ uploads = {} /\ aged = {} /\ posts = {} /\ deleted = {} /\ blobs = {}
  /\ avatar = [u \in Users |-> NoFile]
  /\ drawn = {} /\ answered = {}
  /\ req = [q \in Requests |-> Idle]
  /\ undone = {} /\ abandoned = {}

-----------------------------------------------------------------------------
(* CreateFile.  The transaction first deletes the user's expired rows; what *)
(* it deletes, others cannot touch until it is over.                        *)
DeleteExpired(q, f) ==
  LET expired == Pending(Uploader[f]) \cap aged
  IN /\ req[q] = Idle
     /\ f \notin drawn
     /\ \A g \in expired : Free(q, UploadRow(g))
     /\ Became(q, [Idle EXCEPT !.op = "upload", !.user = Uploader[f], !.file = f, !.at = "snapshot",
                               !.locks = {UploadRow(g) : g \in expired}, !.doomed = expired])
     /\ drawn' = drawn \cup {f}
     /\ UNCHANGED <<tables, blobs, answered, mishaps>>

(* SELECT count( * ) FROM (SELECT ... FOR UPDATE): the rows are those of    *)
(* the moment the statement starts ...                                      *)
SnapshotUploads(q) ==
  /\ At(q, "upload", "snapshot")
  /\ Became(q, [Goto(q, "count") EXCEPT !.seen = Pending(req[q].user) \ req[q].doomed])
  /\ UNCHANGED <<tables, blobs, drawn, answered, mishaps>>

(* Fault: one more is let through. *)
CountUploadsOffByOne(q) ==
  LET rows == req[q].seen \cap uploads
  IN /\ At(q, "upload", "count")
     /\ \A g \in rows : Free(q, UploadRow(g))
     /\ Became(q, [Goto(q, IF Cardinality(rows) > MaxPending THEN "full" ELSE "insert") EXCEPT
                     !.locks = @ \cup {UploadRow(g) : g \in rows}])
     /\ UNCHANGED <<tables, blobs, drawn, answered, mishaps>>

(* ... and it counts those of them that are still there when it has locked  *)
(* them.                                                                    *)
CountUploads(q) ==
  LET rows == req[q].seen \cap uploads
  IN /\ At(q, "upload", "count")
     /\ \A g \in rows : Free(q, UploadRow(g))
     /\ Became(q, [Goto(q, IF Cardinality(rows) >= MaxPending THEN "full" ELSE "insert") EXCEPT
                     !.locks = @ \cup {UploadRow(g) : g \in rows}])
     /\ UNCHANGED <<tables, blobs, drawn, answered, mishaps>>

(* Too many: the deletion of the expired rows commits all the same. *)
RejectUpload(q) ==
  /\ At(q, "upload", "full")
  /\ uploads' = uploads \ req[q].doomed
  /\ Became(q, [Sweeping(q, req[q].doomed) EXCEPT !.file = NoFile])
  /\ UNCHANGED <<aged, posts, deleted, avatar, blobs, drawn, answered, mishaps>>

(* INSERT and COMMIT.  The foreign key makes the INSERT wait for a SELECT   *)
(* ... FOR UPDATE of the user's row.                                        *)
InsertUpload(q) ==
  /\ At(q, "upload", "insert")
  /\ \A p \in Requests : req[p].op = "avatar" => UserRow(req[q].user) \notin req[p].locks
  /\ uploads' = (uploads \ req[q].doomed) \cup {req[q].file}
  /\ Became(q, Sweeping(q, req[q].doomed))
  /\ UNCHANGED <<aged, posts, deleted, avatar, blobs, drawn, answered, mishaps>>

(* The blobs of what was deleted go, one by one, a failure being logged;    *)
(* the handler does this before it looks at the outcome of the transaction. *)
DeleteBlob(q) ==
  \E f \in req[q].doomed :
    /\ req[q].at = "sweep"
    /\ \/ blobs' = blobs \ {f} /\ UNCHANGED abandoned
       \/ abandoned' = abandoned \cup {f} /\ UNCHANGED blobs
    /\ Became(q, [req[q] EXCEPT !.doomed = @ \ {f}])
    /\ UNCHANGED <<tables, drawn, answered, undone>>

(* Then the new blob is put and the client learns its name. *)
PutBlob(q) ==
  /\ At(q, "upload", "sweep")
  /\ req[q].doomed = {}
  /\ req[q].file # NoFile
  /\ blobs' = blobs \cup {req[q].file}
  /\ answered' = answered \cup {req[q].file}
  /\ Finish(q)
  /\ UNCHANGED <<tables, drawn, mishaps>>

Answer(q) ==
  /\ req[q].at = "sweep"
  /\ req[q].doomed = {}
  /\ req[q].op = "upload" => req[q].file = NoFile
  /\ Finish(q)
  /\ UNCHANGED <<tables, blobs, drawn, answered, mishaps>>

-----------------------------------------------------------------------------
(* Fault: the upload is looked up, and deleted when the post is in. *)
LookUpUpload(q, f) ==
  /\ req[q] = Idle
  /\ f \in answered \cap uploads
  /\ Became(q, [Idle EXCEPT !.op = "post", !.user = Uploader[f], !.file = f, !.at = "insert"])
  /\ UNCHANGED <<tables, blobs, drawn, answered, mishaps>>

(* CreatePost: consume the upload, expired or not, then insert the post.    *)
(* An upload that is gone ends the request.                                 *)
ConsumeUpload(q, f) ==
  /\ req[q] = Idle
  /\ f \in answered \cap uploads
  /\ Free(q, UploadRow(f))
  /\ Became(q, [Idle EXCEPT !.op = "post", !.user = Uploader[f], !.file = f, !.at = "insert",
                            !.locks = {UploadRow(f)}])
  /\ UNCHANGED <<tables, blobs, drawn, answered, mishaps>>

(* INSERT, UPDATE users SET post_count, COMMIT *)
InsertPost(q) ==
  /\ At(q, "post", "insert")
  /\ Free(q, UserRow(req[q].user))
  /\ uploads' = uploads \ {req[q].file}
  /\ posts' = posts \cup {req[q].file}
  /\ Finish(q)
  /\ UNCHANGED <<aged, deleted, avatar, blobs, drawn, answered, mishaps>>

-----------------------------------------------------------------------------
(* UpdateProfile: lock the user's row and note the old avatar. *)
LockProfile(q, u, f) ==
  /\ req[q] = Idle
  /\ Free(q, UserRow(u))
  /\ Became(q, [Idle EXCEPT !.op = "avatar", !.user = u, !.file = f, !.old = avatar[u],
                            !.locks = {UserRow(u)}, !.at = IF f = NoFile THEN "update" ELSE "check"])
  /\ UNCHANGED <<tables, blobs, drawn, answered, mishaps>>

(* A file that is neither the avatar nor a post's must be a pending upload. *)
CheckAvatar(q) ==
  /\ At(q, "avatar", "check")
  /\ Became(q, Goto(q, IF req[q].file = req[q].old \/ req[q].file \in posts THEN "update" ELSE "consume"))
  /\ UNCHANGED <<tables, blobs, drawn, answered, mishaps>>

ConsumeForAvatar(q) ==
  /\ At(q, "avatar", "consume")
  /\ Free(q, UploadRow(req[q].file))
  /\ IF req[q].file \in uploads
     THEN Became(q, [Goto(q, "update") EXCEPT !.locks = @ \cup {UploadRow(req[q].file)}])
     ELSE Finish(q)
  /\ UNCHANGED <<tables, blobs, drawn, answered, mishaps>>

(* Fault: only other users' avatars keep the old avatar's blob. *)
JudgeOldAvatarByUsers(q) ==
  LET old == req[q].old
      stillUsed == \E v \in Users \ {req[q].user} : avatar[v] = old
  IN /\ At(q, "avatar", "update")
     /\ Became(q, [Goto(q, "commit") EXCEPT
                     !.doomed = IF old \in {NoFile, req[q].file} \/ stillUsed THEN {} ELSE {old}])
     /\ UNCHANGED <<tables, blobs, drawn, answered, mishaps>>

(* The old avatar's blob is to go unless a post or a user still has it. *)
JudgeOldAvatar(q) ==
  LET old == req[q].old
      stillUsed == old \in posts \/ \E v \in Users \ {req[q].user} : avatar[v] = old
  IN /\ At(q, "avatar", "update")
     /\ Became(q, [Goto(q, "commit") EXCEPT
                     !.doomed = IF old \in {NoFile, req[q].file} \/ stillUsed THEN {} ELSE {old}])
     /\ UNCHANGED <<tables, blobs, drawn, answered, mishaps>>

(* Fault: nobody remembers the old avatar. *)
CommitAvatarOnly(q) ==
  /\ At(q, "avatar", "commit")
  /\ avatar' = [avatar EXCEPT ![req[q].user] = req[q].file]
  /\ uploads' = {f \in uploads : UploadRow(f) \notin req[q].locks}
  /\ Became(q, Sweeping(q, {}))
  /\ UNCHANGED <<aged, posts, deleted, blobs, drawn, answered, mishaps>>

CommitAvatar(q) ==
  /\ At(q, "avatar", "commit")
  /\ avatar' = [avatar EXCEPT ![req[q].user] = req[q].file]
  /\ uploads' = {f \in uploads : UploadRow(f) \notin req[q].locks}
  /\ Became(q, Sweeping(q, req[q].doomed))
  /\ UNCHANGED <<aged, posts, deleted, blobs, drawn, answered, mishaps>>

-----------------------------------------------------------------------------
(* DeletePost: lock the post ... *)
LockPost(q, f) ==
  /\ req[q] = Idle
  /\ f \in posts
  /\ Free(q, PostRow(f))
  /\ Became(q, [Idle EXCEPT !.op = "delete", !.user = Uploader[f], !.file = f, !.at = "clear",
                            !.locks = {PostRow(f)}])
  /\ UNCHANGED <<tables, blobs, drawn, answered, mishaps>>

(* ... UPDATE users SET avatar = '' WHERE avatar = f: a row that does not   *)
(* match when the statement starts is passed over, locked or not; one that  *)
(* matches is waited for and looked at again ...                            *)
ClearAvatar(q) ==
  LET match == {u \in Users : avatar[u] = req[q].file}
  IN /\ At(q, "delete", "clear")
     /\ \A u \in match : Free(q, UserRow(u))
     /\ Became(q, [Goto(q, "commit") EXCEPT !.locks = @ \cup {UserRow(u) : u \in match}])
     /\ UNCHANGED <<tables, blobs, drawn, answered, mishaps>>

(* ... UPDATE users SET post_count of the owner, and COMMIT. *)
CommitDelete(q) ==
  /\ At(q, "delete", "commit")
  /\ Free(q, UserRow(req[q].user))
  /\ posts' = posts \ {req[q].file}
  /\ deleted' = deleted \cup {req[q].file}
  /\ avatar' = [u \in Users |-> IF UserRow(u) \in req[q].locks THEN NoFile ELSE avatar[u]]
  /\ Became(q, Sweeping(q, {req[q].file}))
  /\ UNCHANGED <<uploads, aged, blobs, drawn, answered, mishaps>>

-----------------------------------------------------------------------------
(* An hour passes over an upload (and the request that made it is over). *)
Expire(f) ==
  /\ f \in uploads \ aged
  /\ \A q \in Requests : ~(req[q].op = "upload" /\ req[q].file = f)
  /\ aged' = aged \cup {f}
  /\ UNCHANGED <<uploads, posts, deleted, avatar, blobs, drawn, answered, req, mishaps>>

InTransaction(q) == req[q] # Idle /\ req[q].at # "sweep"

(* The transaction is undone.  CreateFile still deletes the blobs of the    *)
(* rows it had deleted, though the rows are back.                           *)
RollBack(q) ==
  /\ Became(q, IF req[q].op = "upload" THEN [Sweeping(q, req[q].doomed) EXCEPT !.file = NoFile] ELSE Idle)
  /\ undone' = IF req[q].op = "upload" THEN undone \cup req[q].doomed ELSE undone
  /\ UNCHANGED <<tables, blobs, drawn, answered, abandoned>>

(* A statement fails, or the client goes away and takes the context along. *)
Fail(q) == InTransaction(q) /\ RollBack(q)

(* The replica dies, or the new blob cannot be put. *)
Die(q) ==
  /\ req[q] # Idle
  /\ Finish(q)
  /\ abandoned' = IF InTransaction(q) THEN abandoned ELSE abandoned \cup req[q].doomed
  /\ UNCHANGED <<tables, blobs, drawn, answered, undone>>

(* A profile update holds the user's row and waits for an upload, whose     *)
(* holder waits for the user's row: PostgreSQL undoes one of the two.       *)
BreakDeadlock(q, p) ==
  /\ At(q, "avatar", "consume")
  /\ UploadRow(req[q].file) \in req[p].locks
  /\ req[p].user = req[q].user
  /\ At(p, "post", "insert") \/ At(p, "upload", "insert")
  /\ RollBack(q) \/ RollBack(p)

-----------------------------------------------------------------------------
Serve(q) ==
  \/ SnapshotUploads(q) \/ CountUploads(q) \/ RejectUpload(q) \/ InsertUpload(q)
  \/ DeleteBlob(q) \/ PutBlob(q) \/ Answer(q)
  \/ InsertPost(q)
  \/ CheckAvatar(q) \/ ConsumeForAvatar(q) \/ JudgeOldAvatar(q) \/ CommitAvatar(q)
  \/ ClearAvatar(q) \/ CommitDelete(q)

Accept(q) ==
  \/ \E f \in Files : DeleteExpired(q, f) \/ ConsumeUpload(q, f) \/ LockPost(q, f)
  \/ \E u \in Users : \E f \in {f \in answered : Uploader[f] = u} \cup {NoFile} : LockProfile(q, u, f)

Next ==
  \/ \E q \in Requests : Accept(q) \/ Serve(q) \/ Fail(q) \/ Die(q)
  \/ \E q, p \in Requests : BreakDeadlock(q, p)
  \/ \E f \in Files : Expire(f)

Spec == Init /\ [][Next]_vars

-----------------------------------------------------------------------------
TypeOK ==
  /\ uploads \subseteq Files /\ aged \subseteq Files /\ posts \subseteq Files /\ deleted \subseteq Files
  /\ blobs \subseteq Files /\ drawn \subseteq Files /\ answered \subseteq drawn
  /\ avatar \in [Users -> Files \cup {NoFile}]
  /\ req \in [Requests -> Request]
  /\ undone \subseteq Files /\ abandoned \subseteq Files

(* An upload is consumed once: by a post, by an avatar or by its expiry,    *)
(* however the requests that want it interleave.                            *)
ConsumedOnce ==
  /\ uploads \cap (posts \cup deleted) = {}
  /\ posts \cap deleted = {}
  /\ \A u \in Users : avatar[u] \notin uploads

(* The image of a post is never deleted under it, but for one case: an      *)
(* upload transaction that had deleted the expired row was undone, by an    *)
(* error or as the victim of a deadlock, and CreateFile deletes the blob    *)
(* all the same, while CreatePost accepts the expired row that is back.     *)
PostsKeepTheirBlobs == posts \ undone \subseteq blobs

(* Nor is that of an avatar, unless it was the image of a post that is gone.*)
AvatarsKeepTheirBlobs == \A u \in Users : avatar[u] \in blobs \cup deleted \cup undone \cup {NoFile}

(* Types, and: no interleaving of CreateFile, CreatePost, UpdateProfile and *)
(* DeletePost deletes a blob that a row of posts or users still names.      *)
BlobsKept == TypeOK /\ PostsKeepTheirBlobs /\ AvatarsKeepTheirBlobs

(* A blob no row refers to is one that some request is about to delete, or  *)
(* whose deletion failed or was never tried, its request having died after  *)
(* the commit.                                                              *)
NoOrphanBlobs ==
  \A f \in blobs \ abandoned :
    \/ f \in uploads \cup posts
    \/ \E u \in Users : avatar[u] = f
    \/ \E q \in Requests : f \in req[q].doomed

(* The count misses what other requests insert while it waits for locks;    *)
(* this cannot take a user further over the limit than there are others.    *)
PendingNearLimit ==
  \A u \in Users : Cardinality(Pending(u)) <= MaxPending + Cardinality(Requests) - 1
==============================================================================
