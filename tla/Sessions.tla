------------------------------ MODULE Sessions ------------------------------
(***************************************************************************)
(* The sessions of one user and the password they are bought with          *)
(* (internal/sessions; ChangePassword of internal/users; RequireSession of  *)
(* internal/httpx; the sweep of cmd/api/jobs.go).                          *)
(*                                                                         *)
(* Logins and password changes are modelled statement by statement, as     *)
(* PostgreSQL runs them at READ COMMITTED: they verify a hash that they    *)
(* read earlier, outside the transaction, and inside it they serialise on  *)
(* the user's row.  Requests that run one statement are one action; a      *)
(* statement waits while a transaction is about to delete its row.  (If    *)
(* that transaction commits, a RefreshSession that waited still answers    *)
(* from its snapshot: the request goes on like one that began earlier.)    *)
(*                                                                         *)
(* Time is relative: every row has an age and a time left, counted in      *)
(* ticks.  The throttle of POST /sessions is module LoginGate; here a      *)
(* login simply may not be tried.                                          *)
(***************************************************************************)
EXTENDS Naturals, Sequences, FiniteSets

CONSTANTS
  Requests,             \* requests that can be served at the same time
  Ids,                  \* the session ids that logins will draw
  NoId,
  Passwords,
  First,                \* the password the user registered with
  MaxSessions,          \* maxSessionsPerUser (100 in the code)
  HalfTTL,              \* half of sessionTTL (7 days in the code)
  AbsoluteTTL           \* sessionAbsoluteTTLHours (30 days in the code)

ASSUME IdsAssumption == NoId \notin Ids /\ IsFiniteSet(Ids)
ASSUME FirstAssumption == First \in Passwords
ASSUME LimitsAssumption == MaxSessions \in Nat \ {0} /\ HalfTTL \in Nat \ {0} /\ AbsoluteTTL \in Nat

VARIABLES
  password,             \* users.password: of which password, and with weak parameters or not
  rows,                 \* ids of the rows of the sessions table
  left,                 \* left[s]: ticks until expires_at
  age,                  \* age[s]: ticks since created
  created,              \* the ids in the order of their created column
  req,                  \* req[q]: the request q is serving, and how far it is
  chosen,               \* history: the password the latest change chose
  revoked,              \* history: sessions that some password change was to delete
  trimmed,              \* history: live sessions that made room for newer ones
  used                  \* history: ticks since a request was accepted with s; HalfTTL if that
                        \* is too long ago, or the session was ended for another reason

history == <<chosen, revoked, trimmed, used>>
table == <<rows, left, age, created>>
vars == <<password, table, req, history>>

TTL == 2 * HalfTTL

Idle == [op |-> "none", at |-> "start", id |-> NoId, guess |-> First, new |-> First,
         hash |-> [of |-> First, weak |-> TRUE], doomed |-> {}]

Hashes == [of : Passwords, weak : BOOLEAN]
Request == [op : {"none", "login", "change"},
            at : {"start", "verify", "upgrade", "lock", "update", "delete", "insert", "commit"},
            id : Ids \cup {NoId}, guess : Passwords, new : Passwords, hash : Hashes,
            doomed : SUBSET Ids]

Elements(seq) == {seq[i] : i \in 1..Len(seq)}
At(q, op, label) == req[q].op = op /\ req[q].at = label
Goto(q, label) == [req[q] EXCEPT !.at = label]
Became(q, r) == req' = [req EXCEPT ![q] = r]
(* Verified: what was read and typed in does not matter any longer. *)
Verified(q, label) == [Goto(q, label) EXCEPT !.guess = First, !.hash = Idle.hash]
Finish(q) == Became(q, Idle)

(* The user's row is locked by CreateSession and ChangePassword until they  *)
(* commit; a session's row by who is about to delete it.                    *)
HoldsUser(p) == req[p].at \in {"delete", "insert", "commit"}
UserFree(q) == \A p \in Requests \ {q} : ~HoldsUser(p)
RowFree(s) == \A p \in Requests : s \notin req[p].doomed

Live(s) == s \in rows /\ left[s] > 0 /\ age[s] <= AbsoluteTTL

(* The rows of S are deleted; what is forgotten is the same for all of them. *)
Deleted(S) ==
  /\ rows' = rows \ S
  /\ left' = [s \in Ids |-> IF s \in S THEN 0 ELSE left[s]]
  /\ age' = [s \in Ids |-> IF s \in S THEN 0 ELSE age[s]]

Ended(S) == used' = [s \in Ids |-> IF s \in S THEN HalfTTL ELSE used[s]]

Init ==
  /\ password = [of |-> First, weak |-> TRUE]
  /\ rows = {} /\ created = << >>
  /\ left = [s \in Ids |-> 0] /\ age = [s \in Ids |-> 0]
  /\ req = [q \in Requests |-> Idle]
  /\ chosen = First /\ revoked = {} /\ trimmed = {}
  /\ used = [s \in Ids |-> HalfTTL]

-----------------------------------------------------------------------------
(* Login: read the hash ... *)
FindCredentials(q, g) ==
  /\ req[q] = Idle
  /\ Became(q, [Idle EXCEPT !.op = "login", !.at = "verify", !.guess = g, !.hash = password])
  /\ UNCHANGED <<password, table, history>>

(* Fault: every login stores its hash again. *)
VerifyLoginUpgradingAll(q) ==
  /\ At(q, "login", "verify")
  /\ \/ req[q].guess # req[q].hash.of /\ Finish(q)
     \/ /\ req[q].guess = req[q].hash.of
        /\ Became(q, Goto(q, "upgrade"))
  /\ UNCHANGED <<password, table, history>>

(* ... verify it (a failure is the throttle's business), and if its         *)
(* parameters are weak hash the password again.                             *)
VerifyLogin(q) ==
  /\ At(q, "login", "verify")
  /\ \/ req[q].guess # req[q].hash.of /\ Finish(q)
     \/ /\ req[q].guess = req[q].hash.of
        /\ Became(q, IF req[q].hash.weak THEN Goto(q, "upgrade") ELSE Verified(q, "lock"))
  /\ UNCHANGED <<password, table, history>>

(* UpdatePasswordHash, whatever the hash is by now; that it fails is logged. *)
UpgradeHash(q) ==
  /\ At(q, "login", "upgrade")
  /\ \/ UserFree(q) /\ password' = [of |-> req[q].guess, weak |-> FALSE]
     \/ UNCHANGED password
  /\ Became(q, Verified(q, "lock"))
  /\ UNCHANGED <<table, history>>

(* Fault: the user's row is read without FOR UPDATE. *)
ReadUser(q) ==
  \E s \in Ids \ (Elements(created) \cup {req[p].id : p \in Requests}) :
    /\ At(q, "login", "lock")
    /\ Became(q, [Goto(q, "insert") EXCEPT !.id = s])
    /\ UNCHANGED <<password, table, history>>

(* CreateSession, under a random id: SELECT id FROM users ... FOR UPDATE;   *)
LockUser(q) ==
  \E s \in Ids \ (Elements(created) \cup {req[p].id : p \in Requests}) :
    /\ At(q, "login", "lock")
    /\ UserFree(q)
    /\ Became(q, [Goto(q, "insert") EXCEPT !.id = s])
    /\ UNCHANGED <<password, table, history>>

CreatedAfter(t, s) == \E i, j \in 1..Len(created) : i > j /\ created[i] = t /\ created[j] = s
LiveRows == {s \in rows : Live(s)}

(* Fault: ORDER BY created. *)
SurplusOfNewest == {s \in LiveRows : Cardinality({t \in LiveRows : CreatedAfter(s, t)}) >= MaxSessions - 1}

(* All but the newest MaxSessions - 1. *)
Surplus == {s \in LiveRows : Cardinality({t \in LiveRows : CreatedAfter(t, s)}) >= MaxSessions - 1}

(* delete what has expired, insert, and delete the surplus but the new one; *)
InsertAndTrim(q) ==
  LET doomed == (rows \ LiveRows) \cup Surplus
  IN /\ At(q, "login", "insert")
     /\ \A s \in doomed : RowFree(s)
     /\ Became(q, [Goto(q, "commit") EXCEPT !.doomed = doomed])
     /\ UNCHANGED <<password, table, history>>

(* COMMIT, and the client gets its cookie. *)
CommitSession(q) ==
  LET s == req[q].id
      gone == req[q].doomed
  IN /\ At(q, "login", "commit")
     /\ rows' = (rows \ gone) \cup {s}
     /\ left' = [t \in Ids |-> IF t = s THEN TTL ELSE IF t \in gone THEN 0 ELSE left[t]]
     /\ age' = [t \in Ids |-> IF t \in gone THEN 0 ELSE age[t]]
     /\ created' = Append(created, s)
     /\ trimmed' = trimmed \cup {t \in gone : Live(t)}
     /\ Ended(gone)
     /\ Finish(q)
     /\ UNCHANGED <<password, chosen, revoked>>

-----------------------------------------------------------------------------
(* RefreshSession moves expires_at when less than half of the window is left. *)
Stamped(s) == IF left[s] < HalfTTL THEN TTL ELSE left[s]

(* RequireSession, OptionalSession: the request is accepted. *)
Accept(s) ==
  /\ Live(s)
  /\ RowFree(s)
  /\ left' = [left EXCEPT ![s] = Stamped(s)]
  /\ used' = [used EXCEPT ![s] = 0]

Use(s) ==
  /\ Accept(s)
  /\ UNCHANGED <<password, rows, age, created, req, chosen, revoked, trimmed>>

(* DELETE /sessions needs the cookie and nothing else. *)
Logout(s) ==
  /\ s \in rows
  /\ RowFree(s)
  /\ Deleted({s})
  /\ Ended({s})
  /\ UNCHANGED <<password, created, req, chosen, revoked, trimmed>>

(* Session t ends session s, which is not itself. *)
Revoke(t, s) ==
  /\ Live(t) /\ RowFree(t)
  /\ s \in rows \ {t} /\ RowFree(s)
  /\ rows' = rows \ {s}
  /\ left' = [left EXCEPT ![t] = Stamped(t), ![s] = 0]
  /\ age' = [age EXCEPT ![s] = 0]
  /\ used' = [used EXCEPT ![t] = 0, ![s] = HalfTTL]
  /\ UNCHANGED <<password, created, req, chosen, revoked, trimmed>>

(* Fault: the sweep also takes what is about to expire. *)
SweepEarly ==
  LET dead == {s \in rows : left[s] <= HalfTTL \/ ~Live(s)}
  IN /\ dead # {}
     /\ \A s \in dead : RowFree(s)
     /\ Deleted(dead)
     /\ UNCHANGED <<password, created, req, history>>

(* The hourly sweep. *)
DeleteExpiredSessions ==
  LET dead == rows \ LiveRows
  IN /\ dead # {}
     /\ \A s \in dead : RowFree(s)
     /\ Deleted(dead)
     /\ UNCHANGED <<password, created, req, history>>

-----------------------------------------------------------------------------
(* ChangePassword, asked for with session s: read the hash ... *)
ReadHash(q, s, g, n) ==
  /\ req[q] = Idle
  /\ Accept(s)
  /\ Became(q, [Idle EXCEPT !.op = "change", !.at = "verify", !.id = s, !.guess = g, !.new = n,
                            !.hash = password])
  /\ UNCHANGED <<password, rows, age, created, chosen, revoked, trimmed>>

(* ... verify it ... *)
VerifyCurrent(q) ==
  /\ At(q, "change", "verify")
  /\ IF req[q].guess = req[q].hash.of THEN Became(q, Verified(q, "update")) ELSE Finish(q)
  /\ UNCHANGED <<password, table, history>>

(* Fault: the UPDATE comes after the DELETE. *)
SkipUpdate(q) ==
  /\ At(q, "change", "update")
  /\ Became(q, Goto(q, "delete"))
  /\ UNCHANGED <<password, table, history>>

(* ... UPDATE users SET password, which locks the user's row, ... *)
UpdatePassword(q) ==
  /\ At(q, "change", "update")
  /\ UserFree(q)
  /\ Became(q, Goto(q, "delete"))
  /\ UNCHANGED <<password, table, history>>

(* ... DELETE FROM sessions ... AND id != the current one ... *)
DeleteOthers(q) ==
  /\ At(q, "change", "delete")
  /\ \A s \in rows \ {req[q].id} : RowFree(s)
  /\ Became(q, [Goto(q, "commit") EXCEPT !.doomed = rows \ {req[q].id}])
  /\ UNCHANGED <<password, table, history>>

(* ... and COMMIT. *)
CommitChange(q) ==
  /\ At(q, "change", "commit")
  /\ password' = [of |-> req[q].new, weak |-> FALSE]
  /\ Deleted(req[q].doomed)
  /\ Ended(req[q].doomed)
  /\ chosen' = req[q].new
  /\ revoked' = revoked \cup (rows \ {req[q].id})
  /\ Finish(q)
  /\ UNCHANGED <<created, trimmed>>

-----------------------------------------------------------------------------
(* A statement fails or the replica dies: the transaction is rolled back. *)
Fail(q) ==
  /\ req[q] # Idle
  /\ Finish(q)
  /\ UNCHANGED <<password, table, history>>

(* Time passes.  A tick is days long: no request lasts from one to the next. *)
Tick ==
  LET older == [s \in Ids |-> IF s \in rows /\ age[s] <= AbsoluteTTL THEN age[s] + 1 ELSE age[s]]
  IN /\ rows # {}
     /\ req = [q \in Requests |-> Idle]
     /\ left' = [s \in Ids |-> IF left[s] > 0 THEN left[s] - 1 ELSE 0]
     /\ age' = older
     /\ used' = [s \in Ids |-> IF used[s] = HalfTTL \/ older[s] > AbsoluteTTL THEN HalfTTL ELSE used[s] + 1]
     /\ UNCHANGED <<password, rows, created, req, chosen, revoked, trimmed>>

Serve(q) ==
  \/ VerifyLogin(q) \/ UpgradeHash(q) \/ LockUser(q) \/ InsertAndTrim(q) \/ CommitSession(q)
  \/ VerifyCurrent(q) \/ UpdatePassword(q) \/ DeleteOthers(q) \/ CommitChange(q)

Next ==
  \/ \E q \in Requests : Serve(q) \/ Fail(q)
  \/ \E q \in Requests, g \in Passwords : FindCredentials(q, g)
  \/ \E q \in Requests, s \in Ids, g, n \in Passwords : ReadHash(q, s, g, n)
  \/ \E s \in Ids : Use(s) \/ Logout(s)
  \/ \E t, s \in Ids : Revoke(t, s)
  \/ DeleteExpiredSessions
  \/ Tick

Spec == Init /\ [][Next]_vars

-----------------------------------------------------------------------------
TypeOK ==
  /\ password \in Hashes
  /\ rows \subseteq Ids /\ left \in [Ids -> 0..TTL] /\ age \in [Ids -> 0..AbsoluteTTL + 1]
  /\ created \in Seq(Ids)
  /\ req \in [Requests -> Request]
  /\ chosen \in Passwords /\ revoked \subseteq Ids /\ trimmed \subseteq Ids
  /\ used \in [Ids -> 0..HalfTTL]

(* However many replicas log a user in at once, no more than MaxSessions    *)
(* rows are ever committed.                                                 *)
SessionsBounded == Cardinality(rows) <= MaxSessions

(* Types, and: the trim of CreateSession keeps the number of rows bounded. *)
SessionsInv == TypeOK /\ SessionsBounded

(* A live session is only pushed out by MaxSessions newer logins. *)
TrimmedAreOldest ==
  \A i \in 1..Len(created) : created[i] \in trimmed => Len(created) - i >= MaxSessions

(* A password change leaves none of the sessions that were there when it    *)
(* committed, its own excepted: a login must not slip one in between.       *)
OtherSessionsEnd == rows \cap revoked = {}

(* A session used less than half a window ago can be used, unless it was    *)
(* ended on purpose or has reached its absolute age.  (Stamping is skipped  *)
(* in the outer half, so that no more than half a window is certain.)       *)
UsedStaysLive == \A s \in Ids : used[s] < HalfTTL => Live(s)

(* Only the upgrade of the weak hash the user started with can replace the  *)
(* password that the latest change chose.                                   *)
OnlyUpgradeUndoesChange == password.of \in {chosen, First}

(* "Hashes are upgraded silently": the password the user chose last is the  *)
(* one that works.                                                          *)
LatestChangeStands == password.of = chosen
=============================================================================
