--------------------------- MODULE SessionsProofs ---------------------------
(* What login and a change of password promise, for any number of requests, *)
(* sessions and passwords: the sessions of a user are bounded, a change of  *)
(* password ends the others, and only the upgrade of the first, weak hash   *)
(* can undo it.                                                            *)
EXTENDS Sessions, FiniteSetTheorems, FunctionTheorems, TLAPS

(* What the trim of CreateSession leaves, with its ORDER BY and OFFSET:       *)
(* newer[r] are the rows that are newer than r, in some order of all rows:  *)
(* at most limit rows have fewer than limit newer ones.                     *)
LEMMA FewAreNewest ==
  ASSUME NEW S, IsFiniteSet(S), NEW newer \in [S -> SUBSET S], NEW limit \in Nat,
         \A r \in S : r \notin newer[r],
         \A r, n \in S : r # n => n \in newer[r] \/ r \in newer[n],
         \A r, n \in S : n \in newer[r] => newer[n] \subseteq newer[r]
  PROVE  Cardinality({r \in S : Cardinality(newer[r]) < limit}) <= limit
  <1> DEFINE kept == {r \in S : Cardinality(newer[r]) < limit}
             rank == [r \in kept |-> Cardinality(newer[r])]
  <1>1. \A r \in S : IsFiniteSet(newer[r]) /\ Cardinality(newer[r]) \in Nat
    BY FS_Subset, FS_CardinalityType
  <1>2. \A r, n \in S : n \in newer[r] => Cardinality(newer[n]) < Cardinality(newer[r])
    <2> SUFFICES ASSUME NEW r \in S, NEW n \in S, n \in newer[r]
                 PROVE  Cardinality(newer[n]) < Cardinality(newer[r])
      OBVIOUS
    <2>1. newer[n] \cup {n} \in SUBSET newer[r] /\ n \notin newer[n]
      OBVIOUS
    <2>2. Cardinality(newer[n] \cup {n}) = Cardinality(newer[n]) + 1
      BY <1>1, <2>1, FS_AddElement
    <2>3. Cardinality(newer[n] \cup {n}) <= Cardinality(newer[r])
      BY <1>1, <2>1, FS_Subset
    <2> QED
      BY <1>1, <2>2, <2>3
  <1>3. rank \in [kept -> 0..(limit - 1)]
    BY <1>1
  <1>4. \A r, n \in kept : rank[r] = rank[n] => r = n
    <2> SUFFICES ASSUME NEW r \in kept, NEW n \in kept, rank[r] = rank[n], r # n PROVE FALSE
      OBVIOUS
    <2>1. Cardinality(newer[n]) < Cardinality(newer[r]) \/ Cardinality(newer[r]) < Cardinality(newer[n])
      BY <1>2
    <2>2. Cardinality(newer[n]) = Cardinality(newer[r])
      OBVIOUS
    <2> QED
      BY <1>1, <2>1, <2>2
  <1>5. rank \in Injection(kept, 0..(limit - 1))
    BY <1>3, <1>4 DEF Injection, IsInjective
  <1>6. IsFiniteSet(0..(limit - 1)) /\ Cardinality(0..(limit - 1)) = limit
    <2>1. 0 \in Int /\ limit - 1 \in Int
      OBVIOUS
    <2>2. /\ IsFiniteSet(0..(limit - 1))
          /\ Cardinality(0..(limit - 1)) = IF 0 > limit - 1 THEN 0 ELSE (limit - 1) - 0 + 1
      BY <2>1, FS_Interval
    <2> QED
      BY <2>2
  <1> HIDE DEF kept, rank
  <1>7. Cardinality(kept) <= Cardinality(0..(limit - 1))
    BY <1>5, <1>6, FS_Injection
  <1> QED
    BY <1>6, <1>7 DEF kept

-----------------------------------------------------------------------------
Holding(r) == r.at \in {"delete", "insert", "commit"}

(* A request that is under way: a new session has an id of its own; a       *)
(* change that is about to commit deletes every other row there is; a weak  *)
(* hash that was read is the first password's, and so is the guess that is  *)
(* hashed again.                                                           *)
RequestOK(r) ==
  /\ r.op = "login" /\ r.at \in {"insert", "commit"} => r.id \in Ids \ Elements(created)
  /\ r.op = "change" /\ r.at = "commit" => rows \ {r.id} \subseteq r.doomed
  /\ r.op = "login" /\ r.at = "verify" /\ r.hash.weak => r.hash.of = First
  /\ r.op = "login" /\ r.at = "upgrade" => r.guess = First

(* The user's row has one holder. *)
OneHolder == \A p, q \in Requests : Holding(req[p]) /\ Holding(req[q]) => p = q

PasswordOK ==
  /\ password \in Hashes
  /\ password.weak => password.of = First
  /\ OnlyUpgradeUndoesChange

SessionsIInv ==
  /\ created \in Seq(Ids) /\ rows \subseteq Elements(created) /\ revoked \subseteq Elements(created)
  /\ req \in [Requests -> Request]
  /\ \A q \in Requests : RequestOK(req[q])
  /\ OneHolder
  /\ PasswordOK
  /\ OtherSessionsEnd

-----------------------------------------------------------------------------

(* A request that does nothing is a request, holds no lock and needs nothing. *)
LEMMA IdleIsRequest == Idle \in Request /\ ~Holding(Idle) /\ RequestOK(Idle)
  BY FirstAssumption DEF Idle, Request, Hashes, Holding, RequestOK

(* The invariant holds of a user with a password, no session and no request. *)
LEMMA SessionsInitial == Init => SessionsIInv
  <1> SUFFICES ASSUME Init PROVE SessionsIInv
    OBVIOUS
  <1>1. created \in Seq(Ids) /\ rows \subseteq Elements(created) /\ revoked \subseteq Elements(created)
    BY DEF Init
  <1>2. req \in [Requests -> Request] /\ \A q \in Requests : req[q] = Idle
    BY IdleIsRequest DEF Init
  <1>3. (\A q \in Requests : RequestOK(req[q])) /\ OneHolder
    BY <1>2, IdleIsRequest DEF OneHolder
  <1>4. PasswordOK /\ OtherSessionsEnd
    BY FirstAssumption DEF Init, PasswordOK, OnlyUpgradeUndoesChange, OtherSessionsEnd, Hashes
  <1> QED
    BY <1>1, <1>2, <1>3, <1>4 DEF SessionsIInv

(* A request moves on, and takes the user's row only when it is free; the   *)
(* password may be replaced, the sessions stay.                            *)
LEMMA RequestMoves ==
  ASSUME SessionsIInv, NEW q \in Requests, NEW r \in Request, Became(q, r), RequestOK(r),
         Holding(r) => Holding(req[q]) \/ UserFree(q),
         UNCHANGED <<rows, created, revoked>>, PasswordOK'
  PROVE  SessionsIInv'
  <1>1. req' \in [Requests -> Request]
    BY DEF SessionsIInv, Became
  <1>2. \A p \in Requests : req'[p] = IF p = q THEN r ELSE req[p]
    BY DEF SessionsIInv, Became
  <1>3. \A p \in Requests : RequestOK(req[p])'
    <2> SUFFICES ASSUME NEW p \in Requests PROVE RequestOK(req[p])'
      OBVIOUS
    <2>1. RequestOK(req'[p])
      BY <1>2 DEF SessionsIInv
    <2> QED
      BY <2>1 DEF RequestOK
  <1>4. OneHolder'
    BY <1>2 DEF SessionsIInv, OneHolder, UserFree, HoldsUser, Holding
  <1> QED
    BY <1>1, <1>3, <1>4 DEF SessionsIInv, OtherSessionsEnd

(* Rows go, and nothing else that matters changes.                          *)
LEMMA RowsGo ==
  ASSUME SessionsIInv, rows' \subseteq rows, UNCHANGED <<created, revoked, req, password, chosen>>
  PROVE  SessionsIInv'
  <1>1. \A q \in Requests : RequestOK(req[q])'
    BY DEF SessionsIInv, RequestOK
  <1> QED
    BY <1>1 DEF SessionsIInv, OneHolder, PasswordOK, OnlyUpgradeUndoesChange, OtherSessionsEnd

(* A step that leaves the password alone keeps what is known of it.         *)
LEMMA PasswordStays ==
  ASSUME SessionsIInv, UNCHANGED <<password, chosen>>
  PROVE  PasswordOK'
  BY DEF SessionsIInv, PasswordOK, OnlyUpgradeUndoesChange

-----------------------------------------------------------------------------
(* Login. *)
LEMMA LoginStep ==
  ASSUME SessionsIInv, NEW q \in Requests
  PROVE  /\ (\E g \in Passwords : FindCredentials(q, g)) => SessionsIInv'
         /\ VerifyLogin(q) => SessionsIInv'
         /\ UpgradeHash(q) => SessionsIInv'
         /\ LockUser(q) => SessionsIInv'
         /\ InsertAndTrim(q) => SessionsIInv'
         /\ CommitSession(q) => SessionsIInv'
  <1> USE DEF table, history
  <1>0. req[q] \in Request /\ RequestOK(req[q])
    BY DEF SessionsIInv
  <1>1. ASSUME NEW g \in Passwords, FindCredentials(q, g) PROVE SessionsIInv'
    <2> DEFINE r == [Idle EXCEPT !.op = "login", !.at = "verify", !.guess = g, !.hash = password]
    <2>1. r \in Request /\ RequestOK(r) /\ ~Holding(r)
      BY IdleIsRequest DEF SessionsIInv, PasswordOK, Idle, Request, RequestOK, Holding
    <2>2. Became(q, r) /\ UNCHANGED <<rows, created, revoked, password, chosen>>
      BY <1>1 DEF FindCredentials
    <2> QED
      BY <2>1, <2>2, PasswordStays, RequestMoves
  <1>2. ASSUME VerifyLogin(q) PROVE SessionsIInv'
    <2>1. UNCHANGED <<rows, created, revoked, password, chosen>>
      BY <1>2 DEF VerifyLogin
    <2>2. CASE Finish(q)
      BY <2>1, <2>2, IdleIsRequest, PasswordStays, RequestMoves DEF Finish
    <2>3. CASE req[q].guess = req[q].hash.of /\ req[q].hash.weak /\ Became(q, Goto(q, "upgrade"))
      <3>1. /\ Goto(q, "upgrade") \in Request /\ ~Holding(Goto(q, "upgrade"))
            /\ RequestOK(Goto(q, "upgrade"))
        BY <1>0, <1>2, <2>3 DEF VerifyLogin, At, Goto, Request, RequestOK, Holding
      <3> QED
        BY <2>1, <2>3, <3>1, PasswordStays, RequestMoves
    <2>4. CASE Became(q, Verified(q, "lock"))
      <3>1. /\ Verified(q, "lock") \in Request /\ ~Holding(Verified(q, "lock"))
            /\ RequestOK(Verified(q, "lock"))
        BY <1>0, FirstAssumption
        DEF Verified, Goto, Idle, Request, Hashes, RequestOK, Holding
      <3> QED
        BY <2>1, <2>4, <3>1, PasswordStays, RequestMoves
    <2> QED
      BY <1>2, <2>2, <2>3, <2>4 DEF VerifyLogin
  <1>3. ASSUME UpgradeHash(q) PROVE SessionsIInv'
    <2>1. /\ Verified(q, "lock") \in Request /\ ~Holding(Verified(q, "lock"))
          /\ RequestOK(Verified(q, "lock"))
      BY <1>0, FirstAssumption
      DEF Verified, Goto, Idle, Request, Hashes, RequestOK, Holding
    <2>2. Became(q, Verified(q, "lock")) /\ UNCHANGED <<rows, created, revoked, chosen>>
      BY <1>3 DEF UpgradeHash
    <2>3. req[q].guess = First
      BY <1>0, <1>3 DEF UpgradeHash, At, RequestOK
    <2>4. PasswordOK'
      <3>1. CASE password' = [of |-> req[q].guess, weak |-> FALSE]
        <4>1. password' \in Hashes /\ password'.of = First
          BY <2>3, <3>1, FirstAssumption DEF Hashes
        <4> QED
          BY <4>1 DEF PasswordOK, OnlyUpgradeUndoesChange
      <3>2. CASE UNCHANGED password
        BY <2>2, <3>2, PasswordStays
      <3> QED
        BY <1>3, <3>1, <3>2 DEF UpgradeHash
    <2> QED
      BY <2>1, <2>2, <2>4, RequestMoves
  <1>4. ASSUME LockUser(q) PROVE SessionsIInv'
    <2>1. PICK s \in Ids \ (Elements(created) \cup {req[p].id : p \in Requests}) :
            /\ At(q, "login", "lock") /\ UserFree(q)
            /\ Became(q, [Goto(q, "insert") EXCEPT !.id = s])
            /\ UNCHANGED <<password, table, history>>
      BY <1>4 DEF LockUser
    <2> DEFINE r == [Goto(q, "insert") EXCEPT !.id = s]
    <2>2. r \in Request /\ RequestOK(r)
      BY <1>0, <2>1 DEF At, Goto, Request, RequestOK
    <2> QED
      BY <2>1, <2>2, PasswordStays, RequestMoves
  <1>5. ASSUME InsertAndTrim(q) PROVE SessionsIInv'
    <2> DEFINE doomed == (rows \ LiveRows) \cup Surplus
               r == [Goto(q, "commit") EXCEPT !.doomed = doomed]
    <2>1. At(q, "login", "insert") /\ Became(q, r) /\ UNCHANGED <<password, table, history>>
      BY <1>5 DEF InsertAndTrim
    <2>2. doomed \subseteq Ids
      <3>1. Elements(created) \subseteq Ids
        BY DEF SessionsIInv, Elements
      <3> QED
        BY <3>1 DEF SessionsIInv, LiveRows, Surplus
    <2>3. r \in Request /\ RequestOK(r) /\ Holding(req[q])
      BY <1>0, <2>1, <2>2 DEF At, Goto, Request, RequestOK, Holding
    <2> HIDE DEF r
    <2> QED
      BY <2>1, <2>3, PasswordStays, RequestMoves
  <1>6. ASSUME CommitSession(q) PROVE SessionsIInv'
    <2> DEFINE s == req[q].id
    <2>1. /\ At(q, "login", "commit") /\ rows' = (rows \ req[q].doomed) \cup {s}
          /\ created' = Append(created, s)
          /\ Finish(q) /\ UNCHANGED <<password, chosen, revoked>>
      BY <1>6 DEF CommitSession
    <2>2. s \in Ids \ Elements(created)
      BY <1>0, <2>1 DEF At, RequestOK
    <2>3. created' \in Seq(Ids) /\ Elements(created)' = Elements(created) \cup {s}
      <3>1. created \in Seq(Ids)
        BY DEF SessionsIInv
      <3> HIDE DEF s
      <3>2. created' \in Seq(Ids) /\ Len(created') = Len(created) + 1
        BY <2>1, <2>2, <3>1
      <3>3. \A i \in 1..Len(created) : created'[i] = created[i]
        BY <2>1, <2>2, <3>1
      <3>4. created'[Len(created) + 1] = s
        BY <2>1, <2>2, <3>1
      <3>5. Len(created) \in Nat
        BY <3>1
      <3>6. 1..Len(created') = (1..Len(created)) \cup {Len(created) + 1}
        BY <3>2, <3>5
      <3> QED
        BY <3>2, <3>3, <3>4, <3>6 DEF Elements
    <2>4. \A p \in Requests : req'[p] = IF p = q THEN Idle ELSE req[p]
      BY <2>1 DEF SessionsIInv, Finish, Became
    <2>5. req' \in [Requests -> Request]
      BY <2>1, IdleIsRequest DEF SessionsIInv, Finish, Became
    <2>6. \A p \in Requests \ {q} : ~Holding(req[p])
      BY <2>1 DEF SessionsIInv, OneHolder, At, Holding
    <2>7. \A p \in Requests : RequestOK(req[p])'
      <3> SUFFICES ASSUME NEW p \in Requests PROVE RequestOK(req[p])'
        OBVIOUS
      <3>1. CASE p = q
        BY <2>4, <3>1 DEF Idle, RequestOK
      <3>2. CASE p # q
        <4>1. ~Holding(req'[p]) /\ RequestOK(req'[p])
          BY <2>4, <2>6, <3>2 DEF SessionsIInv
        <4> QED
          BY <4>1 DEF RequestOK, Holding
      <3> QED
        BY <3>1, <3>2
    <2>8. OneHolder'
      BY <2>4, <2>6, IdleIsRequest DEF OneHolder
    <2>9. OtherSessionsEnd'
      BY <2>1, <2>2 DEF SessionsIInv, OtherSessionsEnd
    <2> QED
      BY <2>1, <2>3, <2>5, <2>7, <2>8, <2>9, PasswordStays DEF SessionsIInv
  <1> QED
    BY <1>1, <1>2, <1>3, <1>4, <1>5, <1>6

(* ChangePassword. *)
LEMMA ChangeStep ==
  ASSUME SessionsIInv, NEW q \in Requests
  PROVE  /\ (\E s \in Ids, g, n \in Passwords : ReadHash(q, s, g, n)) => SessionsIInv'
         /\ VerifyCurrent(q) => SessionsIInv'
         /\ UpdatePassword(q) => SessionsIInv'
         /\ DeleteOthers(q) => SessionsIInv'
         /\ CommitChange(q) => SessionsIInv'
  <1> USE DEF table, history
  <1>0. req[q] \in Request /\ RequestOK(req[q])
    BY DEF SessionsIInv
  <1>1. ASSUME NEW s \in Ids, NEW g \in Passwords, NEW n \in Passwords, ReadHash(q, s, g, n)
        PROVE  SessionsIInv'
    <2> DEFINE r == [Idle EXCEPT !.op = "change", !.at = "verify", !.id = s, !.guess = g,
                                 !.new = n, !.hash = password]
    <2>1. r \in Request /\ RequestOK(r) /\ ~Holding(r)
      BY IdleIsRequest DEF SessionsIInv, PasswordOK, Idle, Request, RequestOK, Holding
    <2>2. Became(q, r) /\ UNCHANGED <<rows, created, revoked, password, chosen>>
      BY <1>1 DEF ReadHash
    <2> HIDE DEF r
    <2> QED
      BY <2>1, <2>2, PasswordStays, RequestMoves
  <1>2. ASSUME VerifyCurrent(q) PROVE SessionsIInv'
    <2>1. UNCHANGED <<rows, created, revoked, password, chosen>>
      BY <1>2 DEF VerifyCurrent
    <2>2. /\ Verified(q, "update") \in Request /\ ~Holding(Verified(q, "update"))
          /\ RequestOK(Verified(q, "update"))
      BY <1>0, FirstAssumption
      DEF Verified, Goto, Idle, Request, Hashes, RequestOK, Holding
    <2>3. Became(q, Verified(q, "update")) \/ Became(q, Idle)
      BY <1>2 DEF VerifyCurrent, Finish
    <2> QED
      BY <2>1, <2>2, <2>3, IdleIsRequest, PasswordStays, RequestMoves
  <1>3. ASSUME UpdatePassword(q) PROVE SessionsIInv'
    <2>1. /\ At(q, "change", "update") /\ UserFree(q) /\ Became(q, Goto(q, "delete"))
          /\ UNCHANGED <<rows, created, revoked, password, chosen>>
      BY <1>3 DEF UpdatePassword
    <2>2. Goto(q, "delete") \in Request /\ RequestOK(Goto(q, "delete"))
      BY <1>0, <2>1 DEF At, Goto, Request, RequestOK
    <2> QED
      BY <2>1, <2>2, PasswordStays, RequestMoves
  <1>4. ASSUME DeleteOthers(q) PROVE SessionsIInv'
    <2> DEFINE r == [Goto(q, "commit") EXCEPT !.doomed = rows \ {req[q].id}]
    <2>1. /\ At(q, "change", "delete") /\ Became(q, r)
          /\ UNCHANGED <<rows, created, revoked, password, chosen>>
      BY <1>4 DEF DeleteOthers
    <2>2. rows \subseteq Ids
      BY DEF SessionsIInv, Elements
    <2>3. r \in Request /\ RequestOK(r) /\ Holding(req[q])
      BY <1>0, <2>1, <2>2 DEF At, Goto, Request, RequestOK, Holding
    <2> HIDE DEF r
    <2> QED
      BY <2>1, <2>3, PasswordStays, RequestMoves
  <1>5. ASSUME CommitChange(q) PROVE SessionsIInv'
    <2>1. /\ At(q, "change", "commit") /\ password' = [of |-> req[q].new, weak |-> FALSE]
          /\ rows' = rows \ req[q].doomed /\ chosen' = req[q].new
          /\ revoked' = revoked \cup (rows \ {req[q].id})
          /\ Finish(q) /\ UNCHANGED created
      BY <1>5 DEF CommitChange, Deleted
    <2>2. rows \ {req[q].id} \subseteq req[q].doomed
      BY <1>0, <2>1 DEF At, RequestOK
    <2>3. OtherSessionsEnd' /\ rows' \subseteq Elements(created) /\ revoked' \subseteq Elements(created)
      BY <2>1, <2>2 DEF SessionsIInv, OtherSessionsEnd
    <2>4. PasswordOK'
      <3>1. password' \in Hashes /\ ~password'.weak /\ password'.of = chosen'
        BY <1>0, <2>1 DEF Request, Hashes
      <3> QED
        BY <3>1 DEF PasswordOK, OnlyUpgradeUndoesChange
    <2>5. req' \in [Requests -> Request] /\ \A p \in Requests : req'[p] = IF p = q THEN Idle ELSE req[p]
      BY <2>1, IdleIsRequest DEF SessionsIInv, Finish, Became
    <2>6. \A p \in Requests \ {q} : ~Holding(req[p])
      BY <2>1 DEF SessionsIInv, OneHolder, At, Holding
    <2>7. \A p \in Requests : RequestOK(req[p])'
      <3> SUFFICES ASSUME NEW p \in Requests PROVE RequestOK(req[p])'
        OBVIOUS
      <3>1. CASE p = q
        BY <2>5, <3>1 DEF Idle, RequestOK
      <3>2. CASE p # q
        <4>1. ~Holding(req'[p]) /\ RequestOK(req'[p])
          BY <2>5, <2>6, <3>2 DEF SessionsIInv
        <4> QED
          BY <4>1 DEF RequestOK, Holding
      <3> QED
        BY <3>1, <3>2
    <2>8. OneHolder'
      BY <2>5, <2>6, IdleIsRequest DEF OneHolder
    <2> QED
      BY <2>1, <2>3, <2>4, <2>5, <2>7, <2>8 DEF SessionsIInv
  <1> QED
    BY <1>1, <1>2, <1>3, <1>4, <1>5

-----------------------------------------------------------------------------

(* Every step of a request, of the sweep and of time keeps the invariant.   *)
LEMMA SessionsInductive == SessionsIInv /\ [Next]_vars => SessionsIInv'
  <1> SUFFICES ASSUME SessionsIInv, [Next]_vars PROVE SessionsIInv'
    OBVIOUS
  <1> USE DEF table, history
  <1>1. CASE \E q \in Requests : Serve(q)
    BY <1>1, LoginStep, ChangeStep DEF Serve
  <1>2. CASE \E q \in Requests : Fail(q)
    BY <1>2, IdleIsRequest, PasswordStays, RequestMoves DEF Fail, Finish
  <1>3. CASE \E q \in Requests, g \in Passwords : FindCredentials(q, g)
    BY <1>3, LoginStep
  <1>4. CASE \E q \in Requests, s \in Ids, g, n \in Passwords : ReadHash(q, s, g, n)
    BY <1>4, ChangeStep
  <1>5. CASE \E s \in Ids : Use(s) \/ Logout(s)
    BY <1>5, RowsGo DEF Use, Logout, Deleted
  <1>6. CASE \E t, s \in Ids : Revoke(t, s)
    BY <1>6, RowsGo DEF Revoke
  <1>7. CASE DeleteExpiredSessions
    BY <1>7, RowsGo DEF DeleteExpiredSessions, Deleted
  <1>8. CASE Tick
    BY <1>8, RowsGo DEF Tick
  <1>9. CASE UNCHANGED vars
    BY <1>9, RowsGo DEF vars
  <1> QED
    BY <1>1, <1>2, <1>3, <1>4, <1>5, <1>6, <1>7, <1>8, <1>9 DEF Next

(* The user's row has one holder at a time, who alone inserts sessions or   *)
(* deletes them for a change of password.                                  *)
THEOREM SessionsInvariant == Spec => []SessionsIInv
  BY SessionsInitial, SessionsInductive, PTL DEF Spec

(* A change of password leaves none of the sessions that were there when it *)
(* committed: no login slips one in between its DELETE and its COMMIT.      *)
THEOREM ChangeEndsOtherSessions == Spec => []OtherSessionsEnd
  <1>1. SessionsIInv => OtherSessionsEnd
    BY DEF SessionsIInv
  <1> QED
    BY <1>1, SessionsInvariant, PTL

(* Apart from the first password, whose weak hash a login may write back    *)
(* late, no password but the one that was chosen last works.                *)
THEOREM OnlyFirstPasswordReturns == Spec => []OnlyUpgradeUndoesChange
  <1>1. SessionsIInv => OnlyUpgradeUndoesChange
    BY DEF SessionsIInv, PasswordOK
  <1> QED
    BY <1>1, SessionsInvariant, PTL

-----------------------------------------------------------------------------
(* What the type invariant adds to SessionsIInv.                            *)
Clocks ==
  /\ left \in [Ids -> 0..TTL] /\ age \in [Ids -> 0..AbsoluteTTL + 1]
  /\ used \in [Ids -> 0..HalfTTL]
  /\ trimmed \subseteq Ids /\ chosen \in Passwords

(* The lifetimes of a session are numbers in order.                         *)
LEMMA Durations == TTL \in Nat /\ HalfTTL \in Nat /\ AbsoluteTTL \in Nat /\ HalfTTL <= TTL
  BY LimitsAssumption DEF TTL

(* The rows of the table, and all that ever were in it, are ids.            *)
LEMMA RowsAreIds == SessionsIInv => Elements(created) \subseteq Ids /\ rows \subseteq Ids
  BY DEF SessionsIInv, Elements

(* The steps that move a clock.                                             *)
LEMMA ClocksStep ==
  ASSUME SessionsIInv, Clocks, [Next]_vars
  PROVE  Clocks'
  <1> USE Durations DEF table, history
  <1>1. ASSUME UNCHANGED <<left, age, used, trimmed, chosen>> PROVE Clocks'
    BY <1>1 DEF Clocks
  <1>2. ASSUME NEW s \in Ids, Accept(s) PROVE left' \in [Ids -> 0..TTL] /\ used' \in [Ids -> 0..HalfTTL]
    <2>1. Stamped(s) \in 0..TTL
      BY DEF Stamped, Clocks
    <2> QED
      BY <1>2, <2>1 DEF Accept, Clocks
  <1>3. ASSUME NEW S, Deleted(S) PROVE left' \in [Ids -> 0..TTL] /\ age' \in [Ids -> 0..AbsoluteTTL + 1]
    BY <1>3 DEF Deleted, Clocks
  <1>4. ASSUME NEW S, Ended(S) PROVE used' \in [Ids -> 0..HalfTTL]
    BY <1>4 DEF Ended, Clocks
  <1>5. ASSUME NEW q \in Requests, CommitSession(q) PROVE Clocks'
    <2> DEFINE gone == req[q].doomed
               s == req[q].id
    <2>1. /\ left' = [t \in Ids |-> IF t = s THEN TTL ELSE IF t \in gone THEN 0 ELSE left[t]]
          /\ age' = [t \in Ids |-> IF t \in gone THEN 0 ELSE age[t]]
          /\ trimmed' = trimmed \cup {t \in gone : Live(t)}
          /\ Ended(gone) /\ UNCHANGED chosen
      BY <1>5 DEF CommitSession
    <2>2. gone \subseteq Ids
      BY DEF SessionsIInv, Request
    <2> HIDE DEF gone, s
    <2> QED
      BY <1>4, <2>1, <2>2 DEF Clocks
  <1>6. ASSUME NEW q \in Requests, CommitChange(q) PROVE Clocks'
    <2>1. /\ Deleted(req[q].doomed) /\ Ended(req[q].doomed)
          /\ chosen' = req[q].new /\ UNCHANGED trimmed
      BY <1>6 DEF CommitChange
    <2>2. req[q].new \in Passwords
      BY DEF SessionsIInv, Request
    <2> QED
      BY <1>3, <1>4, <2>1, <2>2 DEF Clocks
  <1>7. ASSUME NEW q \in Requests, Serve(q) PROVE Clocks'
    BY <1>1, <1>5, <1>6, <1>7
    DEF Serve, VerifyLogin, UpgradeHash, LockUser, InsertAndTrim, VerifyCurrent, UpdatePassword, DeleteOthers
  <1>8. CASE \E q \in Requests : Fail(q)
    BY <1>1, <1>8 DEF Fail
  <1>9. CASE \E q \in Requests, g \in Passwords : FindCredentials(q, g)
    BY <1>1, <1>9 DEF FindCredentials
  <1>10. CASE \E q \in Requests, s \in Ids, g, n \in Passwords : ReadHash(q, s, g, n)
    BY <1>2, <1>10 DEF ReadHash, Clocks
  <1>11. ASSUME NEW s \in Ids, Use(s) PROVE Clocks'
    BY <1>2, <1>11 DEF Use, Clocks
  <1>12. ASSUME NEW s \in Ids, Logout(s) PROVE Clocks'
    BY <1>3, <1>4, <1>12 DEF Logout, Clocks
  <1>13. ASSUME NEW t \in Ids, NEW s \in Ids, Revoke(t, s) PROVE Clocks'
    <2>1. Stamped(t) \in 0..TTL
      BY DEF Stamped, Clocks
    <2>2. 0 \in 0..TTL /\ 0 \in 0..AbsoluteTTL + 1 /\ 0 \in 0..HalfTTL /\ HalfTTL \in 0..HalfTTL
      OBVIOUS
    <2> QED
      BY <1>13, <2>1, <2>2 DEF Revoke, Clocks
  <1>14. CASE DeleteExpiredSessions
    BY <1>3, <1>14 DEF DeleteExpiredSessions, Clocks
  <1>15. CASE Tick
    <2>1. \A s \in Ids : left[s] \in 0..TTL /\ age[s] \in 0..AbsoluteTTL + 1 /\ used[s] \in 0..HalfTTL
      BY DEF Clocks
    <2>2. PICK older \in [Ids -> 0..AbsoluteTTL + 1] :
            /\ left' = [s \in Ids |-> IF left[s] > 0 THEN left[s] - 1 ELSE 0]
            /\ age' = older
            /\ used' = [s \in Ids |-> IF used[s] = HalfTTL \/ older[s] > AbsoluteTTL
                                       THEN HalfTTL ELSE used[s] + 1]
            /\ UNCHANGED <<chosen, trimmed>>
      BY <1>15, <2>1 DEF Tick
    <2>3. left' \in [Ids -> 0..TTL] /\ used' \in [Ids -> 0..HalfTTL]
      BY <2>1, <2>2
    <2> QED
      BY <2>2, <2>3 DEF Clocks
  <1>16. CASE UNCHANGED vars
    BY <1>1, <1>16 DEF vars
  <1> QED
    BY <1>7, <1>8, <1>9, <1>10, <1>11, <1>12, <1>13, <1>14, <1>15, <1>16 DEF Next

-----------------------------------------------------------------------------
(* No id is created twice, and a login that is about to commit has made     *)
(* room for its session.                                                   *)
AboutToInsert(r) == r.op = "login" /\ r.at = "commit"
BoundInv ==
  /\ \A i, j \in 1..Len(created) : created[i] = created[j] => i = j
  /\ Cardinality(rows) <= MaxSessions
  /\ \A q \in Requests : AboutToInsert(req[q]) =>
       Cardinality(rows \ req[q].doomed) <= MaxSessions - 1

(* Sets of ids are finite, and a subset has no more elements.               *)
LEMMA SubsetsOfIds ==
  ASSUME NEW S \in SUBSET Ids, NEW T \in SUBSET S
  PROVE  /\ IsFiniteSet(S) /\ Cardinality(S) \in Nat
         /\ Cardinality(T) \in Nat /\ Cardinality(T) <= Cardinality(S)
  BY IdsAssumption, FS_Subset, FS_CardinalityType

(* Rows go or stay, and no other login gets as far as its COMMIT.           *)
LEMMA BoundStays ==
  ASSUME SessionsIInv, BoundInv, rows' \subseteq rows, UNCHANGED created,
         \A q \in Requests : AboutToInsert(req'[q]) => req'[q] = req[q]
  PROVE  BoundInv'
  <1>1. rows \in SUBSET Ids /\ rows' \in SUBSET rows
    BY RowsAreIds
  <1>2. Cardinality(rows') <= MaxSessions
    BY <1>1, SubsetsOfIds, LimitsAssumption DEF BoundInv
  <1>3. ASSUME NEW q \in Requests, AboutToInsert(req'[q])
        PROVE  Cardinality(rows' \ req'[q].doomed) <= MaxSessions - 1
    <2> DEFINE S == rows \ req[q].doomed
               T == rows' \ req[q].doomed
    <2>1. S \in SUBSET Ids /\ T \in SUBSET S
      BY <1>1
    <2>2. Cardinality(S) <= MaxSessions - 1 /\ req'[q] = req[q]
      BY <1>3 DEF BoundInv
    <2> HIDE DEF S, T
    <2>3. Cardinality(T) <= Cardinality(S) /\ Cardinality(S) \in Nat /\ Cardinality(T) \in Nat
      BY <2>1, SubsetsOfIds
    <2>4. Cardinality(T) <= MaxSessions - 1
      BY <2>2, <2>3, LimitsAssumption
    <2> QED
      BY <2>2, <2>4 DEF T
  <1> QED
    BY <1>2, <1>3 DEF BoundInv

(* The trim leaves room for one session among those that are live.          *)
LEMMA TrimMakesRoom ==
  ASSUME SessionsIInv, BoundInv
  PROVE  Cardinality(LiveRows \ Surplus) <= MaxSessions - 1
  <1> DEFINE newer == [s \in LiveRows |-> {t \in LiveRows : CreatedAfter(t, s)}]
             n == MaxSessions - 1
  <1>1. n \in Nat
    BY LimitsAssumption
  <1>2. LiveRows \in SUBSET Ids /\ LiveRows \subseteq Elements(created)
    BY RowsAreIds DEF LiveRows, SessionsIInv
  <1>3. IsFiniteSet(LiveRows)
    BY <1>2, SubsetsOfIds
  <1>4. newer \in [LiveRows -> SUBSET LiveRows] /\ \A s, t \in LiveRows : t \in newer[s] <=> CreatedAfter(t, s)
    OBVIOUS
  <1>5. LiveRows \ Surplus = {s \in LiveRows : ~(Cardinality(newer[s]) >= n)}
    BY DEF Surplus
  <1> HIDE DEF newer, n
  <1>6. Len(created) \in Nat /\ \A i, j \in 1..Len(created) : created[i] = created[j] => i = j
    BY DEF SessionsIInv, BoundInv
  <1>7. \A s \in LiveRows : ~CreatedAfter(s, s)
    BY <1>6 DEF CreatedAfter
  <1>8. \A s, t \in LiveRows : s # t => CreatedAfter(t, s) \/ CreatedAfter(s, t)
    <2> SUFFICES ASSUME NEW s \in LiveRows, NEW t \in LiveRows, s # t
                 PROVE  CreatedAfter(t, s) \/ CreatedAfter(s, t)
      OBVIOUS
    <2>1. PICK i \in 1..Len(created) : created[i] = s
      BY <1>2 DEF Elements
    <2>2. PICK j \in 1..Len(created) : created[j] = t
      BY <1>2 DEF Elements
    <2>3. i > j \/ j > i
      BY <1>6, <2>1, <2>2
    <2> QED
      BY <2>1, <2>2, <2>3 DEF CreatedAfter
  <1>9. \A s, t, u \in LiveRows : CreatedAfter(t, s) /\ CreatedAfter(u, t) => CreatedAfter(u, s)
    <2> SUFFICES ASSUME NEW s \in LiveRows, NEW t \in LiveRows, NEW u \in LiveRows,
                        CreatedAfter(t, s), CreatedAfter(u, t)
                 PROVE  CreatedAfter(u, s)
      OBVIOUS
    <2>1. PICK i, j \in 1..Len(created) : i > j /\ created[i] = t /\ created[j] = s
      BY DEF CreatedAfter
    <2>2. PICK k, l \in 1..Len(created) : k > l /\ created[k] = u /\ created[l] = t
      BY DEF CreatedAfter
    <2>3. l = i
      BY <1>6, <2>1, <2>2
    <2>4. k > j
      BY <1>6, <2>1, <2>2, <2>3
    <2> QED
      BY <2>1, <2>2, <2>4 DEF CreatedAfter
  <1>10. /\ \A s \in LiveRows : s \notin newer[s]
         /\ \A s, t \in LiveRows : s # t => t \in newer[s] \/ s \in newer[t]
         /\ \A s, t \in LiveRows : t \in newer[s] => newer[t] \subseteq newer[s]
    BY <1>4, <1>7, <1>8, <1>9
  <1>11. Cardinality({s \in LiveRows : Cardinality(newer[s]) < n}) <= n
    BY ONLY <1>1, <1>3, <1>4, <1>10, FewAreNewest
  <1>12. \A s \in LiveRows : Cardinality(newer[s]) \in Nat
    BY <1>3, <1>4, FS_Subset, FS_CardinalityType
  <1>13. {s \in LiveRows : ~(Cardinality(newer[s]) >= n)} = {s \in LiveRows : Cardinality(newer[s]) < n}
    BY <1>1, <1>12
  <1> QED
    BY <1>5, <1>11, <1>13 DEF n

(* CreateSession: the trim, and the commit. *)
LEMMA BoundAtTrim ==
  ASSUME SessionsIInv, BoundInv, NEW q \in Requests, InsertAndTrim(q)
  PROVE  BoundInv'
  <1> DEFINE doomed == (rows \ LiveRows) \cup Surplus
             r == [Goto(q, "commit") EXCEPT !.doomed = doomed]
  <1>1. Became(q, r) /\ UNCHANGED <<rows, created>>
    BY DEF InsertAndTrim, table
  <1>2. rows \ doomed = LiveRows \ Surplus
    BY DEF LiveRows
  <1>3. req[q] \in Request
    BY DEF SessionsIInv
  <1>4. r.doomed = doomed
    BY <1>3 DEF Goto, Request
  <1> HIDE DEF doomed, r
  <1>5. \A p \in Requests : req'[p] = IF p = q THEN r ELSE req[p]
    BY <1>1 DEF SessionsIInv, Became
  <1>6. Cardinality(rows \ r.doomed) <= MaxSessions - 1
    BY <1>2, <1>4, TrimMakesRoom
  <1> QED
    BY <1>1, <1>5, <1>6 DEF BoundInv

(* A commit shows the one row that the trim has made room for.              *)
LEMMA BoundAtCommit ==
  ASSUME SessionsIInv, BoundInv, NEW q \in Requests, CommitSession(q)
  PROVE  BoundInv'
  <1> DEFINE s == req[q].id
             left_ == rows \ req[q].doomed
  <1>1. /\ AboutToInsert(req[q]) /\ rows' = left_ \cup {s} /\ created' = Append(created, s) /\ Finish(q)
    BY DEF CommitSession, AboutToInsert, At
  <1>2. s \in Ids \ Elements(created)
    BY <1>1 DEF AboutToInsert, SessionsIInv, RequestOK
  <1>3. Cardinality(rows') <= MaxSessions
    <2>1. left_ \in SUBSET Ids
      BY RowsAreIds
    <2>2. Cardinality(left_) <= MaxSessions - 1
      BY <1>1 DEF BoundInv
    <2> HIDE DEF left_, s
    <2>3. IsFiniteSet(left_) /\ Cardinality(left_) \in Nat
      BY <2>1, SubsetsOfIds
    <2>4. Cardinality(left_ \cup {s}) <= Cardinality(left_) + 1
      BY <2>3, FS_AddElement
    <2>5. IsFiniteSet(left_ \cup {s}) /\ Cardinality(left_ \cup {s}) \in Nat
      BY <2>3, FS_AddElement, FS_CardinalityType
    <2> QED
      BY <1>1, <2>2, <2>3, <2>4, <2>5, LimitsAssumption
  <1>4. \A p \in Requests : ~AboutToInsert(req'[p])
    <2>1. \A p \in Requests : req'[p] = IF p = q THEN Idle ELSE req[p]
      BY <1>1 DEF SessionsIInv, Finish, Became
    <2>2. ~AboutToInsert(Idle)
      BY DEF AboutToInsert, Idle
    <2>3. \A p \in Requests : AboutToInsert(req[p]) => p = q
      BY <1>1 DEF SessionsIInv, OneHolder, Holding, AboutToInsert
    <2> QED
      BY <2>1, <2>2, <2>3
  <1>5. \A i, j \in 1..Len(created') : created'[i] = created'[j] => i = j
    <2> HIDE DEF s
    <2>1. created \in Seq(Ids) /\ Len(created) \in Nat
      BY DEF SessionsIInv
    <2>2. Len(created') = Len(created) + 1
      BY <1>1, <1>2, <2>1
    <2>3. \A i \in 1..Len(created) : created'[i] = created[i] /\ created[i] # s
      BY <1>1, <1>2, <2>1 DEF Elements
    <2>4. created'[Len(created) + 1] = s
      BY <1>1, <1>2, <2>1
    <2>5. \A i \in 1..Len(created') : i \in 1..Len(created) \/ i = Len(created) + 1
      BY <2>1, <2>2
    <2> QED
      BY <2>3, <2>4, <2>5 DEF BoundInv
  <1> QED
    BY <1>3, <1>4, <1>5 DEF BoundInv

(* A step other than the two of CreateSession that insert and show a row.   *)
InsertsNothing ==
  /\ rows' \subseteq rows /\ UNCHANGED <<created, trimmed>>
  /\ \A q \in Requests : AboutToInsert(req'[q]) => req'[q] = req[q]

(* Every step is one of those two, or brings no login near its COMMIT.      *)
LEMMA OthersInsertNothing ==
  ASSUME SessionsIInv, [Next]_vars, \A q \in Requests : ~InsertAndTrim(q) /\ ~CommitSession(q)
  PROVE  InsertsNothing
  <1> USE DEF table, history
  <1>1. ASSUME NEW q \in Requests, NEW r, Became(q, r), ~AboutToInsert(r), rows' \subseteq rows, UNCHANGED <<created, trimmed>>
        PROVE  InsertsNothing
    <2>1. \A p \in Requests : req'[p] = IF p = q THEN r ELSE req[p]
      BY <1>1 DEF SessionsIInv, Became
    <2> QED
      BY <1>1, <2>1 DEF InsertsNothing
  <1>2. ASSUME rows' \subseteq rows, UNCHANGED <<created, trimmed, req>> PROVE InsertsNothing
    BY <1>2 DEF InsertsNothing
  <1>3. ~AboutToInsert(Idle)
    BY DEF AboutToInsert, Idle
  <1>4. \A q \in Requests, a \in {"upgrade", "delete"} : ~AboutToInsert(Goto(q, a))
    BY DEF SessionsIInv, Request, AboutToInsert, Goto
  <1>5. \A q \in Requests, a \in {"lock", "update"} : ~AboutToInsert(Verified(q, a))
    BY DEF SessionsIInv, Request, AboutToInsert, Verified, Goto
  <1>6. \A q \in Requests, s \in Ids : ~AboutToInsert([Goto(q, "insert") EXCEPT !.id = s])
    BY DEF SessionsIInv, Request, AboutToInsert, Goto
  <1>7. ASSUME NEW q \in Requests, VerifyLogin(q) \/ UpgradeHash(q) \/ LockUser(q) PROVE InsertsNothing
    <2>1. rows' \subseteq rows /\ UNCHANGED <<created, trimmed>>
      BY <1>7 DEF VerifyLogin, UpgradeHash, LockUser
    <2>2. \/ Became(q, Idle) \/ Became(q, Goto(q, "upgrade")) \/ Became(q, Verified(q, "lock"))
          \/ \E s \in Ids : Became(q, [Goto(q, "insert") EXCEPT !.id = s])
      BY <1>7 DEF VerifyLogin, UpgradeHash, LockUser, Finish
    <2> QED
      BY <1>1, <1>3, <1>4, <1>5, <1>6, <2>1, <2>2
  <1>8. ASSUME NEW q \in Requests, VerifyCurrent(q) \/ UpdatePassword(q) \/ CommitChange(q) \/ Fail(q)
        PROVE  InsertsNothing
    <2>1. rows' \subseteq rows /\ UNCHANGED <<created, trimmed>>
      BY <1>8 DEF VerifyCurrent, UpdatePassword, CommitChange, Deleted, Fail
    <2>2. Became(q, Idle) \/ Became(q, Verified(q, "update")) \/ Became(q, Goto(q, "delete"))
      BY <1>8 DEF VerifyCurrent, UpdatePassword, CommitChange, Fail, Finish
    <2> QED
      BY <1>1, <1>3, <1>4, <1>5, <2>1, <2>2
  <1>9. ASSUME NEW q \in Requests, DeleteOthers(q) PROVE InsertsNothing
    <2> DEFINE r == [Goto(q, "commit") EXCEPT !.doomed = rows \ {req[q].id}]
    <2>1. At(q, "change", "delete") /\ Became(q, r) /\ UNCHANGED <<rows, created, trimmed>>
      BY <1>9 DEF DeleteOthers
    <2>2. ~AboutToInsert(r)
      BY <2>1 DEF SessionsIInv, Request, AboutToInsert, Goto, At
    <2> HIDE DEF r
    <2> QED
      BY <1>1, <2>1, <2>2
  <1>10. ASSUME NEW q \in Requests, NEW g \in Passwords, FindCredentials(q, g) PROVE InsertsNothing
    <2> DEFINE r == [Idle EXCEPT !.op = "login", !.at = "verify", !.guess = g, !.hash = password]
    <2>1. Became(q, r) /\ UNCHANGED <<rows, created, trimmed>>
      BY <1>10 DEF FindCredentials
    <2>2. ~AboutToInsert(r)
      BY DEF AboutToInsert, Idle
    <2> HIDE DEF r
    <2> QED
      BY <1>1, <2>1, <2>2
  <1>11. ASSUME NEW q \in Requests, NEW s \in Ids, NEW g \in Passwords, NEW n \in Passwords, ReadHash(q, s, g, n)
         PROVE  InsertsNothing
    <2> DEFINE r == [Idle EXCEPT !.op = "change", !.at = "verify", !.id = s, !.guess = g,
                                 !.new = n, !.hash = password]
    <2>1. Became(q, r) /\ UNCHANGED <<rows, created, trimmed>>
      BY <1>11 DEF ReadHash
    <2>2. ~AboutToInsert(r)
      BY DEF AboutToInsert, Idle
    <2> HIDE DEF r
    <2> QED
      BY <1>1, <2>1, <2>2
  <1>12. ASSUME NEW q \in Requests, Serve(q) PROVE InsertsNothing
    BY <1>7, <1>8, <1>9, <1>12 DEF Serve
  <1>13. CASE \E s \in Ids : Use(s) \/ Logout(s)
    BY <1>2, <1>13 DEF Use, Logout, Deleted
  <1>14. CASE \E t, s \in Ids : Revoke(t, s)
    BY <1>2, <1>14 DEF Revoke
  <1>15. CASE DeleteExpiredSessions \/ Tick \/ UNCHANGED vars
    BY <1>2, <1>15 DEF DeleteExpiredSessions, Deleted, Tick, vars
  <1> QED
    BY <1>8, <1>10, <1>11, <1>12, <1>13, <1>14, <1>15 DEF Next

(* Every step keeps the number of live sessions within the limit.           *)
LEMMA BoundInductive == SessionsIInv /\ BoundInv /\ [Next]_vars => BoundInv'
  BY BoundAtTrim, BoundAtCommit, BoundStays, OthersInsertNothing DEF InsertsNothing

(* At first there is no session, and no login near its COMMIT.              *)
LEMMA BoundInitial == Init => Clocks /\ BoundInv
  <1> SUFFICES ASSUME Init PROVE Clocks /\ BoundInv
    OBVIOUS
  <1>1. Clocks
    BY Durations, FirstAssumption DEF Init, Clocks
  <1>2. Cardinality(rows) <= MaxSessions /\ Len(created) = 0
    BY FS_EmptySet, LimitsAssumption DEF Init
  <1>3. \A q \in Requests : ~AboutToInsert(req[q])
    BY DEF Init, Idle, AboutToInsert
  <1> QED
    BY <1>1, <1>2, <1>3 DEF BoundInv

(* A user never has more than MaxSessions sessions, however many logins     *)
(* there are at once, and every variable has its type.                     *)
THEOREM SessionsAreBounded == Spec => []SessionsInv
  <1>1. SessionsIInv /\ Clocks /\ BoundInv => SessionsInv
    BY RowsAreIds DEF SessionsIInv, PasswordOK, Clocks, BoundInv, SessionsInv, TypeOK, SessionsBounded
  <1>2. SessionsIInv /\ Clocks /\ [Next]_vars => Clocks'
    BY ClocksStep
  <1> QED
    BY BoundInitial, <1>1, <1>2, SessionsInvariant, BoundInductive, PTL DEF Spec

-----------------------------------------------------------------------------
(* A session that was used u ticks ago expires in HalfTTL - u ticks at the  *)
(* earliest: it was stamped if it had less than HalfTTL left.               *)
UsedInv ==
  \A s \in Ids : used[s] < HalfTTL =>
    s \in rows /\ age[s] <= AbsoluteTTL /\ left[s] + used[s] >= HalfTTL

(* Whoever ends a session without the user's will takes only what no longer *)
(* is in use.                                                               *)
LEMMA UsedAreLive ==
  ASSUME Clocks, UsedInv
  PROVE  UsedStaysLive
  <1> SUFFICES ASSUME NEW s \in Ids, used[s] < HalfTTL PROVE Live(s)
    BY DEF UsedStaysLive
  <1>1. left[s] \in Int /\ used[s] \in Int /\ left[s] + used[s] >= HalfTTL
    BY Durations DEF Clocks, UsedInv
  <1>2. left[s] > 0
    BY <1>1, Durations
  <1> QED
    BY <1>2 DEF UsedInv, Live

(* Each step: a use stamps, an end forgets the use, and the rest ends only  *)
(* sessions that are dead.                                                  *)
LEMMA UsedStep ==
  ASSUME SessionsIInv, Clocks, UsedInv, [Next]_vars
  PROVE  UsedInv'
  <1> USE Durations DEF table, history
  <1>0. /\ left \in [Ids -> 0..TTL] /\ age \in [Ids -> 0..AbsoluteTTL + 1] /\ used \in [Ids -> 0..HalfTTL]
        /\ \A s \in Ids : used[s] < HalfTTL => Live(s)
    BY UsedAreLive DEF Clocks, UsedStaysLive
  <1>1. ASSUME UNCHANGED <<rows, left, age, used>> PROVE UsedInv'
    BY <1>1 DEF UsedInv
  <1>2. ASSUME NEW s \in Ids, Accept(s), UNCHANGED <<rows, age>> PROVE UsedInv'
    <2>1. s \in rows /\ age[s] <= AbsoluteTTL /\ Stamped(s) >= HalfTTL
      BY <1>0, <1>2 DEF Accept, Live, Stamped
    <2>2. \A t \in Ids : /\ left'[t] = IF t = s THEN Stamped(s) ELSE left[t]
                         /\ used'[t] = IF t = s THEN 0 ELSE used[t]
      BY <1>0, <1>2 DEF Accept
    <2>3. Stamped(s) \in Int
      BY <1>0 DEF Stamped
    <2> QED
      BY <1>2, <2>1, <2>2, <2>3 DEF UsedInv
  <1>3. ASSUME NEW S, rows' = rows \ S, UNCHANGED <<left, age>> \/ Deleted(S), Ended(S) PROVE UsedInv'
    <2> SUFFICES ASSUME NEW t \in Ids, used'[t] < HalfTTL
                 PROVE  t \in rows' /\ age'[t] <= AbsoluteTTL /\ left'[t] + used'[t] >= HalfTTL
      BY DEF UsedInv
    <2>1. t \notin S /\ used'[t] = used[t]
      BY <1>3 DEF Ended
    <2>2. left'[t] = left[t] /\ age'[t] = age[t] /\ t \in rows
      BY <1>3, <2>1 DEF Deleted, UsedInv
    <2> QED
      BY <1>3, <2>1, <2>2 DEF UsedInv
  <1>4. ASSUME NEW q \in Requests, CommitSession(q) PROVE UsedInv'
    <2> DEFINE n == req[q].id
               gone == req[q].doomed
    <2>1. /\ rows' = (rows \ gone) \cup {n} /\ Ended(gone)
          /\ left' = [t \in Ids |-> IF t = n THEN TTL ELSE IF t \in gone THEN 0 ELSE left[t]]
          /\ age' = [t \in Ids |-> IF t \in gone THEN 0 ELSE age[t]]
      BY <1>4 DEF CommitSession
    <2>2. n \notin rows
      BY <1>4 DEF CommitSession, At, SessionsIInv, RequestOK
    <2> HIDE DEF n, gone
    <2> SUFFICES ASSUME NEW t \in Ids, used'[t] < HalfTTL
                 PROVE  t \in rows' /\ age'[t] <= AbsoluteTTL /\ left'[t] + used'[t] >= HalfTTL
      BY DEF UsedInv
    <2>3. t \notin gone /\ used'[t] = used[t]
      BY <2>1 DEF Ended
    <2>4. t \in rows /\ t # n
      BY <2>2, <2>3 DEF UsedInv
    <2>5. left'[t] = left[t] /\ age'[t] = age[t] /\ t \in rows'
      BY <2>1, <2>3, <2>4
    <2> QED
      BY <2>3, <2>5 DEF UsedInv
  <1>5. ASSUME NEW q \in Requests, CommitChange(q) PROVE UsedInv'
    BY <1>3, <1>5 DEF CommitChange, Deleted
  <1>6. ASSUME NEW q \in Requests, Serve(q) \/ Fail(q) PROVE UsedInv'
    BY <1>1, <1>4, <1>5, <1>6
    DEF Serve, VerifyLogin, UpgradeHash, LockUser, InsertAndTrim, VerifyCurrent, UpdatePassword, DeleteOthers, Fail
  <1>7. CASE \E q \in Requests, g \in Passwords : FindCredentials(q, g)
    BY <1>1, <1>7 DEF FindCredentials
  <1>8. CASE \E q \in Requests, s \in Ids, g, n \in Passwords : ReadHash(q, s, g, n)
    BY <1>2, <1>8 DEF ReadHash
  <1>9. CASE \E s \in Ids : Use(s)
    BY <1>2, <1>9 DEF Use
  <1>10. ASSUME NEW s \in Ids, Logout(s) PROVE UsedInv'
    BY <1>3, <1>10 DEF Logout, Deleted
  <1>11. ASSUME NEW t \in Ids, NEW s \in Ids, Revoke(t, s) PROVE UsedInv'
    <2>1. t # s /\ t \in rows /\ age[t] <= AbsoluteTTL /\ Stamped(t) >= HalfTTL /\ Stamped(t) \in Int
      BY <1>0, <1>11 DEF Revoke, Live, Stamped
    <2>2. rows' = rows \ {s}
      BY <1>11 DEF Revoke
    <2>3. \A x \in Ids : /\ used'[x] = IF x = s THEN HalfTTL ELSE IF x = t THEN 0 ELSE used[x]
                         /\ x # s => left'[x] = IF x = t THEN Stamped(t) ELSE left[x]
                         /\ x # s => age'[x] = age[x]
      BY <1>0, <1>11, <2>1 DEF Revoke
    <2> SUFFICES ASSUME NEW x \in Ids, used'[x] < HalfTTL
                 PROVE  x \in rows' /\ age'[x] <= AbsoluteTTL /\ left'[x] + used'[x] >= HalfTTL
      BY DEF UsedInv
    <2>4. x # s
      BY <2>3
    <2> QED
      BY <2>1, <2>2, <2>3, <2>4 DEF UsedInv
  <1>12. CASE DeleteExpiredSessions
    <2> DEFINE dead == rows \ LiveRows
    <2>1. Deleted(dead) /\ UNCHANGED used
      BY <1>12 DEF DeleteExpiredSessions
    <2>2. \A t \in Ids : used[t] < HalfTTL => t \notin dead
      BY <1>0 DEF LiveRows
    <2> QED
      BY <2>1, <2>2 DEF Deleted, UsedInv
  <1>13. CASE Tick
    <2> SUFFICES ASSUME NEW s \in Ids, used'[s] < HalfTTL
                 PROVE  s \in rows' /\ age'[s] <= AbsoluteTTL /\ left'[s] + used'[s] >= HalfTTL
      BY DEF UsedInv
    <2>1. PICK older \in [Ids -> Int] :
            /\ left' = [x \in Ids |-> IF left[x] > 0 THEN left[x] - 1 ELSE 0]
            /\ age' = older
            /\ used' = [x \in Ids |-> IF used[x] = HalfTTL \/ older[x] > AbsoluteTTL
                                       THEN HalfTTL ELSE used[x] + 1]
            /\ UNCHANGED rows
      BY <1>0, <1>13 DEF Tick
    <2>2. used[s] # HalfTTL /\ ~(older[s] > AbsoluteTTL) /\ used'[s] = used[s] + 1
      BY <2>1
    <2>3. used[s] < HalfTTL /\ older[s] \in Int /\ left[s] \in Int /\ used[s] \in Int
      BY <1>0, <2>1, <2>2
    <2>4. s \in rows /\ left[s] > 0 /\ left[s] + used[s] >= HalfTTL
      BY <1>0, <2>3 DEF Live, UsedInv
    <2>5. left'[s] = left[s] - 1 /\ age'[s] = older[s] /\ rows' = rows
      BY <2>1, <2>4
    <2> QED
      BY <2>2, <2>3, <2>4, <2>5
  <1>14. CASE UNCHANGED vars
    BY <1>1, <1>14 DEF vars
  <1> QED
    BY <1>6, <1>7, <1>8, <1>9, <1>10, <1>11, <1>12, <1>13, <1>14 DEF Next

(* A session that was used less than half a window ago can be used again,   *)
(* unless it was ended on purpose or has reached its absolute age.          *)
THEOREM UsedSessionsStayLive == Spec => []UsedStaysLive
  <1>1. Init => Clocks /\ UsedInv
    BY Durations, FirstAssumption DEF Init, Clocks, UsedInv
  <1>2. SessionsIInv /\ Clocks /\ UsedInv /\ [Next]_vars => Clocks' /\ UsedInv'
    BY ClocksStep, UsedStep
  <1>3. Clocks /\ UsedInv => UsedStaysLive
    BY UsedAreLive
  <1> QED
    BY <1>1, <1>2, <1>3, SessionsInvariant, PTL DEF Spec

-----------------------------------------------------------------------------
(* What the trim takes is in the table's history, and what is about to be   *)
(* pushed out has all but one of the newer logins that it takes.            *)
OldestInv ==
  /\ trimmed \subseteq Elements(created)
  /\ TrimmedAreOldest
  /\ \A q \in Requests : AboutToInsert(req[q]) =>
       \A i \in 1..Len(created) : created[i] \in req[q].doomed /\ Live(created[i]) =>
         Len(created) - i >= MaxSessions - 1

(* As many sessions are newer than the i-th as were created after it.       *)
LEMMA NewerAreFew ==
  ASSUME SessionsIInv, BoundInv, NEW i \in 1..Len(created)
  PROVE  LET N == {t \in LiveRows : CreatedAfter(t, created[i])}
         IN  Cardinality(N) \in Nat /\ Cardinality(N) <= Len(created) - i
  <1> DEFINE N == {t \in LiveRows : CreatedAfter(t, created[i])}
             place == [t \in N |-> CHOOSE j \in (i + 1)..Len(created) : created[j] = t]
  <1>1. Len(created) \in Nat /\ \A j, k \in 1..Len(created) : created[j] = created[k] => j = k
    BY DEF SessionsIInv, BoundInv
  <1>2. \A t \in N : \E j \in (i + 1)..Len(created) : created[j] = t
    <2> SUFFICES ASSUME NEW t \in N PROVE \E j \in (i + 1)..Len(created) : created[j] = t
      OBVIOUS
    <2>1. PICK j, k \in 1..Len(created) : j > k /\ created[j] = t /\ created[k] = created[i]
      BY DEF CreatedAfter
    <2>2. k = i
      BY <1>1, <2>1
    <2> QED
      BY <1>1, <2>1, <2>2
  <1>3. \A t \in N : place[t] \in (i + 1)..Len(created) /\ created[place[t]] = t
    BY <1>2
  <1>4. place \in Injection(N, (i + 1)..Len(created))
    <2>1. place \in [N -> (i + 1)..Len(created)]
      BY <1>3
    <2>2. \A t, u \in N : place[t] = place[u] => t = u
      BY <1>3
    <2> QED
      BY <2>1, <2>2 DEF Injection, IsInjective
  <1>5. /\ IsFiniteSet((i + 1)..Len(created))
        /\ Cardinality((i + 1)..Len(created)) = Len(created) - i
    <2>1. i + 1 \in Int /\ Len(created) \in Int
      BY <1>1
    <2>2. /\ IsFiniteSet((i + 1)..Len(created))
          /\ Cardinality((i + 1)..Len(created)) = IF i + 1 > Len(created) THEN 0 ELSE Len(created) - (i + 1) + 1
      BY <2>1, FS_Interval
    <2> QED
      BY <1>1, <2>2
  <1> HIDE DEF N, place
  <1>6. IsFiniteSet(N) /\ Cardinality(N) <= Cardinality((i + 1)..Len(created))
    BY <1>4, <1>5, FS_Injection
  <1>7. Cardinality(N) \in Nat /\ Cardinality(N) <= Len(created) - i
    BY <1>5, <1>6, FS_CardinalityType
  <1> QED
    BY <1>7 DEF N

(* A row that is about to be deleted is locked: nobody uses it, and it does *)
(* not come back to life.                                                  *)
LEMMA DoomedStayDead ==
  ASSUME SessionsIInv, Clocks, [Next]_vars, \A q \in Requests : ~CommitSession(q),
         NEW s \in Ids, ~RowFree(s), Live(s)'
  PROVE  Live(s)
  <1> USE DEF table, history
  <1>1. left \in [Ids -> 0..TTL] /\ age \in [Ids -> 0..AbsoluteTTL + 1]
    BY DEF Clocks
  <1>2. ASSUME UNCHANGED <<rows, left, age>> PROVE Live(s)
    BY <1>2 DEF Live
  <1>3. ASSUME NEW S, Deleted(S) PROVE Live(s)
    BY <1>3 DEF Deleted, Live
  <1>4. ASSUME NEW t \in Ids, Accept(t), UNCHANGED <<rows, age>> PROVE Live(s)
    BY <1>1, <1>4 DEF Accept, Live
  <1>5. ASSUME NEW q \in Requests, Serve(q) \/ Fail(q) PROVE Live(s)
    BY <1>2, <1>3, <1>5
    DEF Serve, VerifyLogin, UpgradeHash, LockUser, InsertAndTrim, VerifyCurrent, UpdatePassword,
        DeleteOthers, CommitChange, Fail
  <1>6. CASE \E q \in Requests, g \in Passwords : FindCredentials(q, g)
    BY <1>2, <1>6 DEF FindCredentials
  <1>7. CASE \E q \in Requests, t \in Ids, g, n \in Passwords : ReadHash(q, t, g, n)
    BY <1>4, <1>7 DEF ReadHash
  <1>8. CASE \E t \in Ids : Use(t) \/ Logout(t)
    BY <1>3, <1>4, <1>8 DEF Use, Logout
  <1>9. ASSUME NEW t \in Ids, NEW u \in Ids, Revoke(t, u) PROVE Live(s)
    <2>1. s # t /\ s # u
      BY <1>9 DEF Revoke, Live
    <2>2. left'[s] = left[s] /\ age'[s] = age[s] /\ rows' \subseteq rows
      BY <1>1, <1>9, <2>1 DEF Revoke
    <2> QED
      BY <2>2 DEF Live
  <1>10. CASE DeleteExpiredSessions
    BY <1>3, <1>10 DEF DeleteExpiredSessions
  <1>11. CASE Tick
    <2>1. \A q \in Requests : req[q].doomed = {}
      BY <1>11 DEF Tick, Idle
    <2> QED
      BY <2>1 DEF RowFree
  <1>12. CASE UNCHANGED vars
    BY <1>2, <1>12 DEF vars
  <1> QED
    BY <1>5, <1>6, <1>7, <1>8, <1>9, <1>10, <1>11, <1>12 DEF Next

(* The trim dooms live sessions with MaxSessions - 1 newer ones at least.   *)
LEMMA OldestAtTrim ==
  ASSUME SessionsIInv, BoundInv, OldestInv, NEW q \in Requests, InsertAndTrim(q)
  PROVE  OldestInv'
  <1> DEFINE doomed == (rows \ LiveRows) \cup Surplus
             r == [Goto(q, "commit") EXCEPT !.doomed = doomed]
  <1>1. Became(q, r) /\ UNCHANGED <<rows, left, age, created, trimmed>>
    BY DEF InsertAndTrim, table, history
  <1>2. \A s : Live(s)' <=> Live(s)
    BY <1>1 DEF Live
  <1>3. ASSUME NEW i \in 1..Len(created), created[i] \in doomed, Live(created[i])
        PROVE  Len(created) - i >= MaxSessions - 1
    <2>1. created[i] \in Surplus
      BY <1>3 DEF LiveRows, Live
    <2>2. Cardinality({t \in LiveRows : CreatedAfter(t, created[i])}) >= MaxSessions - 1
      BY <2>1 DEF Surplus
    <2>3. Len(created) \in Nat
      BY DEF SessionsIInv
    <2> QED
      BY <2>2, <2>3, NewerAreFew, LimitsAssumption
  <1>4. r.doomed = doomed
    BY DEF SessionsIInv, Goto, Request
  <1> HIDE DEF doomed, r
  <1>5. \A p \in Requests : req'[p] = IF p = q THEN r ELSE req[p]
    BY <1>1 DEF SessionsIInv, Became
  <1> QED
    BY <1>1, <1>2, <1>3, <1>4, <1>5 DEF OldestInv, TrimmedAreOldest

(* The commit adds the one login that was missing.                          *)
LEMMA OldestAtCommit ==
  ASSUME SessionsIInv, OldestInv, NEW q \in Requests, CommitSession(q)
  PROVE  OldestInv'
  <1> DEFINE s == req[q].id
             pushed == {t \in req[q].doomed : Live(t)}
  <1>1. /\ AboutToInsert(req[q]) /\ created' = Append(created, s) /\ Finish(q)
        /\ trimmed' = trimmed \cup pushed
    BY DEF CommitSession, AboutToInsert, At
  <1>2. s \in Ids \ Elements(created) /\ created \in Seq(Ids) /\ Len(created) \in Nat
    BY <1>1 DEF AboutToInsert, SessionsIInv, RequestOK
  <1>3. pushed \subseteq Elements(created)
    BY DEF SessionsIInv, Live
  <1>4. \A i \in 1..Len(created) : created[i] \in pushed => Len(created) - i >= MaxSessions - 1
    BY <1>1 DEF OldestInv
  <1> HIDE DEF s, pushed
  <1>5. /\ Len(created') = Len(created) + 1 /\ created'[Len(created) + 1] = s
        /\ \A i \in 1..Len(created) : created'[i] = created[i]
    BY <1>1, <1>2
  <1>6. \A i \in 1..Len(created') : i \in 1..Len(created) \/ i = Len(created) + 1
    BY <1>2, <1>5
  <1>7. trimmed' \subseteq Elements(created)
    BY <1>1, <1>3 DEF OldestInv
  <1>8. trimmed' \subseteq Elements(created')
    BY <1>2, <1>5, <1>7 DEF Elements
  <1>9. TrimmedAreOldest'
    <2> SUFFICES ASSUME NEW i \in 1..Len(created'), created'[i] \in trimmed'
                 PROVE  Len(created') - i >= MaxSessions
      BY DEF TrimmedAreOldest
    <2>1. i \in 1..Len(created) /\ created[i] \in trimmed \cup pushed
      BY <1>1, <1>2, <1>5, <1>6, <1>7
    <2>2. Len(created) - i >= MaxSessions - 1
      BY <1>2, <1>4, <2>1, LimitsAssumption DEF OldestInv, TrimmedAreOldest
    <2> QED
      BY <1>2, <1>5, <2>1, <2>2, LimitsAssumption
  <1>10. \A p \in Requests : ~AboutToInsert(req'[p])
    <2>1. \A p \in Requests : req'[p] = IF p = q THEN Idle ELSE req[p]
      BY <1>1 DEF SessionsIInv, Finish, Became
    <2>2. ~AboutToInsert(Idle)
      BY DEF AboutToInsert, Idle
    <2>3. \A p \in Requests : AboutToInsert(req[p]) => p = q
      BY <1>1 DEF SessionsIInv, OneHolder, Holding, AboutToInsert
    <2> QED
      BY <2>1, <2>2, <2>3
  <1> QED
    BY <1>8, <1>9, <1>10 DEF OldestInv

(* Every step pushes out only the oldest sessions.                          *)
LEMMA OldestInductive == SessionsIInv /\ Clocks /\ BoundInv /\ OldestInv /\ [Next]_vars => OldestInv'
  <1> SUFFICES ASSUME SessionsIInv, Clocks, BoundInv, OldestInv, [Next]_vars,
                      \A q \in Requests : ~InsertAndTrim(q) /\ ~CommitSession(q)
               PROVE  OldestInv'
    BY OldestAtTrim, OldestAtCommit
  <1>1. InsertsNothing
    BY OthersInsertNothing
  <1>2. ASSUME NEW q \in Requests, AboutToInsert(req'[q]), NEW i \in 1..Len(created),
               created[i] \in req'[q].doomed, Live(created[i])'
        PROVE  Len(created) - i >= MaxSessions - 1
    <2>1. req'[q] = req[q]
      BY <1>1, <1>2 DEF InsertsNothing
    <2>2. created[i] \in Ids /\ ~RowFree(created[i])
      BY <1>2, <2>1 DEF SessionsIInv, RowFree
    <2>3. Live(created[i])
      <3>1. PICK s \in Ids : s = created[i] /\ s = created'[i]
        BY <1>1, <2>2 DEF InsertsNothing
      <3>2. Live(s)' /\ ~RowFree(s)
        BY <1>2, <2>2, <3>1 DEF Live
      <3>3. Live(s)
        BY <3>2, DoomedStayDead
      <3> QED
        BY <3>1, <3>3
    <2> QED
      BY <1>2, <2>1, <2>3 DEF OldestInv
  <1>3. created' = created /\ trimmed' = trimmed
    BY <1>1 DEF InsertsNothing
  <1> QED
    BY <1>2, <1>3 DEF OldestInv, TrimmedAreOldest

(* A login pushes out a live session only when MaxSessions newer ones have  *)
(* been created, however many logins trim the table at once.                *)
THEOREM OldestArePushedOut == Spec => []TrimmedAreOldest
  <1>1. Init => Clocks /\ BoundInv /\ OldestInv
    <2> SUFFICES ASSUME Init PROVE OldestInv
      BY BoundInitial
    <2>1. Len(created) = 0 /\ trimmed = {}
      BY DEF Init
    <2> QED
      BY <2>1 DEF OldestInv, TrimmedAreOldest
  <1>2. SessionsIInv /\ Clocks /\ BoundInv /\ OldestInv /\ [Next]_vars => Clocks' /\ BoundInv' /\ OldestInv'
    BY ClocksStep, BoundInductive, OldestInductive
  <1>3. OldestInv => TrimmedAreOldest
    BY DEF OldestInv
  <1> QED
    BY <1>1, <1>2, <1>3, SessionsInvariant, PTL DEF Spec
=============================================================================
