------------------------------ MODULE LoginGate ------------------------------
(***************************************************************************)
(* What POST /sessions passes before and while it verifies a password: the *)
(* token bucket (RateLimit), the login throttle (CacheLoginThrottle), and   *)
(* the circuit breaker of the replica on its three database calls          *)
(* (CreateSession of the sessions handler, Service.Login).                 *)
(*                                                                         *)
(* One client address tries passwords of one email address, in several     *)
(* requests at once; every call to the cache or to the database is a step  *)
(* of its own.  A cache call can fail, whether or not the cache carried it *)
(* out (bounded by MaxMishaps); a database call can end in any way the     *)
(* breaker knows.  What a successful login writes is module Sessions.      *)
(***************************************************************************)
EXTENDS Breaker, TokenBucket, FiniteSets

CONSTANTS
  Keys,                 \* the throttle's counters: "ip" and "email"
  Limit,                \* Limit[k]: failureThreshold (5 and 50)
  Window,               \* ticks of rateLimitDuration (15 minutes)
  FailOpen,             \* RATE_LIMIT_FAIL_OPEN
  MaxMishaps            \* bound: cache calls that fail

ASSUME LimitAssumption == Limit \in [Keys -> Nat \ {0}]
ASSUME WindowAssumption == Window \in Nat \ {0}
ASSUME CallersAssumption == IsFiniteSet(Callers)
ASSUME MishapsAssumption == MaxMishaps \in Nat

VARIABLES
  failures,             \* failures[k]: the counter login:k; 0: there is none
  lasts,                \* lasts[k]: ticks until the counter expires
  req,                  \* req[q]: where the login q is
  mishaps,              \* cache calls that failed
  guesses,              \* history: passwords rejected since counter k last began anew
  began                 \* history: ticks since counter k began

throttle == <<failures, lasts>>
gateHistory == <<guesses, began>>
vars == <<bucketVars, breakerVars, throttle, req, mishaps, gateHistory>>

(* A login: how old its time stamp is while it is at the limiter, the        *)
(* counters it has yet to bump, and whether the database answered it.        *)
Step(label, answered) == [at |-> label, age |-> 0, bump |-> {}, answered |-> answered]
Idle == Step("idle", FALSE)
Login == [at : {"idle", "limit", "check", "find", "verify", "record", "upgrade", "create", "clear"},
          age : 0..MaxDelay, bump : SUBSET Keys, answered : BOOLEAN]

TypeOK ==
  /\ BucketTypeOK /\ BreakerTypeOK
  /\ failures \in [Keys -> Nat] /\ lasts \in [Keys -> 0..Window]
  /\ req \in [Callers -> Login]
  /\ mishaps \in 0..MaxMishaps
  /\ guesses \in [Keys -> Nat] /\ began \in [Keys -> 0..Window]

Init ==
  /\ BucketInit /\ BreakerInit
  /\ failures = [k \in Keys |-> 0] /\ lasts = [k \in Keys |-> 0]
  /\ req = [q \in Callers |-> Idle]
  /\ mishaps = 0
  /\ guesses = [k \in Keys |-> 0] /\ began = [k \in Keys |-> 0]

At(q, label) == req[q].at = label
Goto(q, label) == req' = [req EXCEPT ![q] = Step(label, req[q].answered)]
Finish(q) == req' = [req EXCEPT ![q] = Idle]
Mishap == mishaps < MaxMishaps /\ mishaps' = mishaps + 1

(* Counters of K are gone: deleted, or expired.                             *)
Forget(K) ==
  /\ failures' = [k \in Keys |-> IF k \in K THEN 0 ELSE failures[k]]
  /\ lasts' = [k \in Keys |-> IF k \in K THEN 0 ELSE lasts[k]]
  /\ guesses' = [k \in Keys |-> IF k \in K THEN 0 ELSE guesses[k]]
  /\ began' = [k \in Keys |-> IF k \in K THEN 0 ELSE began[k]]

-----------------------------------------------------------------------------
(* A request arrives, and the limiter reads the clock.                      *)
Arrive(q) ==
  /\ At(q, "idle")
  /\ Goto(q, "limit")
  /\ UNCHANGED <<bucketVars, breakerVars, throttle, mishaps, gateHistory>>

(* RateLimit: let through, refused with 429, or - the cache failing - with  *)
(* 503 unless the limiter is to fail open.                                  *)
PassLimit(q) ==
  /\ At(q, "limit")
  /\ \/ Take(req[q].age) /\ Goto(q, "check") /\ UNCHANGED mishaps
     \/ Deny(req[q].age) /\ Finish(q) /\ UNCHANGED mishaps
     \/ /\ Mishap
        /\ Take(req[q].age) \/ Deny(req[q].age) \/ UNCHANGED bucketVars
        /\ IF FailOpen THEN Goto(q, "check") ELSE Finish(q)
  /\ UNCHANGED <<breakerVars, throttle, gateHistory>>

(* Fault: one more than the threshold is let pass. *)
RateLimitedBeyond == \E k \in Keys : failures[k] > Limit[k]

RateLimited == \E k \in Keys : failures[k] >= Limit[k]

(* Login asks the throttle, which lets everyone pass when it fails.         *)
CheckThrottle(q) ==
  /\ At(q, "check")
  /\ \/ RateLimited /\ Finish(q) /\ UNCHANGED mishaps
     \/ ~RateLimited /\ Goto(q, "find") /\ UNCHANGED mishaps
     \/ Mishap /\ Goto(q, "find")
  /\ UNCHANGED <<bucketVars, breakerVars, throttle, gateHistory>>

(* Fault: a hash that could not be read is a password that does not match. *)
EndFindRejecting(q) ==
  /\ At(q, "find")
  /\ \/ Answered(q) /\ req' = [req EXCEPT ![q] = Step("verify", TRUE)]
     \/ Refused(q) /\ Goto(q, "verify")
     \/ Failed(q) /\ Goto(q, "verify")
  /\ UNCHANGED <<bucketVars, throttle, mishaps, gateHistory>>

(* FindLoginCredentialsByEmail, a Read: any error ends the login.           *)
EndFind(q) ==
  /\ At(q, "find")
  /\ \/ Answered(q) /\ req' = [req EXCEPT ![q] = Step("verify", TRUE)]
     \/ Refused(q) /\ Finish(q)
     \/ Failed(q) /\ Finish(q)
  /\ UNCHANGED <<bucketVars, throttle, mishaps, gateHistory>>

(* The password is verified, against a decoy if there is no such user; an   *)
(* outdated hash is to be replaced.                                         *)
Verify(q) ==
  /\ At(q, "verify")
  /\ \/ Goto(q, "upgrade") /\ UNCHANGED guesses
     \/ Goto(q, "create") /\ UNCHANGED guesses
     \/ /\ req' = [req EXCEPT ![q] = [req[q] EXCEPT !.at = "record", !.bump = Keys]]
        /\ guesses' = [k \in Keys |-> guesses[k] + 1]
  /\ UNCHANGED <<bucketVars, breakerVars, throttle, mishaps, began>>

(* recordFailureLua: the first failure sets the counter's life.             *)
Count(k) ==
  /\ failures' = [failures EXCEPT ![k] = @ + 1]
  /\ lasts' = [lasts EXCEPT ![k] = IF failures[k] = 0 THEN Window ELSE @]

(* recordLoginFailures bumps one counter after the other; errors are logged. *)
RecordFailure(q, k) ==
  /\ At(q, "record") /\ k \in req[q].bump
  /\ k = "email" => "ip" \notin req[q].bump
  /\ \/ Count(k) /\ UNCHANGED mishaps
     \/ Mishap /\ (Count(k) \/ UNCHANGED throttle)
  /\ req' = [req EXCEPT ![q] =
              IF req[q].bump = {k} THEN Idle ELSE [req[q] EXCEPT !.bump = req[q].bump \ {k}]]
  /\ UNCHANGED <<bucketVars, breakerVars, gateHistory>>

(* UpdatePasswordHash, a Write: an error is logged, and the login goes on.  *)
EndUpgrade(q) ==
  /\ At(q, "upgrade")
  /\ Answered(q) \/ Refused(q) \/ Failed(q)
  /\ Goto(q, "create")
  /\ UNCHANGED <<bucketVars, throttle, mishaps, gateHistory>>

(* Repository.CreateSession, a Write.                                       *)
EndCreate(q) ==
  /\ At(q, "create")
  /\ \/ Answered(q) /\ Goto(q, "clear")
     \/ Refused(q) /\ Finish(q)
     \/ Failed(q) /\ Finish(q)
  /\ UNCHANGED <<bucketVars, throttle, mishaps, gateHistory>>

(* A database call: the breaker lets it begin, or the login ends with        *)
(* ErrUnavailable; but for the upgrade, which is let be.                     *)
Attempts(q) == IF At(q, "find") THEN MaxAttempts ELSE 1
CallDatabase(q) ==
  /\ At(q, "find") \/ At(q, "upgrade") \/ At(q, "create")
  /\ \/ Begin(q, Attempts(q)) /\ UNCHANGED req
     \/ TurnAway(q) /\ At(q, "upgrade") /\ Goto(q, "create")
     \/ TurnAway(q) /\ ~At(q, "upgrade") /\ Finish(q)
     \/ Retry(q) /\ UNCHANGED req
  /\ UNCHANGED <<bucketVars, throttle, mishaps, gateHistory>>

(* Clear, after a login that succeeded.                                     *)
ClearThrottle(q) ==
  /\ At(q, "clear")
  /\ Finish(q)
  /\ \/ Forget(Keys) /\ UNCHANGED mishaps
     \/ Mishap /\ (Forget(Keys) \/ UNCHANGED <<throttle, gateHistory>>)
  /\ UNCHANGED <<bucketVars, breakerVars>>

(* Time passes.  A call to the limiter is under way for MaxDelay at most.   *)
Tick ==
  /\ RefillTick /\ Cool
  /\ \A q \in Callers : At(q, "limit") => req[q].age < MaxDelay
  /\ req' = [q \in Callers |-> IF At(q, "limit") THEN [req[q] EXCEPT !.age = @ + 1] ELSE req[q]]
  /\ failures' = [k \in Keys |-> IF lasts[k] <= 1 THEN 0 ELSE failures[k]]
  /\ lasts' = [k \in Keys |-> IF lasts[k] = 0 THEN 0 ELSE lasts[k] - 1]
  /\ guesses' = [k \in Keys |-> IF lasts[k] = 1 THEN 0 ELSE guesses[k]]
  /\ began' = [k \in Keys |-> IF lasts[k] <= 1 THEN 0 ELSE began[k] + 1]
  /\ UNCHANGED mishaps

Next ==
  \/ \E q \in Callers :
       \/ Arrive(q) \/ PassLimit(q) \/ CheckThrottle(q) \/ CallDatabase(q) \/ EndFind(q)
       \/ Verify(q) \/ EndUpgrade(q) \/ EndCreate(q) \/ ClearThrottle(q)
       \/ \E k \in Keys : RecordFailure(q, k)
  \/ Tick

Spec == Init /\ [][Next]_vars

-----------------------------------------------------------------------------
(* Of the passwords of one address, or for one account, no more than the    *)
(* threshold allows are verified while a counter lives: logins that read    *)
(* the counters at the same time can exceed it by as many as they are, and  *)
(* each cache call that fails by one.                                       *)
GuessesBounded ==
  \A k \in Keys : guesses[k] <= Limit[k] - 1 + Cardinality(Callers) + mishaps

(* A lockout ends: a counter is there for Window from its first failure and *)
(* not a tick longer, however many failures follow.                         *)
LockoutEnds == \A k \in Keys : failures[k] > 0 => lasts[k] > 0 /\ began[k] + lasts[k] <= Window

(* Types, and the two promises of the throttle: guesses are bounded, and a *)
(* lockout ends.                                                           *)
GateInv == TypeOK /\ GuessesBounded /\ LockoutEnds

(* An outage locks nobody out: only a login whose user the database was     *)
(* asked for, and answered about, counts as a failed one.                   *)
OnlyAnsweredCount ==
  [][\A k \in Keys : failures'[k] > failures[k] =>
       \E q \in Callers : At(q, "record") /\ req[q].answered]_vars
=============================================================================
