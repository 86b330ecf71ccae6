-------------------------- MODULE ResilienceProofs --------------------------
(***************************************************************************)
(* What keeps a replica upright, and what it tells about itself: the       *)
(* circuit breaker, the rate limiter, the login that uses both, and the    *)
(* readiness probe.                                                        *)
(*                                                                         *)
(* The breaker, for any number of callers and any threshold and cooldown:  *)
(* the inductive invariant is BreakerInv - until the circuit closes, the   *)
(* count stays at the threshold, and openedAt is the time of the last      *)
(* failure.  The limiter, for every policy, every lateness of the calls    *)
(* and any interleaving of them: BucketInv says that what the bucket could *)
(* give away, now or when it will have expired, is covered by the ideal    *)
(* meter's credit.                                                         *)
(*                                                                         *)
(* The login: each of its steps is a step of the breaker or leaves it      *)
(* alone, and the same for the bucket, so that what is proved about those  *)
(* two holds of the login; and what is about the throttle alone.  All for  *)
(* any number of requests, any thresholds and windows, and any number of   *)
(* failing calls.                                                          *)
(*                                                                         *)
(* The probe, for any number of pipelines, any windows and any timeouts,   *)
(* whatever fails or hangs: a pipeline that is lost shows, and none is     *)
(* reported without a reason.                                              *)
(***************************************************************************)
EXTENDS LoginGate, Monitor, FiniteSetTheorems, TLAPS

USE ThresholdAssumption, CooldownAssumption, AttemptsAssumption

(* Counting up to a limit stays within it.                                  *)
LEMMA UpToBounds ==
  ASSUME NEW limit \in Nat, NEW n \in Nat
  PROVE  /\ UpTo(limit, n) \in 0..limit
         /\ n < limit => UpTo(limit, n) = n
         /\ n >= limit => UpTo(limit, n) = limit
  BY DEF UpTo

(* A new breaker is closed and has counted nothing.                         *)
LEMMA BreakerInitial == BreakerInit => BreakerInv
  BY DEF BreakerInit, BreakerInv, BreakerTypeOK, CircuitTellsFailures

(* The report of a failed call.                                            *)
LEMMA FailedInductive ==
  ASSUME NEW c \in Callers, BreakerInv, Failed(c)
  PROVE  BreakerInv'
  <1> USE DEF BreakerInv, BreakerTypeOK, CircuitTellsFailures, Failed, EndCall, Failure
  <1>1. /\ errors + 1 \in Nat /\ Threshold \in Nat /\ 0 \in 0..Cooldown
        /\ tries' \in [Callers -> 0..MaxAttempts]
    OBVIOUS
  <1>2. errors' \in 0..Threshold /\ errors' = streak'
    BY <1>1, UpToBounds
  <1>3. errors = Threshold => errors' = Threshold
    BY <1>1, UpToBounds
  <1>4. CASE circuit = "half_open" \/ errors' >= Threshold
    <2>1. errors' >= Threshold
      BY <1>3, <1>4
    <2> QED
      BY <1>1, <1>2, <1>4, <2>1
  <1>5. CASE ~(circuit = "half_open" \/ errors' >= Threshold)
    <2>1. circuit = "closed"
      BY <1>3, <1>5
    <2> QED
      BY <1>1, <1>2, <1>5, <2>1
  <1> QED
    BY <1>4, <1>5

(* The passing of the cooldown keeps the invariant.                         *)
LEMMA CoolInductive ==
  ASSUME BreakerInv, Cool
  PROVE  BreakerInv'
  <1> USE DEF BreakerInv, BreakerTypeOK, CircuitTellsFailures, Cool
  <1>1. openedFor + 1 \in Nat /\ quietFor + 1 \in Nat
    OBVIOUS
  <1>2. openedFor' \in 0..Cooldown /\ quietFor' \in 0..Cooldown
    BY <1>1, UpToBounds
  <1>3. quietFor >= Cooldown => quietFor' >= Cooldown
    BY <1>1, UpToBounds
  <1> QED
    BY <1>2, <1>3

(* Every step of an operation on the database, and of time, keeps it.       *)
LEMMA BreakerInductive == BreakerInv /\ [BreakerNext]_breakerVars => BreakerInv'
  <1> SUFFICES ASSUME BreakerInv, [BreakerNext]_breakerVars
               PROVE  BreakerInv'
    OBVIOUS
  <1> USE DEF BreakerInv, BreakerTypeOK, CircuitTellsFailures
  <1>1. ASSUME NEW c \in Callers, NEW n \in {1, MaxAttempts}, Begin(c, n)
        PROVE  BreakerInv'
    BY <1>1 DEF Begin, Allowed, breakerHistory
  <1>2. ASSUME NEW c \in Callers, TurnAway(c)
        PROVE  BreakerInv'
    BY <1>2 DEF TurnAway, breakerVars, breaker, breakerHistory
  <1>3. ASSUME NEW c \in Callers, Answered(c)
        PROVE  BreakerInv'
    BY <1>3 DEF Answered, EndCall, Success
  <1>4. ASSUME NEW c \in Callers, Refused(c)
        PROVE  BreakerInv'
    BY <1>4 DEF Refused, EndCall, breaker, breakerHistory
  <1>5. ASSUME NEW c \in Callers, Retry(c)
        PROVE  BreakerInv'
    BY <1>5 DEF Retry, breaker, breakerHistory
  <1>6. ASSUME NEW c \in Callers, Failed(c)
        PROVE  BreakerInv'
    BY <1>6, FailedInductive
  <1>7. CASE Cool
    BY <1>7, CoolInductive
  <1>8. CASE UNCHANGED breakerVars
    BY <1>8 DEF breakerVars, breaker, breakerHistory
  <1> QED
    BY <1>1, <1>2, <1>3, <1>4, <1>5, <1>6, <1>7, <1>8 DEF BreakerNext

(* Type correctness and why the properties hold.                           *)
THEOREM BreakerInvariant == BreakerSpec => []BreakerInv
  BY BreakerInitial, BreakerInductive, PTL DEF BreakerSpec

(* The circuit is closed exactly while fewer than Threshold calls in a row *)
(* have failed, for any number of overlapping calls (CircuitBreaker).      *)
THEOREM CircuitTells == BreakerSpec => []CircuitTellsFailures
  <1>1. BreakerInv => CircuitTellsFailures
    BY DEF BreakerInv
  <1> QED
    BY <1>1, BreakerInvariant, PTL

(* Only Begin lets a call through, and Allow asks for the cooldown.        *)
LEMMA LetThroughBegins ==
  ASSUME BreakerInv, BreakerNext, NEW c \in Callers, LetThrough(c)
  PROVE  Allowed
  <1>1. ASSUME NEW d \in Callers, NEW n \in {1, MaxAttempts}, Begin(d, n)
        PROVE  Allowed
    BY <1>1 DEF Begin
  <1>2. ASSUME NEW d \in Callers, TurnAway(d) \/ Answered(d) \/ Refused(d) \/ Retry(d) \/ Failed(d)
        PROVE  FALSE
    <2>1. tries' = tries \/ tries' = [tries EXCEPT ![d] = 0]
          \/ (tries[d] > 1 /\ tries' = [tries EXCEPT ![d] = @ - 1])
      BY <1>2 DEF TurnAway, Answered, Refused, Retry, Failed, EndCall, breakerVars
    <2> QED
      BY <2>1 DEF BreakerInv, BreakerTypeOK, LetThrough
  <1>3. CASE Cool
    BY <1>3 DEF Cool, LetThrough, BreakerInv, BreakerTypeOK
  <1> QED
    BY <1>1, <1>2, <1>3 DEF BreakerNext

(* After Threshold failures in a row nobody is let through until none has  *)
(* failed for Cooldown.                                                    *)
THEOREM DatabaseIsLeftAlone == BreakerSpec => LeavesDatabaseAlone
  <1>1. BreakerInv /\ [BreakerNext]_breakerVars =>
          [\A c \in Callers : LetThrough(c) => streak < Threshold \/ quietFor >= Cooldown]_breakerVars
    <2> SUFFICES ASSUME BreakerInv, BreakerNext, NEW c \in Callers, LetThrough(c)
                 PROVE  streak < Threshold \/ quietFor >= Cooldown
      OBVIOUS
    <2>1. circuit = "open" => openedFor >= Cooldown
      BY LetThroughBegins DEF Allowed
    <2> QED
      BY <2>1 DEF BreakerInv, BreakerTypeOK, CircuitTellsFailures
  <1> QED
    BY <1>1, BreakerInvariant, PTL DEF BreakerSpec, LeavesDatabaseAlone

-----------------------------------------------------------------------------
(* The rate limiter.                                                       *)
USE BurstAssumption, PeriodAssumption, SecondAssumption, DelayAssumption

(* Whole tokens never stand for more time than has passed.                 *)
LEMMA Division ==
  ASSUME NEW n \in Nat, NEW d \in Nat \ {0}
  PROVE  /\ n \div d \in Nat
         /\ (n \div d) * d <= n
         /\ n >= d => n \div d >= 1
  BY Z3

(* A product of numbers is one, and grows with its factor.                  *)
LEMMA Products ==
  ASSUME NEW m \in Nat, NEW n \in Nat, NEW d \in Nat
  PROVE  /\ m * d \in Nat
         /\ m <= n => m * d <= n * d
         /\ (m + n) * d = m * d + n * d
         /\ (m - 1) * d = m * d - d
  BY Z3

(* A full bucket, and its lifetime in the cache, are numbers in order.      *)
LEMMA FullIsNat == Full \in Nat /\ Lifetime \in Nat /\ Full >= Period /\ Lifetime >= Full
  <1>1. Burst * Period \in Nat /\ Burst * Period >= Period
    BY Products, Z3
  <1> QED
    BY <1>1 DEF Full, Lifetime

(* The refill that the script computes is never negative.                   *)
LEMMA RefillBounds ==
  ASSUME BucketTypeOK, NEW a \in 0..MaxDelay
  PROVE  /\ Refill(a) \in Nat
         /\ since > a => Refill(a) * Period <= since - a
         /\ since <= a => Refill(a) = 0
         /\ since - a >= Period => Refill(a) >= 1
  <1>1. CASE since > a
    <2>1. since - a \in Nat
      BY <1>1, FullIsNat DEF BucketTypeOK
    <2> QED
      BY <1>1, <2>1, Division, FullIsNat DEF Refill, BucketTypeOK
  <1>2. CASE since <= a
    BY <1>2, FullIsNat DEF Refill, BucketTypeOK
  <1> QED
    BY <1>1, <1>2, FullIsNat DEF BucketTypeOK

(* The bucket never shows more tokens than its burst.                       *)
LEMMA AvailableBounds ==
  ASSUME BucketTypeOK, NEW a \in 0..MaxDelay
  PROVE  /\ Available(a) \in 0..Burst
         /\ expiry > 0 => Available(a) <= tokens + Refill(a)
  BY RefillBounds, FullIsNat DEF Available, AtMost, BucketTypeOK

(* A new bucket is full, and so is the ideal meter.                         *)
LEMMA BucketInitial == BucketInit => BucketInv
  BY FullIsNat DEF BucketInit, BucketInv, BucketTypeOK, AdmittedWithinRate, Smaller, Lifetime

(* One token is taken: what is left is covered by what is left of the      *)
(* credit.                                                                 *)
LEMMA TakeCovered ==
  ASSUME BucketInv, NEW a \in 0..MaxDelay, Available(a) > 0
  PROVE  credit - Period + a >= (Available(a) - 1) * Period + a
  <1> DEFINE n == Available(a)
  <1>1. n \in 1..Burst /\ n * Period \in Nat /\ (n - 1) * Period = n * Period - Period
    BY AvailableBounds, Products DEF BucketInv
  <1>2. n * Period <= Full
    BY <1>1, Products DEF Full
  <1>3. credit \in Int
    BY DEF BucketInv, BucketTypeOK
  <1>4. credit >= n * Period
    <2>1. CASE credit >= Full
      BY <1>1, <1>2, <1>3, <2>1, FullIsNat
    <2>2. CASE credit < Full
      <3>1. expiry > 0
        BY <2>2, FullIsNat DEF BucketInv, BucketTypeOK, Smaller, Lifetime
      <3>2. credit >= tokens * Period + since
        BY <2>2, <3>1, FullIsNat DEF BucketInv, BucketTypeOK, Smaller, Potential
      <3>3. tokens \in Nat /\ Refill(a) \in Nat /\ n <= tokens + Refill(a)
        BY <3>1, RefillBounds, AvailableBounds DEF BucketInv, BucketTypeOK
      <3>4. n * Period <= tokens * Period + Refill(a) * Period
        BY <1>1, <3>3, Products
      <3>5. tokens * Period \in Nat /\ Refill(a) * Period \in Nat /\ since \in Nat
        BY <3>3, Products, FullIsNat DEF BucketInv, BucketTypeOK
      <3>6. CASE since > a
        BY <1>1, <1>3, <3>2, <3>4, <3>5, <3>6, RefillBounds DEF BucketInv
      <3>7. CASE since <= a
        <4>1. Refill(a) * Period = 0
          BY <3>7, RefillBounds DEF BucketInv
        <4> QED
          BY <1>1, <1>3, <3>2, <3>4, <3>5, <4>1
      <3> QED
        BY <3>5, <3>6, <3>7
    <2> QED
      BY <1>3, <2>1, <2>2, FullIsNat
  <1> QED
    BY <1>1, <1>3, <1>4

(* An admitted request keeps the invariant: the meter pays for its token.   *)
LEMMA TakeInductive ==
  ASSUME BucketInv, NEW a \in 0..MaxDelay, Take(a)
  PROVE  BucketInv'
  <1>1. Available(a) - 1 \in 0..Burst /\ (Available(a) - 1) * Period \in Nat
    BY AvailableBounds, Products DEF Take, BucketInv
  <1>2. credit' >= tokens' * Period + since' /\ tokens' * Period \in Nat /\ credit' \in Int
    BY <1>1, TakeCovered DEF Take, BucketInv, BucketTypeOK
  <1>3. BucketTypeOK'
    BY <1>1, <1>2, FullIsNat DEF Take, BucketTypeOK
  <1>4. credit' >= 0 /\ credit' >= Potential'
    BY <1>2 DEF Take, Potential
  <1> QED
    BY <1>2, <1>3, <1>4, FullIsNat DEF Take, BucketInv, AdmittedWithinRate, Smaller, Potential

(* A denied request keeps it: the bucket stays as it is.                   *)
LEMMA DenyInductive ==
  ASSUME BucketInv, NEW a \in 0..MaxDelay, Deny(a)
  PROVE  BucketInv'
  <1>1. expiry > 0
    BY FullIsNat DEF Deny, Available, BucketInv, BucketTypeOK
  <1> QED
    BY <1>1, FullIsNat DEF Deny, bucket, BucketInv, BucketTypeOK, AdmittedWithinRate, Smaller, Potential

(* The passing of time keeps it.                                            *)
LEMMA TickInductive ==
  ASSUME BucketInv, RefillTick
  PROVE  BucketInv'
  <1>1. CASE expiry > 1
    <2>1. tokens' * Period = tokens * Period /\ tokens * Period \in Nat
      BY <1>1, Products DEF RefillTick, BucketInv, BucketTypeOK
    <2>2. BucketTypeOK'
      BY <1>1, FullIsNat DEF RefillTick, BucketInv, BucketTypeOK
    <2> QED
      BY <1>1, <2>1, <2>2, FullIsNat
      DEF RefillTick, BucketInv, BucketTypeOK, AdmittedWithinRate, Smaller, Potential
  <1>2. CASE expiry <= 1
    <2>1. BucketTypeOK' /\ expiry' = 0 /\ since' = 0 /\ waited' = -1
      BY <1>2, FullIsNat DEF RefillTick, BucketInv, BucketTypeOK
    <2>2. credit' >= Full
      BY <1>2, FullIsNat DEF RefillTick, BucketInv, BucketTypeOK, Smaller, Lifetime
    <2> QED
      BY <2>1, <2>2, FullIsNat DEF BucketInv, BucketTypeOK, AdmittedWithinRate, Smaller
  <1> QED
    BY <1>1, <1>2, FullIsNat DEF BucketInv, BucketTypeOK

(* Every step of the bucket keeps the invariant.                            *)
LEMMA BucketInductive == BucketInv /\ [BucketNext]_bucketVars => BucketInv'
  <1> SUFFICES ASSUME BucketInv, [BucketNext]_bucketVars
               PROVE  BucketInv'
    OBVIOUS
  <1>1. CASE UNCHANGED bucketVars
    BY <1>1 DEF bucketVars, bucket, bucketHistory, BucketInv, BucketTypeOK, AdmittedWithinRate, Potential
  <1> QED
    BY <1>1, TakeInductive, DenyInductive, TickInductive DEF BucketNext

(* Type correctness and why the properties hold.                           *)
THEOREM BucketInvariant == BucketSpec => []BucketInv
  BY BucketInitial, BucketInductive, PTL DEF BucketSpec

(* No policy of tokenBucketLua ever admits more than its ideal meter, the  *)
(* lateness of the calls given back.                                       *)
THEOREM RateIsKept == BucketSpec => []AdmittedWithinRate
  <1>1. BucketInv => AdmittedWithinRate
    BY DEF BucketInv
  <1> QED
    BY <1>1, BucketInvariant, PTL

(* Where the Retry-After header is not rounded below the period of the     *)
(* policy, a client that obeys it finds a token.                           *)
THEOREM RetryAfterIsEnough ==
  ASSUME RetryAfter >= Period
  PROVE  BucketSpec => []RetryAfterSuffices
  <1>1. BucketInv => RetryAfterSuffices
    <2> SUFFICES ASSUME BucketInv, NEW a \in 0..MaxDelay,
                        waited - a >= RetryAfter
                 PROVE  Available(a) > 0
      BY DEF RetryAfterSuffices
    <2>1. since - a >= Period
      <3>1. RetryAfter \in Int
        BY Z3 DEF RetryAfter
      <3> QED
        BY <3>1, FullIsNat DEF BucketInv, BucketTypeOK
    <2>2. Refill(a) \in Nat /\ Refill(a) >= 1
      BY <2>1, RefillBounds DEF BucketInv
    <2> QED
      BY <2>2, FullIsNat DEF Available, AtMost, BucketInv, BucketTypeOK
  <1> QED
    BY <1>1, BucketInvariant, PTL

-----------------------------------------------------------------------------
(* The login.                                                              *)
USE WindowAssumption

(* A login that verifies a password, or counts a failure, was answered by  *)
(* the database.                                                           *)
ReqInv ==
  /\ req \in [Callers -> Login]
  /\ \A q \in Callers : req[q].at \in {"verify", "record"} => req[q].answered

(* No login is under way at first.                                          *)
LEMMA ReqInitial == Init => ReqInv
  BY DEF Init, ReqInv, Idle, Step, Login

(* Where a login goes next.                                                *)
LEMMA GotoKeeps ==
  ASSUME ReqInv, NEW q \in Callers,
         NEW label \in {"limit", "check", "find", "upgrade", "create", "clear"}, Goto(q, label)
  PROVE  ReqInv'
  <1> DEFINE next == Step(label, req[q].answered)
  <1>1. req[q].answered \in BOOLEAN
    BY DEF Login, ReqInv
  <1>2. req' = [req EXCEPT ![q] = next]
    BY DEF Goto
  <1>3. next \in Login /\ next.at \notin {"verify", "record"}
    BY <1>1 DEF Step, Login
  <1> HIDE DEF next
  <1>4. req' \in [Callers -> Login]
    BY <1>2, <1>3 DEF ReqInv
  <1>5. ASSUME NEW p \in Callers, req'[p].at \in {"verify", "record"}
        PROVE  req'[p].answered
    <2>1. p # q /\ req'[p] = req[p]
      BY <1>2, <1>3, <1>5 DEF ReqInv
    <2> QED
      BY <1>5, <2>1, Zenon DEF ReqInv
  <1> QED
    BY <1>4, <1>5, Zenon DEF ReqInv

(* A login that is answered leaves only its state behind.                   *)
LEMMA FinishKeeps ==
  ASSUME ReqInv, NEW q \in Callers, Finish(q)
  PROVE  ReqInv'
  BY DEF Finish, ReqInv, Idle, Step, Login

(* Every step keeps the shape of the logins under way ...                   *)
LEMMA ReqInductive == ReqInv /\ [Next]_vars => ReqInv'
  <1> SUFFICES ASSUME ReqInv, [Next]_vars
               PROVE  ReqInv'
    OBVIOUS
  <1>1. ASSUME NEW q \in Callers, Arrive(q) PROVE ReqInv'
    BY <1>1, GotoKeeps DEF Arrive
  <1>2. ASSUME NEW q \in Callers, PassLimit(q) PROVE ReqInv'
    BY <1>2, GotoKeeps, FinishKeeps DEF PassLimit
  <1>3. ASSUME NEW q \in Callers, CheckThrottle(q) PROVE ReqInv'
    BY <1>3, GotoKeeps, FinishKeeps DEF CheckThrottle
  <1>4. ASSUME NEW q \in Callers, CallDatabase(q) PROVE ReqInv'
    BY <1>4, GotoKeeps, FinishKeeps DEF CallDatabase, ReqInv
  <1>5. ASSUME NEW q \in Callers, EndFind(q) PROVE ReqInv'
    <2>1. CASE req' = [req EXCEPT ![q] = Step("verify", TRUE)]
      <3> DEFINE next == Step("verify", TRUE)
      <3>1. req' = [req EXCEPT ![q] = next] /\ next \in Login /\ next.answered
        BY <2>1 DEF Step, Login
      <3> HIDE DEF next
      <3>2. req' \in [Callers -> Login]
        BY <3>1 DEF ReqInv
      <3>3. ASSUME NEW p \in Callers, req'[p].at \in {"verify", "record"}
            PROVE  req'[p].answered
        <4>1. CASE p = q
          <5>1. req'[p] = next
            BY <3>1, <4>1 DEF ReqInv
          <5> QED
            BY <3>1, <5>1, Zenon
        <4>2. CASE p # q
          <5>1. req'[p] = req[p]
            BY <3>1, <4>2 DEF ReqInv
          <5> QED
            BY <3>3, <5>1, Zenon DEF ReqInv
        <4> QED
          BY <4>1, <4>2
      <3> QED
        BY <3>2, <3>3, Zenon DEF ReqInv
    <2> QED
      BY <1>5, <2>1, FinishKeeps DEF EndFind
  <1>6. ASSUME NEW q \in Callers, Verify(q) PROVE ReqInv'
    <2>1. CASE Goto(q, "upgrade") \/ Goto(q, "create")
      BY <2>1, GotoKeeps
    <2>2. CASE req' = [req EXCEPT ![q] = [req[q] EXCEPT !.at = "record", !.bump = Keys]]
      BY <1>6, <2>2 DEF ReqInv, Login, Verify, At
    <2> QED
      BY <1>6, <2>1, <2>2 DEF Verify
  <1>7. ASSUME NEW q \in Callers, NEW k \in Keys, RecordFailure(q, k) PROVE ReqInv'
    BY <1>7 DEF RecordFailure, ReqInv, Idle, Step, Login
  <1>8. ASSUME NEW q \in Callers, EndUpgrade(q) \/ EndCreate(q) PROVE ReqInv'
    BY <1>8, GotoKeeps, FinishKeeps DEF EndUpgrade, EndCreate
  <1>9. ASSUME NEW q \in Callers, ClearThrottle(q) PROVE ReqInv'
    BY <1>9, FinishKeeps DEF ClearThrottle
  <1>10. CASE Tick
    BY <1>10 DEF Tick, At, ReqInv, Login
  <1>11. CASE UNCHANGED vars
    BY <1>11 DEF vars, ReqInv
  <1> QED
    BY <1>1, <1>2, <1>3, <1>4, <1>5, <1>6, <1>7, <1>8, <1>9, <1>10, <1>11 DEF Next

(* ... so they have it always.                                              *)
LEMMA ReqInvariant == Spec => []ReqInv
  BY ReqInitial, ReqInductive, PTL DEF Spec

-----------------------------------------------------------------------------
(* Every step of the login is a step of the breaker, or none.              *)
LEMMA StepsOfBreaker == [Next]_vars => [BreakerNext]_breakerVars
  <1> SUFFICES ASSUME Next
               PROVE  BreakerNext \/ UNCHANGED breakerVars
    BY DEF vars
  <1>1. ASSUME NEW q \in Callers, CallDatabase(q)
        PROVE  BreakerNext
    BY <1>1 DEF CallDatabase, Attempts, BreakerNext
  <1>2. ASSUME NEW q \in Callers, EndFind(q) \/ EndUpgrade(q) \/ EndCreate(q)
        PROVE  BreakerNext
    BY <1>2 DEF EndFind, EndUpgrade, EndCreate, BreakerNext
  <1>3. ASSUME NEW q \in Callers,
               Arrive(q) \/ PassLimit(q) \/ CheckThrottle(q) \/ Verify(q) \/ ClearThrottle(q)
        PROVE  UNCHANGED breakerVars
    BY <1>3 DEF Arrive, PassLimit, CheckThrottle, Verify, ClearThrottle
  <1>4. ASSUME NEW q \in Callers, NEW k \in Keys, RecordFailure(q, k)
        PROVE  UNCHANGED breakerVars
    BY <1>4 DEF RecordFailure
  <1>5. CASE Tick
    BY <1>5 DEF Tick, BreakerNext
  <1> QED
    BY <1>1, <1>2, <1>3, <1>4, <1>5 DEF Next

(* The login uses the breaker as BreakerSpec has it (DB.Read, DB.Write).   *)
THEOREM UsesBreaker == Spec => BreakerSpec
  <1>1. Init => BreakerInit
    BY DEF Init
  <1> QED
    BY <1>1, StepsOfBreaker, PTL DEF Spec, BreakerSpec

(* So the circuit of a replica that serves logins tells its failures, and  *)
(* leaves a failing database alone.                                        *)
THEOREM LoginCircuit == Spec => []CircuitTellsFailures /\ LeavesDatabaseAlone
  BY UsesBreaker, CircuitTells, DatabaseIsLeftAlone, PTL

-----------------------------------------------------------------------------
(* Every step of the login is a step of the bucket, or none.               *)
LEMMA StepsOfBucket == ReqInv /\ [Next]_vars => [BucketNext]_bucketVars
  <1> SUFFICES ASSUME ReqInv, Next
               PROVE  BucketNext \/ UNCHANGED bucketVars
    BY DEF vars
  <1>1. ASSUME NEW q \in Callers, PassLimit(q)
        PROVE  BucketNext \/ UNCHANGED bucketVars
    <2>1. req[q].age \in 0..MaxDelay
      BY DEF ReqInv, Login
    <2> QED
      BY <1>1, <2>1 DEF PassLimit, BucketNext
  <1>2. ASSUME NEW q \in Callers,
               \/ Arrive(q) \/ CheckThrottle(q) \/ CallDatabase(q) \/ EndFind(q)
               \/ Verify(q) \/ EndUpgrade(q) \/ EndCreate(q) \/ ClearThrottle(q)
        PROVE  UNCHANGED bucketVars
    BY <1>2 DEF Arrive, CheckThrottle, CallDatabase, EndFind, Verify, EndUpgrade, EndCreate, ClearThrottle
  <1>3. ASSUME NEW q \in Callers, NEW k \in Keys, RecordFailure(q, k)
        PROVE  UNCHANGED bucketVars
    BY <1>3 DEF RecordFailure
  <1>4. CASE Tick
    BY <1>4 DEF Tick, BucketNext
  <1> QED
    BY <1>1, <1>2, <1>3, <1>4 DEF Next

(* The login uses the bucket as BucketSpec has it (RateLimit).             *)
THEOREM UsesBucket == Spec => BucketSpec
  <1>1. Init => BucketInit
    BY DEF Init
  <1> QED
    BY <1>1, StepsOfBucket, ReqInvariant, PTL DEF Spec, BucketSpec

(* So logins are admitted within the rate of their policy.                 *)
THEOREM LoginRate == Spec => []AdmittedWithinRate
  BY UsesBucket, RateIsKept, PTL

-----------------------------------------------------------------------------
(* The two counters of the throttle, and why LockoutEnds holds: only the   *)
(* first failure sets how long a counter lives.                            *)
ThrottleInv ==
  /\ failures \in [Keys -> Nat] /\ lasts \in [Keys -> 0..Window] /\ began \in [Keys -> 0..Window]
  /\ \A k \in Keys : failures[k] = 0 => lasts[k] = 0 /\ began[k] = 0
  /\ LockoutEnds

(* No failed login is counted at first.                                     *)
LEMMA CountersInitial == Init => ThrottleInv
  BY DEF Init, ThrottleInv, LockoutEnds

(* recordFailure keeps the expiry of a counter within Window.               *)
LEMMA CountKeeps ==
  ASSUME ThrottleInv, NEW k \in Keys, Count(k), UNCHANGED began
  PROVE  ThrottleInv'
  BY DEF Count, ThrottleInv, LockoutEnds

(* A counter that expires, is cleared or is lost leaves nothing.            *)
LEMMA ForgetKeeps ==
  ASSUME ThrottleInv, NEW K, Forget(K)
  PROVE  ThrottleInv'
  BY DEF Forget, ThrottleInv, LockoutEnds

(* Every step keeps the age of the counters within Window ...               *)
LEMMA CountersInductive == ThrottleInv /\ [Next]_vars => ThrottleInv'
  <1> SUFFICES ASSUME ThrottleInv, [Next]_vars
               PROVE  ThrottleInv'
    OBVIOUS
  <1>1. ASSUME NEW q \in Callers,
               \/ Arrive(q) \/ PassLimit(q) \/ CheckThrottle(q) \/ CallDatabase(q)
               \/ EndFind(q) \/ Verify(q) \/ EndUpgrade(q) \/ EndCreate(q)
        PROVE  ThrottleInv'
    <2>1. UNCHANGED <<throttle, began>>
      BY <1>1 DEF Arrive, PassLimit, CheckThrottle, CallDatabase, EndFind, Verify, EndUpgrade, EndCreate, gateHistory
    <2> QED
      BY <2>1 DEF throttle, ThrottleInv, LockoutEnds
  <1>2. ASSUME NEW q \in Callers, ClearThrottle(q)
        PROVE  ThrottleInv'
    <2>1. CASE Forget(Keys)
      BY <2>1, ForgetKeeps
    <2>2. CASE UNCHANGED <<throttle, gateHistory>>
      BY <2>2 DEF throttle, gateHistory, ThrottleInv, LockoutEnds
    <2> QED
      BY <1>2, <2>1, <2>2 DEF ClearThrottle
  <1>3. ASSUME NEW q \in Callers, NEW k \in Keys, RecordFailure(q, k)
        PROVE  ThrottleInv'
    <2>1. UNCHANGED began /\ (Count(k) \/ UNCHANGED throttle)
      BY <1>3 DEF RecordFailure, gateHistory
    <2>2. CASE UNCHANGED throttle
      BY <2>1, <2>2 DEF throttle, ThrottleInv, LockoutEnds
    <2> QED
      BY <2>1, <2>2, CountKeeps
  <1>4. CASE Tick
    BY <1>4 DEF Tick, ThrottleInv, LockoutEnds
  <1>5. CASE UNCHANGED vars
    BY <1>5 DEF vars, throttle, gateHistory, ThrottleInv, LockoutEnds
  <1> QED
    BY <1>1, <1>2, <1>3, <1>4, <1>5 DEF Next

(* ... so it is there always.                                               *)
LEMMA CountersInvariant == Spec => []ThrottleInv
  BY CountersInitial, CountersInductive, PTL DEF Spec

(* A lockout ends Window after its first failure, whatever follows         *)
(* (recordFailureLua).                                                     *)
THEOREM LockoutsEnd == Spec => []LockoutEnds
  <1>1. ThrottleInv => LockoutEnds
    BY DEF ThrottleInv
  <1> QED
    BY <1>1, CountersInvariant, PTL

-----------------------------------------------------------------------------
(* The guesses: the logins that passed the throttle and have yet to verify *)
(* a password, and those that have yet to count their failure.             *)
Passed == {q \in Callers : req[q].at \in {"find", "verify"}}
Uncounted(k) == {q \in Callers : req[q].at = "record" /\ k \in req[q].bump}

(* Why GuessesBounded holds: a guess is counted, is about to be or was     *)
(* lost to a mishap; so whoever passes finds at most Limit - 1 guesses     *)
(* that are neither lost nor about to be counted.                          *)
GuessInv ==
  /\ guesses \in [Keys -> Nat] /\ mishaps \in 0..MaxMishaps
  /\ \A k \in Keys :
       /\ guesses[k] <= failures[k] + Cardinality(Uncounted(k)) + mishaps
       /\ guesses[k] + Cardinality(Passed) <= Limit[k] - 1 + Cardinality(Callers) + mishaps

(* One caller may come and go.                                             *)
LEMMA OneComesOrGoes ==
  ASSUME NEW S, IsFiniteSet(S), NEW T, NEW q, T \ {q} = S \ {q}
  PROVE  /\ Cardinality(S) \in Nat /\ Cardinality(T) \in Nat
         /\ q \in S => Cardinality(S) > 0
         /\ (q \in S <=> q \in T) => Cardinality(T) = Cardinality(S)
         /\ q \in T \ S => Cardinality(T) = Cardinality(S) + 1
         /\ q \in S \ T => Cardinality(T) = Cardinality(S) - 1
  <1>1. Cardinality(S) \in Nat
    BY FS_CardinalityType
  <1>2. q \in S => S \ {q} = S \ {q} /\ Cardinality(S \ {q}) = Cardinality(S) - 1 /\ IsFiniteSet(S \ {q})
    BY FS_RemoveElement
  <1>3. Cardinality(S \ {q}) \in Nat
    BY FS_Subset, FS_CardinalityType
  <1>4. CASE q \in S <=> q \in T
    <2>1. T = S
      BY <1>4
    <2> QED
      BY <1>1, <1>2, <1>3, <2>1
  <1>5. CASE q \in T \ S
    <2>1. T = S \cup {q}
      BY <1>5
    <2> QED
      BY <1>1, <1>5, <2>1, FS_AddElement
  <1>6. CASE q \in S \ T
    <2>1. T = S \ {q}
      BY <1>6
    <2> QED
      BY <1>1, <1>2, <1>3, <1>6, <2>1
  <1> QED
    BY <1>4, <1>5, <1>6

(* What a step of q does to the two sets.                                  *)
LEMMA OthersStay ==
  ASSUME NEW q \in Callers, \A p \in Callers \ {q} : req'[p] = req[p], NEW k \in Keys
  PROVE  /\ IsFiniteSet(Passed) /\ Passed' \ {q} = Passed \ {q}
         /\ IsFiniteSet(Uncounted(k)) /\ Uncounted(k)' \ {q} = Uncounted(k) \ {q}
         /\ Cardinality(Callers) \in Nat
  <1>1. Passed \subseteq Callers /\ Uncounted(k) \subseteq Callers
    BY DEF Passed, Uncounted
  <1>2. IsFiniteSet(Passed) /\ IsFiniteSet(Uncounted(k)) /\ Cardinality(Callers) \in Nat
    BY <1>1, CallersAssumption, FS_Subset, FS_CardinalityType
  <1> QED
    BY <1>2 DEF Passed, Uncounted

(* Steps at which nothing is guessed, counted or let pass. *)
LEMMA NoGuess ==
  ASSUME GuessInv, ThrottleInv, NEW q \in Callers,
         \A p \in Callers \ {q} : req'[p] = req[p],
         req'[q].at \in {"find", "verify"} => req[q].at \in {"find", "verify"},
         req'[q].at # "record", req[q].at # "record",
         failures' = failures, guesses' = guesses, mishaps' \in mishaps..MaxMishaps
  PROVE  GuessInv'
  <1> SUFFICES ASSUME NEW k \in Keys
               PROVE  /\ guesses[k] <= failures[k] + Cardinality(Uncounted(k)') + mishaps'
                      /\ guesses[k] + Cardinality(Passed') <= Limit[k] - 1 + Cardinality(Callers) + mishaps'
    BY DEF GuessInv
  <1>1. /\ q \notin Uncounted(k) /\ q \notin Uncounted(k)'
        /\ q \in Passed' => q \in Passed
    BY DEF Uncounted, Passed
  <1>2. /\ Cardinality(Uncounted(k)') = Cardinality(Uncounted(k)) /\ Cardinality(Uncounted(k)) \in Nat
        /\ Cardinality(Passed') <= Cardinality(Passed) /\ Cardinality(Passed') \in Nat
        /\ Cardinality(Passed) \in Nat
    BY <1>1, OthersStay, OneComesOrGoes
  <1>3. Cardinality(Callers) \in Nat /\ Limit[k] \in Nat /\ failures[k] \in Nat /\ mishaps \in Nat
    BY OthersStay, LimitAssumption DEF ThrottleInv, GuessInv
  <1> QED
    BY <1>2, <1>3, MishapsAssumption DEF GuessInv

(* A login finds the counters below their limits, or the cache fails.      *)
LEMMA CheckKeepsGuesses ==
  ASSUME GuessInv, ThrottleInv, ReqInv, NEW q \in Callers, At(q, "check"), Goto(q, "find"),
         failures' = failures, guesses' = guesses,
         (~RateLimited /\ mishaps' = mishaps) \/ Mishap
  PROVE  GuessInv'
  <1>1. /\ req'[q].at = "find" /\ req[q].at = "check"
        /\ \A p \in Callers \ {q} : req'[p] = req[p]
    BY DEF At, Goto, Step, ReqInv
  <1>0. mishaps' \in 0..MaxMishaps
    BY MishapsAssumption DEF GuessInv, Mishap
  <1> SUFFICES ASSUME NEW k \in Keys
               PROVE  /\ guesses[k] <= failures[k] + Cardinality(Uncounted(k)') + mishaps'
                      /\ guesses[k] + Cardinality(Passed') <= Limit[k] - 1 + Cardinality(Callers) + mishaps'
    BY <1>0 DEF GuessInv
  <1>2. /\ q \notin Uncounted(k) /\ q \notin Uncounted(k)'
        /\ q \in Passed' /\ q \notin Passed
    BY <1>1 DEF Uncounted, Passed
  <1>3. /\ Cardinality(Uncounted(k)') = Cardinality(Uncounted(k)) /\ Cardinality(Uncounted(k)) \in Nat
        /\ Cardinality(Passed') = Cardinality(Passed) + 1
        /\ Cardinality(Passed) \in Nat /\ IsFiniteSet(Uncounted(k)) /\ IsFiniteSet(Passed)
    BY <1>1, <1>2, OthersStay, OneComesOrGoes
  <1>4. /\ Cardinality(Callers) \in Nat /\ Limit[k] \in Nat /\ failures[k] \in Nat /\ mishaps \in Nat
        /\ guesses[k] \in Nat
    BY <1>1, OthersStay, LimitAssumption DEF ThrottleInv, GuessInv
  <1>5. CASE Mishap
    BY <1>3, <1>4, <1>5 DEF GuessInv, Mishap
  <1>6. CASE ~RateLimited /\ mishaps' = mishaps
    <2>1. failures[k] < Limit[k]
      BY <1>4, <1>6 DEF RateLimited
    <2>2. Cardinality(Passed) + 1 + Cardinality(Uncounted(k)) <= Cardinality(Callers)
      <3>1. PICK A, B : A = Passed \cup {q} /\ B = Uncounted(k)
        OBVIOUS
      <3>2. A \cap B = {} /\ A \cup B \subseteq Callers
        BY <1>2, <3>1 DEF Passed, Uncounted
      <3>3. IsFiniteSet(A) /\ Cardinality(A) = Cardinality(Passed) + 1
        BY <1>2, <1>3, <3>1, FS_AddElement
      <3>4. /\ IsFiniteSet(A \cup B)
            /\ Cardinality(A \cup B) = Cardinality(A) + Cardinality(B) - Cardinality(A \cap B)
        BY <1>3, <3>1, <3>3, FS_Union
      <3>5. Cardinality(A \cap B) = 0
        BY <3>2, FS_EmptySet
      <3>6. Cardinality(A \cup B) <= Cardinality(Callers)
        BY <3>2, CallersAssumption, FS_Subset
      <3> QED
        BY <1>3, <1>4, <3>1, <3>3, <3>4, <3>5, <3>6
    <2> QED
      BY <1>3, <1>4, <1>6, <2>1, <2>2 DEF GuessInv
  <1> QED
    BY <1>5, <1>6

(* A password is rejected: a guess, of one login that had passed.          *)
LEMMA RejectionKeepsGuesses ==
  ASSUME GuessInv, ThrottleInv, ReqInv, NEW q \in Callers, At(q, "verify"),
         req' = [req EXCEPT ![q] = [req[q] EXCEPT !.at = "record", !.bump = Keys]],
         guesses' = [k \in Keys |-> guesses[k] + 1], failures' = failures, mishaps' = mishaps
  PROVE  GuessInv'
  <1>1. req[q] \in Login
    BY DEF ReqInv
  <1>2. /\ req'[q].at = "record" /\ req'[q].bump = Keys /\ req[q].at = "verify"
        /\ \A p \in Callers \ {q} : req'[p] = req[p]
    BY <1>1 DEF At, ReqInv, Login
  <1> SUFFICES ASSUME NEW k \in Keys
               PROVE  /\ guesses'[k] <= failures[k] + Cardinality(Uncounted(k)') + mishaps
                      /\ guesses'[k] + Cardinality(Passed') <= Limit[k] - 1 + Cardinality(Callers) + mishaps
    BY DEF GuessInv
  <1>3. /\ q \notin Uncounted(k) /\ q \in Uncounted(k)'
        /\ q \in Passed /\ q \notin Passed'
    BY <1>2 DEF Uncounted, Passed
  <1>4. /\ Cardinality(Uncounted(k)') = Cardinality(Uncounted(k)) + 1 /\ Cardinality(Uncounted(k)) \in Nat
        /\ Cardinality(Passed') = Cardinality(Passed) - 1 /\ Cardinality(Passed) \in Nat
    BY <1>2, <1>3, OthersStay, OneComesOrGoes
  <1>5. /\ Cardinality(Callers) \in Nat /\ Limit[k] \in Nat /\ failures[k] \in Nat /\ mishaps \in Nat
        /\ guesses[k] \in Nat /\ guesses'[k] = guesses[k] + 1
    BY <1>2, OthersStay, LimitAssumption DEF ThrottleInv, GuessInv
  <1> QED
    BY <1>4, <1>5 DEF GuessInv

(* A failure is counted, or lost to a mishap.                              *)
LEMMA RecordKeepsGuesses ==
  ASSUME GuessInv, ThrottleInv, ReqInv, NEW q \in Callers, NEW j \in Keys, RecordFailure(q, j)
  PROVE  GuessInv'
  <1>1. req[q] \in Login /\ req[q].at = "record" /\ j \in req[q].bump /\ guesses' = guesses
    BY DEF ReqInv, RecordFailure, At, gateHistory
  <1>2. /\ \A p \in Callers \ {q} : req'[p] = req[p]
        /\ req'[q].at \in {"idle", "record"} /\ req'[q].bump = req[q].bump \ {j}
        /\ req'[q].at = "idle" => req'[q].bump = {}
    BY <1>1 DEF RecordFailure, ReqInv, Idle, Step, Login
  <1>0. mishaps' \in 0..MaxMishaps
    BY MishapsAssumption DEF GuessInv, RecordFailure, Mishap
  <1> SUFFICES ASSUME NEW k \in Keys
               PROVE  /\ guesses[k] <= failures'[k] + Cardinality(Uncounted(k)') + mishaps'
                      /\ guesses[k] + Cardinality(Passed') <= Limit[k] - 1 + Cardinality(Callers) + mishaps'
    BY <1>0, <1>1 DEF GuessInv
  <1>3. /\ q \notin Passed /\ q \notin Passed'
        /\ q \in Uncounted(k) <=> k \in req[q].bump
        /\ q \in Uncounted(k)' <=> k \in req[q].bump /\ k # j
    BY <1>1, <1>2 DEF Uncounted, Passed
  <1>4. /\ Cardinality(Uncounted(k)) \in Nat /\ Cardinality(Passed) \in Nat
        /\ Cardinality(Passed') = Cardinality(Passed)
        /\ k # j => Cardinality(Uncounted(k)') = Cardinality(Uncounted(k))
        /\ k = j => Cardinality(Uncounted(k)') = Cardinality(Uncounted(k)) - 1
    BY <1>1, <1>2, <1>3, OthersStay, OneComesOrGoes
  <1>5. /\ Cardinality(Callers) \in Nat /\ Limit[k] \in Nat /\ failures[k] \in Nat /\ mishaps \in Nat
        /\ guesses[k] \in Nat
    BY <1>2, OthersStay, LimitAssumption DEF ThrottleInv, GuessInv
  <1>6. /\ failures'[k] \in {failures[k], failures[k] + 1} /\ mishaps' \in {mishaps, mishaps + 1}
        /\ k = j => failures'[k] + mishaps' >= failures[k] + mishaps + 1
    BY <1>5 DEF RecordFailure, Count, throttle, Mishap, ThrottleInv
  <1> QED
    BY <1>4, <1>5, <1>6 DEF GuessInv

(* The counters are forgotten, with their guesses.                         *)
LEMMA ForgettingKeepsGuesses ==
  ASSUME GuessInv, ThrottleInv, ReqInv, mishaps' \in mishaps..MaxMishaps,
         Passed' \subseteq Passed, \A k \in Keys : Uncounted(k)' = Uncounted(k),
         guesses' \in [Keys -> Nat], failures' \in [Keys -> Nat],
         \A k \in Keys : \/ guesses'[k] = 0
                         \/ guesses'[k] = guesses[k] /\ failures'[k] = failures[k]
  PROVE  GuessInv'
  <1> SUFFICES ASSUME NEW k \in Keys
               PROVE  /\ guesses'[k] <= failures'[k] + Cardinality(Uncounted(k)') + mishaps'
                      /\ guesses'[k] + Cardinality(Passed') <= Limit[k] - 1 + Cardinality(Callers) + mishaps'
    BY DEF GuessInv
  <1>1. Passed \subseteq Callers /\ Uncounted(k) \subseteq Callers
    BY DEF Passed, Uncounted
  <1>2. /\ Cardinality(Passed') <= Cardinality(Passed) /\ Cardinality(Passed) <= Cardinality(Callers)
        /\ Cardinality(Passed') \in Nat /\ Cardinality(Passed) \in Nat /\ Cardinality(Callers) \in Nat
        /\ Cardinality(Uncounted(k)) \in Nat
    BY <1>1, CallersAssumption, FS_Subset, FS_CardinalityType
  <1>3. Cardinality(Uncounted(k)') = Cardinality(Uncounted(k))
    OBVIOUS
  <1>4. /\ Limit[k] \in Nat \ {0} /\ failures[k] \in Nat /\ failures'[k] \in Nat /\ guesses[k] \in Nat
        /\ mishaps \in Nat
    BY LimitAssumption DEF ThrottleInv, GuessInv
  <1> QED
    BY <1>2, <1>3, <1>4, MishapsAssumption DEF GuessInv

(* No step lets more guesses through.                                      *)
LEMMA GuessesInductive == GuessInv /\ ThrottleInv /\ ReqInv /\ [Next]_vars => GuessInv'
  <1> SUFFICES ASSUME GuessInv, ThrottleInv, ReqInv, [Next]_vars
               PROVE  GuessInv'
    OBVIOUS
  <1>1. mishaps \in 0..MaxMishaps
    BY DEF GuessInv
  <1>2. ASSUME NEW q \in Callers, NEW label \in {"limit", "check", "upgrade", "create", "clear"}, Goto(q, label) \/ Finish(q),
               req[q].at # "record",
               failures' = failures, guesses' = guesses, mishaps' \in mishaps..MaxMishaps
        PROVE  GuessInv'
    <2>1. /\ \A p \in Callers \ {q} : req'[p] = req[p]
          /\ req'[q].at \notin {"find", "verify", "record"}
      BY <1>2 DEF Goto, Finish, Idle, Step, ReqInv
    <2> QED
      BY <1>2, <2>1, NoGuess
  <1>3. ASSUME NEW q \in Callers, Arrive(q) PROVE GuessInv'
    BY <1>1, <1>2, <1>3, MishapsAssumption DEF Arrive, At, throttle, gateHistory
  <1>4. ASSUME NEW q \in Callers, PassLimit(q) PROVE GuessInv'
    <2>1. /\ Goto(q, "check") \/ Finish(q)
          /\ mishaps' \in mishaps..MaxMishaps
      BY <1>1, <1>4, MishapsAssumption DEF PassLimit, Mishap
    <2> QED
      BY <1>2, <1>4, <2>1 DEF PassLimit, At, throttle, gateHistory
  <1>5. ASSUME NEW q \in Callers, CheckThrottle(q) PROVE GuessInv'
    <2>1. CASE Finish(q) /\ UNCHANGED mishaps
      BY <1>1, <1>2, <1>5, <2>1, MishapsAssumption DEF CheckThrottle, At, throttle, gateHistory
    <2> QED
      BY <1>5, <2>1, CheckKeepsGuesses DEF CheckThrottle, throttle, gateHistory
  <1>6. ASSUME NEW q \in Callers, CallDatabase(q) PROVE GuessInv'
    <2>1. CASE Finish(q) \/ Goto(q, "create")
      BY <1>1, <1>2, <1>6, <2>1, MishapsAssumption DEF CallDatabase, At, throttle, gateHistory
    <2>2. CASE UNCHANGED req
      BY <1>1, <1>6, <2>2, NoGuess, MishapsAssumption DEF CallDatabase, At, throttle, gateHistory
    <2> QED
      BY <1>6, <2>1, <2>2 DEF CallDatabase
  <1>7. ASSUME NEW q \in Callers, EndFind(q) PROVE GuessInv'
    <2>1. CASE Finish(q)
      BY <1>1, <1>2, <1>7, <2>1, MishapsAssumption DEF EndFind, At, throttle, gateHistory
    <2>2. CASE req' = [req EXCEPT ![q] = Step("verify", TRUE)]
      <3>1. req'[q].at = "verify" /\ req[q].at = "find" /\ \A p \in Callers \ {q} : req'[p] = req[p]
        BY <1>7, <2>2 DEF EndFind, At, Step, ReqInv
      <3> QED
        BY <1>1, <1>7, <3>1, NoGuess, MishapsAssumption DEF EndFind, throttle, gateHistory
    <2> QED
      BY <1>7, <2>1, <2>2 DEF EndFind
  <1>8. ASSUME NEW q \in Callers, Verify(q) PROVE GuessInv'
    <2>1. CASE (Goto(q, "upgrade") \/ Goto(q, "create")) /\ UNCHANGED guesses
      BY <1>1, <1>2, <1>8, <2>1, MishapsAssumption DEF Verify, At, throttle
    <2> QED
      BY <1>8, <2>1, RejectionKeepsGuesses DEF Verify, throttle
  <1>9. ASSUME NEW q \in Callers, NEW k \in Keys, RecordFailure(q, k) PROVE GuessInv'
    BY <1>9, RecordKeepsGuesses
  <1>10. ASSUME NEW q \in Callers, EndUpgrade(q) \/ EndCreate(q) PROVE GuessInv'
    BY <1>1, <1>2, <1>10, MishapsAssumption DEF EndUpgrade, EndCreate, At, throttle, gateHistory
  <1>11. ASSUME NEW q \in Callers, ClearThrottle(q) PROVE GuessInv'
    <2>1. /\ mishaps' \in mishaps..MaxMishaps /\ req[q].at = "clear" /\ req'[q].at = "idle"
          /\ \A p \in Callers \ {q} : req'[p] = req[p]
      BY <1>1, <1>11, MishapsAssumption DEF ClearThrottle, Mishap, At, Finish, Idle, Step, ReqInv
    <2>2. Passed' = Passed /\ \A k \in Keys : Uncounted(k)' = Uncounted(k)
      BY <2>1 DEF Passed, Uncounted
    <2>3. Forget(Keys) \/ (guesses' = guesses /\ failures' = failures)
      BY <1>11 DEF ClearThrottle, throttle, gateHistory
    <2>4. /\ guesses' \in [Keys -> Nat] /\ failures' \in [Keys -> Nat]
          /\ \A k \in Keys : guesses'[k] = 0 \/ (guesses'[k] = guesses[k] /\ failures'[k] = failures[k])
      BY <2>3 DEF Forget, GuessInv, ThrottleInv
    <2> QED
      BY <2>1, <2>2, <2>4, ForgettingKeepsGuesses
  <1>12. CASE Tick
    <2>1. mishaps' \in mishaps..MaxMishaps
      BY <1>1, <1>12, MishapsAssumption DEF Tick
    <2>2. \A q \in Callers : req'[q].at = req[q].at /\ req'[q].bump = req[q].bump
      BY <1>12 DEF Tick, At, ReqInv, Login
    <2>3. Passed' = Passed /\ \A k \in Keys : Uncounted(k)' = Uncounted(k)
      BY <2>2 DEF Passed, Uncounted
    <2>4. /\ guesses' \in [Keys -> Nat] /\ failures' \in [Keys -> Nat]
          /\ \A k \in Keys : guesses'[k] = 0 \/ (guesses'[k] = guesses[k] /\ failures'[k] = failures[k])
      BY <1>12 DEF Tick, GuessInv, ThrottleInv, LockoutEnds
    <2> QED
      BY <2>1, <2>3, <2>4, ForgettingKeepsGuesses
  <1>13. CASE UNCHANGED vars
    <2>1. Passed' = Passed /\ \A k \in Keys : Uncounted(k)' = Uncounted(k)
      BY <1>13 DEF vars, Passed, Uncounted
    <2> QED
      BY <1>13, <2>1 DEF vars, throttle, gateHistory, GuessInv
  <1> QED
    BY <1>3, <1>4, <1>5, <1>6, <1>7, <1>8, <1>9, <1>10, <1>11, <1>12, <1>13 DEF Next

(* At first nobody has guessed.                                            *)
LEMMA GuessesInitial == Init => GuessInv
  <1> SUFFICES ASSUME Init PROVE GuessInv
    OBVIOUS
  <1>1. Passed = {} /\ \A k \in Keys : Uncounted(k) = {}
    BY DEF Init, Passed, Uncounted, Idle, Step
  <1>2. Cardinality(Passed) = 0 /\ \A k \in Keys : Cardinality(Uncounted(k)) = 0
    BY <1>1, FS_EmptySet
  <1>3. Cardinality(Callers) \in Nat /\ \A k \in Keys : Limit[k] \in Nat \ {0}
    BY CallersAssumption, FS_CardinalityType, LimitAssumption
  <1> QED
    BY <1>2, <1>3, MishapsAssumption DEF Init, GuessInv

(* While a counter lives no more passwords are verified than the limit     *)
(* allows, but for the logins that pass at the same time and the cache     *)
(* calls that fail; and a lockout ends.                                    *)
THEOREM GateHolds == Spec => []GateInv
  <1>1. GuessInv /\ ThrottleInv => GuessesBounded
    <2> SUFFICES ASSUME GuessInv, ThrottleInv, NEW k \in Keys
                 PROVE  guesses[k] <= Limit[k] - 1 + Cardinality(Callers) + mishaps
      BY DEF GuessesBounded
    <2>1. Passed \subseteq Callers
      BY DEF Passed
    <2>2. Cardinality(Passed) \in Nat /\ Cardinality(Callers) \in Nat
      BY <2>1, CallersAssumption, FS_Subset, FS_CardinalityType
    <2>3. Limit[k] \in Nat /\ guesses[k] \in Nat /\ mishaps \in Nat
      BY LimitAssumption DEF GuessInv
    <2> QED
      BY <2>2, <2>3 DEF GuessInv
  <1>2. GuessInv /\ ThrottleInv /\ ReqInv /\ BreakerInv /\ BucketInv => TypeOK
    BY DEF GuessInv, ThrottleInv, ReqInv, BreakerInv, BucketInv, TypeOK
  <1>3. GuessInv /\ ThrottleInv => LockoutEnds
    BY DEF ThrottleInv
  <1>4. Spec => [](GuessInv /\ ThrottleInv /\ ReqInv)
    BY GuessesInitial, GuessesInductive, CountersInitial, CountersInductive, ReqInitial, ReqInductive, PTL
       DEF Spec
  <1>5. Spec => [](BreakerInv /\ BucketInv)
    BY UsesBreaker, BreakerInvariant, UsesBucket, BucketInvariant, PTL
  <1> QED
    BY <1>1, <1>2, <1>3, <1>4, <1>5, PTL DEF GateInv

(* An outage locks nobody out (Service.Login counts a failure only after   *)
(* it has compared the password with what the database answered).          *)
THEOREM OutagesLockNobodyOut == Spec => OnlyAnsweredCount
  <1>1. ReqInv /\ ThrottleInv /\ [Next]_vars =>
          [\A k \in Keys : failures'[k] > failures[k] =>
             \E q \in Callers : At(q, "record") /\ req[q].answered]_vars
    <2> SUFFICES ASSUME ReqInv, ThrottleInv, Next, NEW k \in Keys, failures'[k] > failures[k]
                 PROVE  \E q \in Callers : At(q, "record") /\ req[q].answered
      OBVIOUS
    <2>1. ASSUME NEW q \in Callers,
                 \/ Arrive(q) \/ PassLimit(q) \/ CheckThrottle(q) \/ CallDatabase(q)
                 \/ EndFind(q) \/ Verify(q) \/ EndUpgrade(q) \/ EndCreate(q)
          PROVE  failures' = failures
      BY <2>1 DEF Arrive, PassLimit, CheckThrottle, CallDatabase, EndFind, Verify, EndUpgrade, EndCreate, throttle
    <2>2. ASSUME NEW q \in Callers, ClearThrottle(q)
          PROVE  failures'[k] = 0 \/ failures' = failures
      BY <2>2 DEF ClearThrottle, Forget, throttle
    <2>3. ASSUME NEW q \in Callers, NEW j \in Keys, RecordFailure(q, j)
          PROVE  At(q, "record") /\ req[q].answered
      BY <2>3 DEF RecordFailure, At, ReqInv
    <2>4. ASSUME Tick
          PROVE  failures'[k] = 0 \/ failures'[k] = failures[k]
      BY <2>4 DEF Tick
    <2>5. failures[k] \in Nat
      BY DEF ThrottleInv
    <2>6. \E q \in Callers : \E j \in Keys : RecordFailure(q, j)
      BY <2>1, <2>2, <2>4, <2>5 DEF Next
    <2> QED
      BY <2>3, <2>6
  <1> QED
    BY <1>1, ReqInvariant, CountersInvariant, PTL DEF Spec, OnlyAnsweredCount

-----------------------------------------------------------------------------
(* The readiness probe.                                                     *)
USE RelayAssumption, NeverAssumption, WindowsAssumption, TimeoutsAssumption

(* What the monitor knows of one pipeline: its loop runs exactly while it  *)
(* is said to, the last progress was the last good round, and the error    *)
(* that is remembered came after it.                                       *)
Faithful(p) ==
  /\ running[p] <=> at[p] \notin {"registered", "exited"}
  /\ progress[p] = good[p]
  /\ at[p] = "registered" => firstError[p] = Never
  /\ firstError[p] # Never => firstError[p] <= good[p] \/ good[p] > StaleAfter

(* The inductive invariant.                                                *)
MonitorIInv == MonitorTypeOK /\ \A p \in Pipelines : Faithful(p)

(* All is well when the server begins to listen.                           *)
LEMMA MonitorInitial == MonitorInit => MonitorIInv
  <1> SUFFICES ASSUME MonitorInit PROVE MonitorIInv
    OBVIOUS
  <1>1. MonitorTypeOK
    <2>1. running \in [Pipelines -> BOOLEAN] /\ hadError \in [Pipelines -> BOOLEAN]
      BY Zenon DEF MonitorInit
    <2>2. /\ progress \in [Pipelines -> 0..StaleAfter + 1]
          /\ good \in [Pipelines -> 0..StaleAfter + 1]
          /\ firstError \in [Pipelines -> 0..ErrorWindow \cup {Never}]
          /\ lasted \in [Pipelines -> 0..FetchTimeout + CommitTimeout + ProduceTimeout + 1]
      BY DEF MonitorInit
    <2>3. at \in [Pipelines -> {"registered", "wait", "select", "produce", "mark",
                                "poll", "handle", "commit", "exited"}]
      BY DEF MonitorInit
    <2>4. database \in BOOLEAN /\ broker \in BOOLEAN /\ backlog \in BOOLEAN
      BY DEF MonitorInit
    <2> QED
      BY <2>1, <2>2, <2>3, <2>4 DEF MonitorTypeOK
  <1>2. ASSUME NEW p \in Pipelines PROVE Faithful(p)
    <2>1. at[p] = (IF p = Relay THEN "wait" ELSE "registered") /\ running[p] = (p = Relay)
      BY DEF MonitorInit
    <2> QED
      BY <2>1 DEF MonitorInit, Faithful
  <1> QED
    BY <1>1, <1>2 DEF MonitorIInv

(* A pipeline takes a step and reports; the others do neither.             *)
LEMMA StepKeeps ==
  ASSUME MonitorIInv, NEW p \in Pipelines,
         NEW step \in {"wait", "select", "produce", "mark", "poll", "handle", "commit", "exited"},
         at' = [at EXCEPT ![p] = step], lasted' \in {lasted, [lasted EXCEPT ![p] = 0]},
         \/ Start(p) /\ WentWell(p) /\ step # "exited" /\ at[p] = "registered"
         \/ Progress(p) /\ WentWell(p) /\ step # "exited"
         \/ Error(p) /\ UNCHANGED good /\ at[p] \notin {"registered", "exited"} /\ step # "exited"
         \/ Stop(p) /\ UNCHANGED good /\ step = "exited"
         \/ UNCHANGED <<status, good>> /\ at[p] \notin {"registered", "exited"} /\ step # "exited",
         hadError' \in [Pipelines -> BOOLEAN],
         database' \in BOOLEAN, broker' \in BOOLEAN, backlog' \in BOOLEAN
  PROVE  MonitorIInv'
  <1>0. running' \in [Pipelines -> BOOLEAN]
    <2>1. /\ running \in [Pipelines -> BOOLEAN]
          /\ running' = running \/ \E b \in BOOLEAN : running' = [running EXCEPT ![p] = b]
      BY DEF Start, Progress, Error, Stop, status, MonitorIInv, MonitorTypeOK
    <2> QED
      BY <2>1
  <1>1. /\ progress' \in [Pipelines -> 0..StaleAfter + 1]
        /\ good' \in [Pipelines -> 0..StaleAfter + 1]
    BY DEF Start, Progress, Error, Stop, WentWell, status, MonitorIInv, MonitorTypeOK
  <1>2. firstError' \in [Pipelines -> 0..ErrorWindow \cup {Never}]
    BY DEF Start, Progress, Error, Stop, status, MonitorIInv, MonitorTypeOK
  <1>3. MonitorTypeOK'
    <2>1. lasted' \in [Pipelines -> 0..FetchTimeout + CommitTimeout + ProduceTimeout + 1]
      BY DEF MonitorIInv, MonitorTypeOK
    <2>2. at' \in [Pipelines -> {"registered", "wait", "select", "produce", "mark",
                                 "poll", "handle", "commit", "exited"}]
      BY DEF MonitorIInv, MonitorTypeOK
    <2> QED
      BY <1>0, <1>1, <1>2, <2>1, <2>2 DEF MonitorTypeOK
  <1>4. ASSUME NEW o \in Pipelines, o # p PROVE Faithful(o)'
    BY <1>4 DEF Start, Progress, Error, Stop, WentWell, status, MonitorIInv, MonitorTypeOK, Faithful
  <1>5. Faithful(p)'
    BY DEF Start, Progress, Error, Stop, WentWell, status, MonitorIInv, MonitorTypeOK, Faithful
  <1> QED
    BY <1>3, <1>4, <1>5 DEF MonitorIInv

(* Time passes: no progress, and what was an error stays one.              *)
LEMMA TickKeeps == ASSUME MonitorIInv, TimePasses PROVE MonitorIInv'
  <1>1. /\ running' = running /\ at' = at /\ hadError' = hadError
        /\ database' = database /\ broker' = broker /\ backlog' = backlog
    BY DEF TimePasses, world
  <1>2. ASSUME NEW age \in Nat, NEW limit \in Nat, age <= limit
        PROVE  Older(age, limit) \in 0..limit /\ Older(age, limit) >= age
               /\ Older(age, limit) = (IF age < limit THEN age + 1 ELSE limit)
    BY <1>2 DEF Older
  <1>3. lasted' \in [Pipelines -> 0..FetchTimeout + CommitTimeout + ProduceTimeout + 1]
    <2>1. \A p \in Pipelines : Deadline(p) <= FetchTimeout + CommitTimeout + ProduceTimeout + 1 /\ Deadline(p) \in Nat
      BY DEF Deadline, MonitorIInv, MonitorTypeOK
    <2> QED
      BY <2>1 DEF TimePasses, MonitorIInv, MonitorTypeOK
  <1>4. /\ progress' \in [Pipelines -> 0..StaleAfter + 1]
        /\ good' \in [Pipelines -> 0..StaleAfter + 1]
        /\ firstError' \in [Pipelines -> 0..ErrorWindow \cup {Never}]
    BY <1>2 DEF TimePasses, MonitorIInv, MonitorTypeOK
  <1>5. MonitorTypeOK'
    BY <1>1, <1>3, <1>4 DEF MonitorIInv, MonitorTypeOK
  <1>6. ASSUME NEW p \in Pipelines PROVE Faithful(p)'
    <2>1. /\ progress'[p] = Older(progress[p], StaleAfter + 1)
          /\ good'[p] = Older(good[p], StaleAfter + 1)
          /\ firstError'[p] = IF firstError[p] = Never THEN Never ELSE Older(firstError[p], ErrorWindow)
      BY DEF TimePasses
    <2>2. good[p] \in 0..StaleAfter + 1 /\ firstError[p] \in 0..ErrorWindow \cup {Never}
      BY DEF MonitorIInv, MonitorTypeOK
    <2>3. firstError'[p] # Never => firstError'[p] <= good'[p] \/ good'[p] > StaleAfter
      BY <2>1, <2>2 DEF Older, MonitorIInv, Faithful
    <2> QED
      BY <1>1, <2>1, <2>3 DEF MonitorIInv, Faithful
  <1> QED
    BY <1>5, <1>6 DEF MonitorIInv

(* Every step keeps what the monitor knows.                                *)
LEMMA MonitorInductive == MonitorIInv /\ [MonitorNext]_monitorVars => MonitorIInv'
  <1> SUFFICES ASSUME MonitorIInv, [MonitorNext]_monitorVars PROVE MonitorIInv'
    OBVIOUS
  <1>1. /\ Relay \in Pipelines /\ Consumers \subseteq Pipelines
        /\ database \in BOOLEAN /\ broker \in BOOLEAN /\ backlog \in BOOLEAN
        /\ hadError \in [Pipelines -> BOOLEAN]
    BY DEF Pipelines, MonitorIInv, MonitorTypeOK
  <1>2. ASSUME NEW c \in Consumers, Launch(c) PROVE MonitorIInv'
    BY <1>1, <1>2, StepKeeps DEF Launch, StepTo, world
  <1>3. CASE RelayTick
    BY <1>1, <1>3, StepKeeps DEF RelayTick, StepTo, world, status
  <1>4. CASE SelectUnpublished
    BY <1>1, <1>4, StepKeeps DEF SelectUnpublished, StepTo, world
  <1>5. CASE Produce
    BY <1>1, <1>5, StepKeeps DEF Produce, StepTo, world
  <1>6. CASE MarkPublished
    BY <1>1, <1>6, StepKeeps DEF MarkPublished, StepTo
  <1>7. ASSUME NEW c \in Consumers, Poll(c) PROVE MonitorIInv'
    <2>1. hadError' \in [Pipelines -> BOOLEAN]
      BY <1>1, <1>7 DEF Poll
    <2> QED
      BY <1>1, <1>7, <2>1, StepKeeps DEF Poll, StepTo, world
  <1>8. ASSUME NEW c \in Consumers, Handled(c) PROVE MonitorIInv'
    BY <1>1, <1>8, StepKeeps DEF Handled, StepTo, world
  <1>9. ASSUME NEW c \in Consumers, CommitOffsets(c) PROVE MonitorIInv'
    BY <1>1, <1>9, StepKeeps DEF CommitOffsets, StepTo, world
  <1>10. ASSUME NEW p \in Pipelines, Exit(p) PROVE MonitorIInv'
    BY <1>1, <1>10, StepKeeps DEF Exit, StepTo, world
  <1>11. CASE RelayPanics
    BY <1>1, <1>11, StepKeeps DEF RelayPanics, StepTo, world
  <1>12. ASSUME NEW c \in Consumers, HandlePanics(c) PROVE MonitorIInv'
    <2>1. at' = [at EXCEPT ![c] = "handle"]
      BY <1>12 DEF HandlePanics, loops, MonitorIInv, MonitorTypeOK
    <2> QED
      BY <1>1, <1>12, <2>1, StepKeeps DEF HandlePanics, loops, world
  <1>13. CASE DatabaseChanges \/ BrokerChanges \/ BacklogChanges
    BY <1>1, <1>13 DEF DatabaseChanges, BrokerChanges, BacklogChanges, status, loops, MonitorIInv, MonitorTypeOK, Faithful
  <1>14. CASE UNCHANGED monitorVars
    BY <1>14 DEF monitorVars, status, loops, world, MonitorIInv, MonitorTypeOK, Faithful
  <1> QED
    BY <1>2, <1>3, <1>4, <1>5, <1>6, <1>7, <1>8, <1>9, <1>10, <1>11, <1>12, <1>13, <1>14, TickKeeps, Zenon
       DEF MonitorNext, Works, Panics, Pipelines

(* The monitor tells what becomes of the loops.                            *)
LEMMA MonitorInvariant == MonitorSpec => []MonitorIInv
  BY MonitorInitial, MonitorInductive, PTL DEF MonitorSpec

(* A pipeline that has ended, or has had no good round for longer than     *)
(* StaleAfter - it hangs or fails, in whatever step - makes Check fail.    *)
THEOREM LostPipelinesShow == MonitorSpec => []LostPipelineShows
  <1>1. MonitorIInv => LostPipelineShows
    BY DEF MonitorIInv, Faithful, LostPipelineShows, Check, IsStale
  <1> QED
    BY <1>1, MonitorInvariant, PTL

(* And Check fails for no other reason than that a loop does not run or    *)
(* has had no good round for as long as it says.                           *)
THEOREM UnreadyReplicasHaveAReason == MonitorSpec => []MonitorInv
  <1>1. MonitorIInv => MonitorInv
    <2> SUFFICES ASSUME MonitorIInv, NEW p \in Pipelines,
                        ~running[p] \/ HasSustainedError(p) \/ IsStale(p)
                 PROVE  \/ at[p] \in {"registered", "exited"}
                        \/ good[p] >= ErrorWindow \/ good[p] > StaleAfter
      BY DEF MonitorInv, UnreadyForAReason, Check, MonitorIInv
    <2>1. Faithful(p) /\ good[p] \in Nat /\ firstError[p] \in Nat \cup {Never}
      BY DEF MonitorIInv, MonitorTypeOK
    <2> QED
      BY <2>1 DEF Faithful, HasSustainedError, IsStale
  <1> QED
    BY <1>1, MonitorInvariant, PTL
=============================================================================
