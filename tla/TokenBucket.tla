----------------------------- MODULE TokenBucket -----------------------------
(***************************************************************************)
(* One bucket of the rate limiter (tokenBucketLua, CacheRateLimiterStore    *)
(* and RateLimit of internal/httpx/ratelimit.go).                           *)
(*                                                                         *)
(* The script runs atomically in the cache, but the time it works with is  *)
(* read by the replica before it sends the call: a call that was under way *)
(* for some ticks carries a stamp that old, and other calls with newer     *)
(* stamps may have overtaken it.  The replicas' clocks are taken to agree. *)
(*                                                                         *)
(* Time is relative, in ticks, a policy's rate being one token per Period. *)
(***************************************************************************)
EXTENDS Integers

CONSTANTS
  Burst,                \* RateLimitPolicy.Burst
  Period,               \* ticks per token: 1 / RateLimitPolicy.Rate
  Second,               \* ticks per second
  MaxDelay              \* ticks a call may be under way (3 s: the context of Allow)

ASSUME BurstAssumption == Burst \in Nat \ {0}
ASSUME PeriodAssumption == Period \in Nat \ {0}
ASSUME SecondAssumption == Second \in Nat \ {0}
ASSUME DelayAssumption == MaxDelay \in Nat

VARIABLES
  tokens,               \* field t of the key, once it is kept
  since,                \* ticks since field l
  expiry,               \* ticks until the key expires; 0: there is no key
  credit,               \* history: what an ideal meter would have left, in ticks of refill
  waited                \* history: ticks since the first call denied after the last allowed
                        \* one; -1: none was

bucket == <<tokens, since, expiry>>
bucketHistory == <<credit, waited>>
bucketVars == <<bucket, bucketHistory>>

Full == Burst * Period
Lifetime == Full + Second
AtMost(limit, n) == IF n < limit THEN n ELSE limit

BucketTypeOK ==
  /\ tokens \in 0..Burst
  /\ since \in 0..(Lifetime + MaxDelay)
  /\ expiry \in 0..Lifetime
  /\ credit \in Int
  /\ waited \in -1..(Lifetime + MaxDelay)

(* No key: the bucket is full. *)
BucketInit ==
  /\ tokens = 0 /\ since = 0 /\ expiry = 0
  /\ credit = Full /\ waited = -1

-----------------------------------------------------------------------------
(* Whole tokens only; none for a call that has been overtaken.              *)
Refill(a) == IF since > a THEN (since - a) \div Period ELSE 0

(* The tokens a call with a stamp that is a ticks old finds.                *)
Available(a) == IF expiry = 0 THEN Burst ELSE AtMost(Burst, tokens + Refill(a))

(* Allowed: one token is taken, the stamp kept, and the key's life begins   *)
(* anew.  The fraction of a token that was refilled is lost.                *)
Take(a) ==
  /\ Available(a) > 0
  /\ tokens' = Available(a) - 1
  /\ since' = a
  /\ expiry' = Lifetime
  /\ credit' = credit - Period + a
  /\ waited' = -1

(* Fault: a denied call stamps the bucket like an allowed one. *)
DenyStamping(a) ==
  /\ Available(a) <= 0
  /\ since' = a
  /\ waited' = IF waited < 0 THEN 0 ELSE waited
  /\ UNCHANGED <<tokens, expiry, credit>>

(* Denied, with a Retry-After: the bucket is left as it is.                 *)
Deny(a) ==
  /\ Available(a) <= 0
  /\ waited' = IF waited < 0 THEN 0 ELSE waited
  /\ UNCHANGED <<bucket, credit>>

(* Fault: the key lives for a second. *)
RefillTickExpiringEarly ==
  /\ expiry' = IF expiry \in 1..Full THEN 0 ELSE IF expiry > 0 THEN expiry - 1 ELSE 0
  /\ since' = IF expiry > 1 THEN since + 1 ELSE 0
  /\ tokens' = IF expiry > 1 THEN tokens ELSE 0
  /\ credit' = IF credit < Full THEN credit + 1 ELSE credit
  /\ waited' = IF expiry <= 1 THEN -1 ELSE IF waited < 0 THEN waited ELSE waited + 1

(* A tick passes; the key may expire.                                       *)
RefillTick ==
  /\ expiry' = IF expiry > 0 THEN expiry - 1 ELSE 0
  /\ since' = IF expiry > 1 THEN since + 1 ELSE 0
  /\ tokens' = IF expiry > 1 THEN tokens ELSE 0
  /\ credit' = IF credit < Full THEN credit + 1 ELSE credit
  /\ waited' = IF expiry <= 1 THEN -1 ELSE IF waited < 0 THEN waited ELSE waited + 1

BucketNext == RefillTick \/ \E a \in 0..MaxDelay : Take(a) \/ Deny(a)

BucketSpec == BucketInit /\ [][BucketNext]_bucketVars

-----------------------------------------------------------------------------
(* In the long run the limiter admits no more than the policy says: never   *)
(* more than an ideal meter that starts with Burst tokens and gains one per *)
(* Period - but for the lateness of the calls, each of which can move the   *)
(* bucket's clock back by as much as it was late.                           *)
AdmittedWithinRate == credit >= 0

(* The Retry-After header: seconds, rounded half up.                        *)
RetryAfter == ((2 * Period + Second) \div (2 * Second)) * Second

(* A client that waits as long as its first refusal told it to is admitted, *)
(* unless another call took the token: refused calls in between, its own or *)
(* others', do not push it back.                                            *)
RetryAfterSuffices ==
  \A a \in 0..MaxDelay : waited - a >= RetryAfter => Available(a) > 0

(* Why: what the bucket can give now or later never exceeds the credit.     *)
Smaller(m, n) == IF m < n THEN m ELSE n
Potential == tokens * Period + since
BucketInv ==
  /\ BucketTypeOK
  /\ AdmittedWithinRate
  /\ credit >= Smaller(Full, Lifetime - expiry)
  /\ expiry > 0 => credit >= Smaller(Full, Potential)
  /\ since <= Lifetime - expiry + MaxDelay
  /\ waited <= since
=============================================================================
