------------------------------- MODULE Breaker -------------------------------
(***************************************************************************)
(* The circuit breaker every repository call of a backend replica passes   *)
(* (resilience.CircuitBreaker, WithRetry, and DB.Read and DB.Write of       *)
(* internal/store/database).                                               *)
(*                                                                         *)
(* A call asks Allow, runs its statement, and reports how the statement    *)
(* ended: each is one critical section of the breaker's mutex, and calls   *)
(* overlap freely in between, so that a call let through long ago may      *)
(* report to a circuit that has been opened, half opened and closed since. *)
(* How a statement ends is left open here; LoginGate decides it.           *)
(*                                                                         *)
(* Time is relative, in ticks.  consecutiveErrors is only ever compared    *)
(* with the threshold and is counted no further.                           *)
(***************************************************************************)
EXTENDS Naturals

CONSTANTS
  Callers,              \* the goroutines that use the database
  Threshold,            \* CIRCUIT_FAILURE_THRESHOLD (5)
  Cooldown,             \* CIRCUIT_COOLDOWN_SECONDS (30), in ticks
  MaxAttempts           \* POSTGRES_RETRY_MAX_ATTEMPTS (3)

ASSUME ThresholdAssumption == Threshold \in Nat \ {0}
ASSUME CooldownAssumption == Cooldown \in Nat
ASSUME AttemptsAssumption == MaxAttempts \in Nat \ {0}

VARIABLES
  circuit,              \* state
  errors,               \* consecutiveErrors
  openedFor,            \* ticks since openedAt
  tries,                \* tries[c]: attempts c's call has left; 0 between calls
  streak,               \* history: failures reported since the last success
  quietFor              \* history: ticks since the last failure was reported

breakerHistory == <<streak, quietFor>>
breaker == <<circuit, errors, openedFor>>
breakerVars == <<breaker, tries, breakerHistory>>

UpTo(limit, n) == IF n < limit THEN n ELSE limit

BreakerTypeOK ==
  /\ circuit \in {"closed", "open", "half_open"}
  /\ errors \in 0..Threshold
  /\ openedFor \in 0..Cooldown
  /\ tries \in [Callers -> 0..MaxAttempts]
  /\ streak \in 0..Threshold
  /\ quietFor \in 0..Cooldown

BreakerInit ==
  /\ circuit = "closed" /\ errors = 0 /\ openedFor = Cooldown
  /\ tries = [c \in Callers |-> 0]
  /\ streak = 0 /\ quietFor = Cooldown

-----------------------------------------------------------------------------
(* Allow: everyone while the circuit is closed or half open, and the first  *)
(* caller after the cooldown, who finds it open and leaves it half open.    *)
Allowed == circuit = "open" => openedFor >= Cooldown

(* Read and Write: ErrUnavailable, or a first of n attempts is under way.   *)
Begin(c, n) ==
  /\ tries[c] = 0
  /\ Allowed
  /\ circuit' = IF circuit = "open" THEN "half_open" ELSE circuit
  /\ tries' = [tries EXCEPT ![c] = n]
  /\ UNCHANGED <<errors, openedFor, breakerHistory>>

(* A caller that is not let through gets ErrUnavailable and reports nothing. *)
TurnAway(c) ==
  /\ tries[c] = 0
  /\ ~Allowed
  /\ UNCHANGED breakerVars

(* Fault: only the failure that opens the circuit stamps openedAt. *)
FailureStampedOnce ==
  /\ errors' = UpTo(Threshold, errors + 1)
  /\ IF circuit = "half_open" \/ errors' >= Threshold
     THEN circuit' = "open" /\ openedFor' = IF circuit = "open" THEN openedFor ELSE 0
     ELSE UNCHANGED <<circuit, openedFor>>

(* Failure, for an error that isTransientDatabaseError: lost connections,   *)
(* serialization failures and deadlocks, and also a client that went away.  *)
Failure ==
  /\ errors' = UpTo(Threshold, errors + 1)
  /\ IF circuit = "half_open" \/ errors' >= Threshold
     THEN circuit' = "open" /\ openedFor' = 0
     ELSE UNCHANGED <<circuit, openedFor>>

(* Success, for no error and for ErrNoRows. *)
Success ==
  /\ circuit' = "closed" /\ errors' = 0
  /\ streak' = 0
  /\ UNCHANGED <<openedFor, quietFor>>

EndCall(c) == tries[c] > 0 /\ tries' = [tries EXCEPT ![c] = 0]

Answered(c) == EndCall(c) /\ Success

(* An error that is not transient is no failure, and no success either.     *)
Refused(c) == EndCall(c) /\ UNCHANGED <<breaker, breakerHistory>>

(* Fault: every attempt is recorded. *)
RetryRecorded(c) ==
  /\ tries[c] > 1
  /\ tries' = [tries EXCEPT ![c] = @ - 1]
  /\ Failure
  /\ UNCHANGED breakerHistory

(* WithRetry: a read that failed and has attempts left tries again.         *)
Retry(c) ==
  /\ tries[c] > 1
  /\ tries' = [tries EXCEPT ![c] = @ - 1]
  /\ UNCHANGED <<breaker, breakerHistory>>

(* The last attempt failed, or the client did not wait for another.         *)
Failed(c) ==
  /\ EndCall(c)
  /\ Failure
  /\ streak' = UpTo(Threshold, streak + 1) /\ quietFor' = 0

Cool ==
  /\ openedFor' = UpTo(Cooldown, openedFor + 1)
  /\ quietFor' = UpTo(Cooldown, quietFor + 1)
  /\ UNCHANGED <<circuit, errors, tries, streak>>

BreakerNext ==
  \/ \E c \in Callers :
       \/ \E n \in {1, MaxAttempts} : Begin(c, n)
       \/ TurnAway(c) \/ Answered(c) \/ Refused(c) \/ Retry(c) \/ Failed(c)
  \/ Cool

BreakerSpec == BreakerInit /\ [][BreakerNext]_breakerVars

-----------------------------------------------------------------------------
(* The circuit leaves "closed" exactly when Threshold calls in a row have   *)
(* failed, whatever calls of earlier days report in between; attempts that  *)
(* were retried are not failures of a call.                                 *)
CircuitTellsFailures == circuit # "closed" <=> streak >= Threshold

(* A database that keeps failing is left alone: after Threshold failures in *)
(* a row no call is let through until none has failed for Cooldown, the     *)
(* late failures of calls that were under way included.                     *)
LetThrough(c) == tries[c] = 0 /\ tries'[c] > 0
LeavesDatabaseAlone ==
  [][\A c \in Callers : LetThrough(c) => streak < Threshold \/ quietFor >= Cooldown]_breakerVars

(* Why: as long as the circuit is not closed the count stays at the         *)
(* threshold and openedAt is the time of the last failure.                  *)
BreakerInv ==
  /\ BreakerTypeOK
  /\ errors = streak
  /\ CircuitTellsFailures
  /\ circuit = "open" => openedFor = quietFor
  /\ circuit = "half_open" => quietFor >= Cooldown
=============================================================================
