------------------------------- MODULE Monitor -------------------------------
(***************************************************************************)
(* The background pipelines of one backend replica as its readiness probe  *)
(* sees them (pipeline.Monitor; the relay's rounds of                       *)
(* cmd/api/outbox_relay.go; Consumer.Run of internal/notifications and      *)
(* internal/feed; readinessHandler and the readiness check of main.go).    *)
(*                                                                         *)
(* Here the pipelines are loops that take time, fail and report; what they *)
(* move is modelled by Outbox and ConsumerGroup.  The database and the     *)
(* broker go up and down at will.  A step that waits for one of them fails *)
(* only while it is down, and may hang for as long as the code lets it:    *)
(* forever where it sets no deadline.  A database that is up answers       *)
(* within a tick.                                                          *)
(*                                                                         *)
(* Time is relative, in ticks.                                             *)
(***************************************************************************)
EXTENDS Naturals

CONSTANTS
  Relay,                \* the pipeline "outbox-relay"
  Consumers,            \* the pipelines of the consumers
  StaleAfter,           \* BACKGROUND_PIPELINE_STALE_SECONDS (120), in ticks
  ErrorWindow,          \* errorWindow (30 s)
  FetchTimeout,         \* fetchTimeout (30 s)
  CommitTimeout,        \* commitTimeout (10 s)
  ProduceTimeout,       \* the relay's deadline for producing (10 s)
  Never                 \* the zero time

ASSUME RelayAssumption == Relay \notin Consumers
ASSUME NeverAssumption == Never \notin Nat
ASSUME WindowsAssumption == StaleAfter \in Nat \ {0} /\ ErrorWindow \in Nat \ {0}
ASSUME TimeoutsAssumption == FetchTimeout \in Nat /\ CommitTimeout \in Nat /\ ProduceTimeout \in Nat

Pipelines == Consumers \cup {Relay}

VARIABLES
  running,              \* Status.Running
  progress,             \* ticks since Status.LastProgress, up to StaleAfter + 1
  firstError,           \* ticks since Status.FirstErrorAt, up to ErrorWindow, or Never
  at,                   \* at[p]: the step pipeline p is at
  lasted,               \* lasted[p]: ticks it has been there, where that matters
  hadError,             \* hadError[p]: the poll brought a fetch error
  database, broker,     \* up or down
  backlog,              \* there are unpublished rows that no other replica's relay holds
  good                  \* history: ticks since a round of p went well, up to StaleAfter + 1

status == <<running, progress, firstError>>
loops == <<at, lasted, hadError>>
world == <<database, broker, backlog>>
monitorVars == <<status, loops, world, good>>

MonitorTypeOK ==
  /\ running \in [Pipelines -> BOOLEAN]
  /\ progress \in [Pipelines -> 0..StaleAfter + 1]
  /\ firstError \in [Pipelines -> 0..ErrorWindow \cup {Never}]
  /\ at \in [Pipelines -> {"registered", "wait", "select", "produce", "mark",
                           "poll", "handle", "commit", "exited"}]
  /\ lasted \in [Pipelines -> 0..FetchTimeout + CommitTimeout + ProduceTimeout + 1]
  /\ hadError \in [Pipelines -> BOOLEAN]
  /\ database \in BOOLEAN /\ broker \in BOOLEAN /\ backlog \in BOOLEAN
  /\ good \in [Pipelines -> 0..StaleAfter + 1]

(* The server listens: the consumers are registered, the relay is started.  *)
MonitorInit ==
  /\ running = [p \in Pipelines |-> p = Relay]
  /\ progress = [p \in Pipelines |-> 0]
  /\ firstError = [p \in Pipelines |-> Never]
  /\ at = [p \in Pipelines |-> IF p = Relay THEN "wait" ELSE "registered"]
  /\ lasted = [p \in Pipelines |-> 0]
  /\ hadError = [p \in Pipelines |-> FALSE]
  /\ database = TRUE /\ broker = TRUE /\ backlog = FALSE
  /\ good = [p \in Pipelines |-> 0]

-----------------------------------------------------------------------------
(* What a pipeline reports.                                                 *)
Start(p) ==
  /\ running' = [running EXCEPT ![p] = TRUE]
  /\ progress' = [progress EXCEPT ![p] = 0]
  /\ UNCHANGED firstError

(* Fault: progress leaves the time of the first error. *)
ProgressKeepingError(p) ==
  /\ running' = [running EXCEPT ![p] = TRUE]
  /\ progress' = [progress EXCEPT ![p] = 0]
  /\ UNCHANGED firstError

Progress(p) ==
  /\ running' = [running EXCEPT ![p] = TRUE]
  /\ progress' = [progress EXCEPT ![p] = 0]
  /\ firstError' = [firstError EXCEPT ![p] = Never]

(* Fault: an error is a sign of life, too. *)
ErrorAsHeartbeat(p) ==
  /\ running' = [running EXCEPT ![p] = TRUE]
  /\ firstError' = [firstError EXCEPT ![p] = IF @ = Never THEN 0 ELSE @]
  /\ progress' = [progress EXCEPT ![p] = 0]

Error(p) ==
  /\ running' = [running EXCEPT ![p] = TRUE]
  /\ firstError' = [firstError EXCEPT ![p] = IF @ = Never THEN 0 ELSE @]
  /\ UNCHANGED progress

Stop(p) ==
  /\ running' = [running EXCEPT ![p] = FALSE]
  /\ UNCHANGED <<progress, firstError>>

StepTo(p, step) == at' = [at EXCEPT ![p] = step] /\ lasted' = [lasted EXCEPT ![p] = 0]
WentWell(p) == good' = [good EXCEPT ![p] = 0]

-----------------------------------------------------------------------------
(* Run: the loop begins.                                                    *)
Launch(c) ==
  /\ at[c] = "registered"
  /\ Start(c) /\ WentWell(c)
  /\ StepTo(c, "poll")
  /\ UNCHANGED <<hadError, world>>

(* The relay's ticker fires every second.                                   *)
RelayTick ==
  /\ at[Relay] = "wait"
  /\ StepTo(Relay, "select")
  /\ UNCHANGED <<status, hadError, world, good>>

(* Fault: a query that succeeds is progress, whatever it brings. *)
SelectReporting ==
  /\ at[Relay] = "select"
  /\ \/ database /\ Progress(Relay) /\ StepTo(Relay, IF backlog THEN "produce" ELSE "wait")
     \/ ~database /\ Error(Relay) /\ StepTo(Relay, "wait")
  /\ UNCHANGED <<hadError, world, good>>

(* Fault: only rows that are published are progress. *)
SelectQuietly ==
  /\ at[Relay] = "select"
  /\ \/ database /\ StepTo(Relay, IF backlog THEN "produce" ELSE "wait") /\ UNCHANGED status
     \/ ~database /\ Error(Relay) /\ StepTo(Relay, "wait")
  /\ UNCHANGED <<hadError, world, good>>

(* The rows are selected.  None: the relay is idle, which is progress.      *)
SelectUnpublished ==
  /\ at[Relay] = "select"
  /\ \/ /\ database /\ ~backlog
        /\ Progress(Relay) /\ WentWell(Relay) /\ StepTo(Relay, "wait")
     \/ /\ database /\ backlog
        /\ StepTo(Relay, "produce") /\ UNCHANGED <<status, good>>
     \/ /\ ~database
        /\ Error(Relay) /\ StepTo(Relay, "wait") /\ UNCHANGED good
  /\ UNCHANGED <<hadError, world>>

Produce ==
  /\ at[Relay] = "produce"
  /\ \/ broker /\ StepTo(Relay, "mark") /\ UNCHANGED status
     \/ ~broker /\ Error(Relay) /\ StepTo(Relay, "wait")
  /\ UNCHANGED <<hadError, world, good>>

(* UPDATE and COMMIT; there may be more rows than fit one batch.            *)
MarkPublished ==
  /\ at[Relay] = "mark"
  /\ StepTo(Relay, "wait")
  /\ \/ database /\ Progress(Relay) /\ WentWell(Relay) /\ backlog' \in BOOLEAN
     \/ ~database /\ Error(Relay) /\ UNCHANGED <<backlog, good>>
  /\ UNCHANGED <<hadError, database, broker>>

(* A batch panics: reported like an error, and the next tick tries again.   *)
RelayPanics ==
  /\ at[Relay] \in {"select", "produce", "mark"}
  /\ Error(Relay) /\ StepTo(Relay, "wait")
  /\ UNCHANGED <<hadError, world, good>>

-----------------------------------------------------------------------------
(* PollFetches returns records, nothing for FetchTimeout, or a fetch error. *)
(* An outage of the broker can look like either of the latter two.          *)
Poll(c) ==
  /\ at[c] = "poll"
  /\ StepTo(c, "handle")
  /\ \/ hadError' = [hadError EXCEPT ![c] = FALSE] /\ UNCHANGED status
     \/ ~broker /\ hadError' = [hadError EXCEPT ![c] = TRUE] /\ Error(c)
  /\ UNCHANGED <<world, good>>

(* A record panics: it is reported and skipped.                             *)
HandlePanics(c) ==
  /\ at[c] = "handle"
  /\ Error(c)
  /\ UNCHANGED <<loops, world, good>>

(* All records are handled - whether the handlers' statements succeeded is  *)
(* only logged - and progress is reported if the fetch was clean.           *)
Handled(c) ==
  /\ at[c] = "handle"
  /\ StepTo(c, "commit")
  /\ IF hadError[c] THEN UNCHANGED <<status, good>> ELSE Progress(c) /\ WentWell(c)
  /\ UNCHANGED <<hadError, world>>

(* The offsets are committed after that.                                    *)
CommitOffsets(c) ==
  /\ at[c] = "commit"
  /\ StepTo(c, "poll")
  /\ \/ broker /\ UNCHANGED status
     \/ ~broker /\ Error(c)
  /\ UNCHANGED <<hadError, world, good>>

(* The loop ends: shutdown, or the client was closed.                       *)
Exit(p) ==
  /\ at[p] \in {"wait", "poll"}
  /\ StepTo(p, "exited")
  /\ Stop(p)
  /\ UNCHANGED <<hadError, world, good>>

-----------------------------------------------------------------------------
DatabaseChanges == database' = ~database /\ UNCHANGED <<status, loops, broker, backlog, good>>
BrokerChanges == broker' = ~broker /\ UNCHANGED <<status, loops, database, backlog, good>>

(* Users write; another replica's relay takes the rows or lets them go.     *)
BacklogChanges == backlog' = ~backlog /\ UNCHANGED <<status, loops, database, broker, good>>

(* How long a pipeline can be at a step; where nothing limits it, lasted is *)
(* not counted.                                                             *)
Limited(p) ==
  \/ at[p] \in {"wait", "poll", "produce", "commit"}
  \/ at[p] \in {"select", "mark", "handle"} /\ database
Deadline(p) ==
  CASE at[p] = "poll" -> FetchTimeout
    [] at[p] = "produce" -> ProduceTimeout
    [] at[p] = "commit" -> CommitTimeout
    [] OTHER -> 1

Older(age, limit) == IF age < limit THEN age + 1 ELSE limit

TimePasses ==
  /\ \A p \in Pipelines : Limited(p) => lasted[p] < Deadline(p)
  /\ lasted' = [p \in Pipelines |-> IF Limited(p) THEN lasted[p] + 1 ELSE lasted[p]]
  /\ progress' = [p \in Pipelines |-> Older(progress[p], StaleAfter + 1)]
  /\ good' = [p \in Pipelines |-> Older(good[p], StaleAfter + 1)]
  /\ firstError' = [p \in Pipelines |->
                      IF firstError[p] = Never THEN Never ELSE Older(firstError[p], ErrorWindow)]
  /\ UNCHANGED <<running, at, hadError, world>>

Works(p) ==
  IF p = Relay THEN RelayTick \/ SelectUnpublished \/ Produce \/ MarkPublished
  ELSE Poll(p) \/ Handled(p) \/ CommitOffsets(p)

Panics == RelayPanics \/ \E c \in Consumers : HandlePanics(c)

MonitorNext ==
  \/ \E c \in Consumers : Launch(c)
  \/ \E p \in Pipelines : Works(p) \/ Exit(p)
  \/ Panics
  \/ DatabaseChanges \/ BrokerChanges \/ BacklogChanges
  \/ TimePasses

MonitorSpec == MonitorInit /\ [][MonitorNext]_monitorVars

(* Time passes, and the goroutines of the loops are scheduled; a step that  *)
(* has no deadline need not end while what it waits for is down.            *)
FairSpec ==
  /\ MonitorSpec
  /\ SF_monitorVars(TimePasses)
  /\ \A p \in Pipelines : WF_monitorVars(p \in Consumers /\ Launch(p)) /\ WF_monitorVars(Limited(p) /\ Works(p))

-----------------------------------------------------------------------------
HasSustainedError(p) == firstError[p] # Never /\ firstError[p] >= ErrorWindow
IsStale(p) == progress[p] > StaleAfter

(* Check, and GET /ready, which also pings the database.                    *)
Check == \A p \in Pipelines : running[p] /\ ~HasSustainedError(p) /\ ~IsStale(p)
Ready == database /\ Check

(* A pipeline that has ended, or has had no good round for longer than      *)
(* StaleAfter - hanging or failing, in whatever step - is seen.             *)
LostPipelineShows ==
  \A p \in Pipelines : at[p] = "exited" \/ good[p] > StaleAfter => ~Check

(* A replica is not taken out of service for a failure that a good round    *)
(* has followed: unless a loop is not running, one of them has had none for *)
(* ErrorWindow.                                                             *)
UnreadyForAReason ==
  ~Check => \E p \in Pipelines :
              \/ at[p] \in {"registered", "exited"}
              \/ good[p] >= ErrorWindow \/ good[p] > StaleAfter

(* Types, and: Check reports a pipeline only for one of the reasons above. *)
MonitorInv == MonitorTypeOK /\ UnreadyForAReason

(* Once the database and the broker stay up and nothing panics any more,    *)
(* the replica becomes ready, and stays so.                                 *)
RecoversReady ==
  /\ <>[](database /\ broker) /\ <>[][~Panics]_monitorVars
  /\ [](\A p \in Pipelines : at[p] # "exited")
  => <>[]Ready

(* A broker that stays down while there are rows for this relay to publish  *)
(* takes the replica out of service: every round fails, and none of the     *)
(* errors is forgotten.                                                     *)
BrokenBrokerShows == <>[](~broker /\ backlog) => <>[]~Ready
=============================================================================
