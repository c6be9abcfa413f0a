# Relay: a TLA+ model of webhook receipt, delivery and the visitor sandbox

Relay accepts signed events over HTTP, stores them in PostgreSQL, delivers them
to an HTTPS destination with bounded retries, and shows the result. Several
processes work on the same tables without any coordination but SQL statements,
leases and timeouts. This project models those processes statement by
statement, checks them with TLC, and proves with TLAPS every safety property that
the passing runs check.

## Inventory

| Component | State | Operations | What is hard | What makes it correct |
| --- | --- | --- | --- | --- |
| Delivery queue (`internal/postgres/queue.go`, `migrations/`) | `events`, `delivery_attempts` | `Claim` (retire, recover, claim), `Record` | workers on several machines, leases on their clocks, rows locked and skipped, answers lost | one sender per event, stale records refused, gapless history, bounded attempts, everything settles |
| Delivery worker (`internal/delivery`) | the claimed event in hand | `RunOnce`, `Send` | crashes between statements, a context that expires | never outlives its lease |
| Delivery policy (`policy.go`, `sandbox.go`, receivers) | none | classification, delays, scenarios | constants in six files that must fit together | all eight attempts fit in 24 hours, no event is given up early |
| Worker loop and notifications (`cmd/worker`, `internal/notification`) | a batch of receipt handles, the next cleanup | `main_cycles`, `Cycle`, `Receive`, `Acknowledge` | nested timeouts, duplicate, lost and poison hints, partial failure | hints are only hints: none is needed, none is deleted unconsidered |
| Operator API (`internal/httpapi`, `store.go`, `replay.go`, `read.go`) | `events` | `Accept`, `Replay`, publication, `Overview`, `List`, `Detail` | retries of requests that were executed, two statements per handler, workers in between | a 202 is durable and all answers for a key agree; a detail shows the history its row speaks of |
| Demonstration receiver (`internal/demoreceiver`, the server of `cmd/api`) | slots for the bodies being read | `ServeHTTP` | clients that send slowly or go away, three timeouts in two programs | a full receiver is open again after the deadline; neither costs an event its attempts |
| Visitor sandbox (`internal/sandbox`) | sessions, the budget row, `events.sandbox_id` | `Create`, `Submit`, `Replay`, `Cleanup` | Cleanup against Claim and Record, quotas across hourly boundaries | quotas per window, foreign keys, every expired session goes |
| Visitor API (`sandbox/http.go`, `session.go`) | signed cookies in browsers | `Issue`, `Validate`, `create`, `submit`, `replay`, `detail`, `list` | checks and use in separate statements, cookie seconds against timestamps, two clocks, lost answers | only one's own events, what was checked still holds at the commit, denied no earlier than the last second of the session |
| Migration runner (`cmd/migrate`, `migrations/`) | `schema_migrations`, an advisory lock | `migrate` | overlapping deployments, images of different age, lost commits | each file once, in order, all or none |
| Database trust (`tls.go`, `gateway/`, start of `cmd/api`, `cmd/worker`, `cmd/migrate`) | a bundle of anchors in each process, the gateway's certificate | `ConfigureTLS`, `launch`, the documented rotation | what was read at start-up is old when it is used, crashes during a rotation, certificates that are expired or not yet valid on some clock | clients and gateway never lose each other; migrations get through |
| Signatures, dashboard, infrastructure | | | | see "Not modelled" |

The API commits a row and publishes a hint. Workers wake up on hints or on a
ticker, claim due rows, send, and record; they learn nothing from a hint but
that it is time to look. The sandbox puts its events in the same table, answers
them in process, and deletes them when the visitor's session has expired. All
clients reach the database through a TLS gateway whose identity they must trust;
a deployment migrates the schema through it before the services start.
`PROJECT.json` lists every component, and the hazards at the lines where they
bite.

## Modules

| Module | Models |
| --- | --- |
| `Policy` | pure functions: `HTTPOutcome`, `CanRetry`, the delay table with its jitter, the simulators |
| `EventRow` | one row of `events`, and what each SQL statement tests and writes |
| `EventLifecycle` | the abstract specification: the delivery contract's "State contract" |
| `DeliveryQueue` | both tables, the workers' `RunOnce`, receipt and replay; refines `EventLifecycle` |
| `DeliveryQueue_proofs` | the theorems about claims and leases |
| `DeliveryContract_proofs` | that `DeliveryQueue` implements `EventLifecycle`, and the theorems about the history |
| `DemoReceiver` | the demonstration receiver behind the API's server: connections, slots, deadlines |
| `RetrySchedule` | one event through all its attempts with the numbers of the source; composes the worker's sender with `DemoReceiver` |
| `RetrySchedule_proofs` | the theorems about the schedule, and about the receiver's slots |
| `SandboxQueue` | composes `DeliveryQueue` with sessions, budget, visitor operations and `Cleanup` |
| `Receipt` | the operator's handlers, reads included, statement by statement, against the workers |
| `WorkerLoop` | `main_cycles`, `Cycle` and SQS, with all timeouts |
| `Visitor` | the visitor's handlers and the cookie, between browser, API and Cleanup |
| `Migration` | the transaction of `cmd/migrate`, several runs of it at once |
| `Rotation` | trust bundles, the gateway's identity, and the operator who rotates both |
| `Deployment` | composes `Migration` and `Rotation`: the runs' connections go through the gateway |
| `SandboxQueue_proofs`, `Receipt_proofs`, `WorkerLoop_proofs`, `Visitor_proofs`, `Deployment_proofs` | the theorems about these components |
| `MC*` | instances for TLC |

**State and steps.** In `DeliveryQueue` a worker's place in `RunOnce` is `pc`:
`idle`, `claiming` (the context exists and `now` was read), `claimed` (Claim
has answered), `sending`, `recording` (Send has returned), `committing` (Record's
UPDATE holds the row lock). Between two places any other process, a tick or a
crash may come. A statement is atomic. `Record` is two steps because its row
lock and its invisible update last until commit; `Cleanup` is three for the same
reason. The other sandbox transactions are one step: all of them hold the
budget row, and the event rows they touch cannot be changed by a worker
meanwhile (a dead-lettered row is no candidate of Claim). `SKIP LOCKED` is the
set of rows that a concurrent statement may have locked; only when another
statement can be running may rows be skipped.

**Clocks.** `Claim` gets the worker's clock as a parameter (`now`), rows get the
database's `clock_timestamp()`. `ClockOffset` is the difference, and
`LeaseCoversAttempt` states what the lease of 30 seconds and the context of 20
seconds require of it: two clocks at most 10 seconds apart. A session's expiry
is set by the API's clock in the code and by the database's in the model.

**Failure.** `ClaimLost`: the statement is executed and its answer is lost.
`Abandon`: the process dies, a call fails, or the context expires, in any place.
`RecordRejected`: a constraint refuses the INSERT, `finished_at >= started_at`
when the worker's clock was set back during the request among them. In `Receipt` every handler
may fail or die between two statements, with the statement executed or not. In
`WorkerLoop` every call may fail after SQS has executed it. In `Visitor` a
commit's answer, or the answer to the browser, may be lost; a run of `Migration`
may fail in any place, or commit and report a failure. In `Deployment` a gateway
that crashes or is replaced takes the open connections with it (`Lose`): the
database rolls back some time later, or had received the commit.

**Visitors.** A request in `Visitor` is at one of its statements: `active`
(`Store.Active`), `cleanup`, `issue`, `create`, `operate` (the handler's own
statement), `commit` (Submit and Replay have made their checks and hold the budget
row and the rows they checked), or `attempts` (the second statement of `Detail`).
The budget row serializes the transactions (`Admission`): between check and commit
time passes, workers and reads go on, and Cleanup, Create and other admissions
wait. A session may end in between, so an event can be stored for a session that
has just ended; the request's five seconds bound by how much. Quotas are abstracted
to a refusal that may come at any time, because `SandboxQueue` has them; Cleanup is
one step that deletes some events of expired sessions (leases and the limit spare
others), then some expired sessions without events. The cookie's MAC is genuine or not, its expiry is in whole seconds
(`Unix`). Once answered, a request keeps only what the browser or a property
looks at. A request for an event names an identifier that was given out to
someone.

The API has one clock, at a constant distance (`Ahead`) from the database's. API
tasks that overlap in a deployment, each with its own clock, and a clock that is
set back are not modelled. There `session.go:70` can refuse a genuine cookie that a
faster clock has just issued, because it expires later than a fresh one may, until
the slower clock has caught up, and `create` would then draw a second session;
`DeniedAtTheEnd` and `FreshQuotaAtTheEnd` are shown for one clock only.

**Hints.** A receipt handle in `WorkerLoop` remembers how many claims its event
had at the receive, plus one if the event was due then (`owed`, a history field
that no step reads): this is what `DeletedIsConsidered` compares with the claims at
the acknowledgement.

**Reads.** `Detail` is two statements, and workers, replays and Cleanup come
between them. The operator's answer keeps both results (`Receipt`); for a visitor
what matters is whether Cleanup has deleted the attempts meanwhile (`Visitor`).
`Overview` and `List` are one statement each and nothing depends on their
content. The workers in `Receipt` are `Claim`, `Record` and `Retire` without
leases, which are in `DeliveryQueue`.

**The demonstration receiver.** A connection is idle, sending its headers, having
its body read (it holds a slot), or answered. Others (`Guest`) connect, send
flawed or good requests, stop sending and leave at any time. The server acts on
`ReadHeaderTimeout` and `ReadTimeout`, the worker's client on its own timeout,
and none of them lets time pass beyond its deadline. An attempt that failed for
such a reason is marked in `disturbed`, which only `ScenariosEnd` looks at.

**Trust.** A certificate is old or new, and valid from one instant until another
(`Valid`, the half-open interval of both start-up checks); a bundle is a sequence
of them, accepted as a whole or not at all (`databaseCARoots`). Every process
compares with its own clock, which may be off by any member of `Offsets`, another
one at each check. A service reads its bundle (`Start`), has the notification queue
checked (`Open`), and keeps the bundle until it ends; the gateway validates its
certificate and the backend's CA and then executes the pooler (`Validate`, `Exec`).
Certificates are self-signed, so the identity is its own anchor. The operator
(`Rotate`) is the sequence of `docs/database-tls-contract.md:49`: both anchors in
both secrets, restart the clients, replace the gateway, drop the old anchor, restart
the clients; each step waits for the check that the document names. Two more of its
requirements bind the operator. "Certificates must currently be valid" (line 10): a
bundle is distributed only once its certificates are valid on every clock
(`Distribute`); one that is still in the future on the clock of a process that
starts would reject the whole bundle (line 32, `tls.go:91`). "Complete rotation
before either bundled certificate expires" (line 57): `RotationTick` assumes it, on
every clock.

**Data.** Bodies, URLs, excerpts and digests are left out or are names that are
equal or not. Signatures, media types and the other checks of `events_post` are
"flaws" of a request, each with the status it is refused with. UUIDs are fresh
names.

## Runs

| Run | Bounds | Shows |
| --- | --- | --- |
| `queue_safety` | 1 event, 2 workers one tick apart, 2 attempts, 1 replay, statuses 204, 503, 600; lease 3, context 2, window 5, 8 ticks at most | all safety properties of the queue, the inductive invariant of the proofs and the refinement of `EventLifecycle` |
| `queue_liveness` | 2 events, 1 worker with faults, retirements limited to 1, the clock runs past window and lease | `EventuallySettled` |
| `queue_terminal`, `queue_recorded` | 1 worker | two statements of `docs/delivery-contract.md` that the code does not keep (below) |
| `retry_schedule` | real constants in milliseconds, extreme and middle jitter; the demonstration receiver with 1 slot and 2 connections, time in steps of 5 s | the schedule's properties, and `FullEnds` |
| `sandbox_cleanup` | 1 worker with faults, 1 session, 1 event; lease 3, context 2, the clock runs past session and lease | Cleanup against Claim and Record, and `ExpiredSessionsVanish` |
| `sandbox_admission` | 2 sessions, 2 events, quotas of 1, windows of 2 ticks, the clock read up to 1 tick back | quotas |
| `receipt` | 3 requests, 1 key, 2 bodies, 2 attempts, 1 replay | the properties of receipt, replay and reads |
| `loop_shared` | 2 workers, 1 attempt a cycle, 2 hints, one poison, 2 receives, events that fall due twice | visibility and redrive against a second worker, and hints of events that were claimed before; time is unbounded |
| `loop_liveness` | 1 worker, 2 attempts a cycle, 2 events that fall due twice, 1 hint | the timeouts of a cycle, and `EventuallyClaimed`; time is unbounded |
| `visitor` | 2 browsers, 2 requests under way, 2 sessions, 1 event; seconds of 2 ticks, sessions of 3, the API's clock 1 ahead, 4 ticks | the visitor's properties |
| `deployment` | a run of an image with 1 file and one of an image with 3, on an empty database or one of either version; 2 services; 1 failed statement and 1 crash; clocks that are right or 1 tick behind; the new certificate is not yet valid on the slow ones at first, the old one expires after the rotation, within 2 ticks | the properties of migration and rotation |

*Why the bounds are enough.* The properties of the queue relate one event to the
workers that compete for it: two workers give every race of a holder and a
challenger, a third only repeats the second. Two attempts and one replay reach
first, middle and last attempts of the first and of a later generation; the
window ends inside, on and after a lease. Two events, for the order of the queue
and the limit of the retirements, are in `queue_liveness`, where one of them must not
starve the other, and any number of events and workers in the theorems.
`AcceptUntil` and `Horizon` bound time in the queue models; `WorkerLoop` counts
time down and needs no such bound. In `visitor` a session
begins and ends on either side of a second's boundary, its cookie expires before
its row, and a second request is under way at each of its statements. One slot and
one other connection are enough to find the receiver full, as are four with more
connections: a slot is given back by the request that holds it. The deadlines
are multiples of the 5 seconds in which time passes. In `receipt` a detail, a
replay and a receipt meet around one row, with both of its attempts before and
after the replay. In `deployment` a crash hits the gateway or a service in each
phase of the rotation, and each service in each phase of the other's restart; the
operator must wait for the slow clocks. In `loop_shared` an event falls due a second
time, as after a retry or a replay, before, while and after its hint is received. The
theorems hold without any bound.

*Deadlock* is checked, except in `receipt` and `retry_schedule`, which end when
every request is answered and every event settled, and in `visitor`, which ends
with the bounded clock and identifiers.

### Properties

- `AttemptOwnsRow`, `OneSender`: inside its context a worker owns its row, so
  that two live requests are never for the same event.
- `LockHolderCurrent`, `DeliveredOnce`: a record is applied to the row as it was
  claimed; an event with a success is delivered and stays so.
- `AttemptKeyUnused`, `AttemptHistory`: recovery and replay never reuse an
  attempt number and leave no holes.
- `ClaimWithinBudget`: the CHECK on `attempt_count` never aborts Claim, which
  would stop the whole queue.
- `LateStartBounded`, `VisitBounded`: how stale the age and the expiry that Claim
  compares can be when the attempt starts.
- `ContractSpec`: only the contract's transitions happen.
- `BudgetFitsWindow`, `DeadLetterEarned`, `ScenariosEnd`, `FullEnds` for the
  schedule and the receivers. `DeadLetterEarned` depends on the order of timeouts
  in two programs: the receiver answers a body that does not arrive with 400, which
  would be terminal, but after 15 seconds, when the worker has given up after 10.
- `ReferencesHold`, `CleanupUnobstructed`, `QuotaPerWindow`,
  `ExpiredSessionsVanish` for the sandbox.
- `AcceptedIsStored`, `ConflictIsReal`, `ReplayOncePerDeath`,
  `DetailShowsHistory` for the API. The last holds because `Detail` reads the row
  first: what happens between its statements can only add attempts.
- `HandlesCurrent`, `CycleFits`, `DeletedIsConsidered`, `CleanupPunctual`,
  `EventuallyClaimed` for the loop. `DeletedIsConsidered` says that an event that
  was due when its hint was received, for the first time or again, has been claimed
  since. It has the two exceptions that the code has: a cycle that took a full batch,
  and one that passed over rows another statement had locked.
- `DeniedAtTheEnd`, `FreshQuotaAtTheEnd`, `OnlyOwn`,
  `AdmissionStands` for the visitor's API. The end of a session is fuzzy by a
  second and by the difference of the two clocks; the first two state how fuzzy. The
  last says that the locks carry what Submit and Replay have checked to their commit:
  Replay's UPDATE does not repeat the checks, and its row count is not looked at.
- `AppliedInOrder`, `SuccessIsCurrent`, `EventuallyNewest` for migrations, also
  through a gateway that goes away and comes back with another identity.
- `NoTrustOutage`, `RestartTrusts`, `RotationCompletes` for the rotation: who runs
  can connect, who starts again finds every anchor valid on its own clock and can
  connect, and it comes to its end.

`TypeOK` is checked and proved for `DeliveryQueue`; elsewhere the inductive
invariant of the proofs includes the types. `AttemptOwnsRow` is checked in `sandbox_cleanup`, where
Cleanup too could take a row from its holder, and proved for both specifications.

Each property of a passing run has a mutant in `PROJECT.json`: a plausible bug
in one definition under which TLC finds the property violated.

### Fairness

- `DeliveryQueue!Fairness`: time passes, a cycle follows a cycle (the ticker), a
  step of `RunOnce` ends because its context does, and not every Claim statement
  is cut off. Nothing is assumed of the destination or of Record.
- `SandboxFairness`: Cleanup runs every minute (`cmd/worker/main.go:84`) and does
  not fail each time, nor meet a Claim statement on the same rows each time.
- `WorkerLoop!Fairness`: a stopped worker is started again (the service's desired
  count) and not every cycle is cut short before its first Claim statement. No
  hint need be published, every Receive may fail.
- `RetrySchedule!FairSpec`: time passes however many requests come and go at one
  instant (strong fairness of `PassDemo`), the server acts on its deadlines
  (`cmd/api/main.go:155`) and the worker on its client's. No client need send
  anything.
- `Deployment!FairSpec`, weak fairness only: what has crashed is started again
  (the platform's restart policy), a migration goes on and is repeated when it has
  failed, the operator goes on, and time passes, so that a new certificate becomes
  valid. The number of crashes and of failed statements
  is bounded; failures to connect are not.

### Findings

- `queue_terminal`: a status from 600 on is classified as terminal
  (`policy.go:22`, and `policy_test.go:16` expects it), but the table's CHECK
  admits 100 to 599 only. Record is rolled back and the request repeated after
  every lease until the event is 24 hours old.
- `queue_recorded`: a request whose worker died leaves no attempt record when its
  lease is retired; the contract asks for a record of every request.

Not a finding, but worth knowing: the contract forbids an attempt for an event
older than 24 hours, and the age is compared with a clock reading up to 20
seconds old. `LateStartBounded` is what holds.

## Proofs

Eight modules hold theorems, for every set of events, workers, requests, sessions,
services and runs, every response, and all constants that satisfy the assumptions;
the queue's for every delay table, the schedule's for that of the source. Bounds
such as `Horizon` are constants too, so that no theorem depends on one.

| Module | Theorem | Says |
| --- | --- | --- |
| `DeliveryQueue_proofs` | `ClaimInvHolds`, `TypeCorrect` | `Spec => []ClaimInv`, `[]TypeOK` |
| | `BudgetSafe` | `Spec => []ClaimWithinBudget` |
| | `LeaseSafe` | `Spec => []AttemptOwnsRow` |
| | `MutualExclusion` | `Spec => []OneSender` |
| | `RecordIsCurrent` | `Spec => []LockHolderCurrent` |
| `DeliveryContract_proofs` | `QueueImplementsContract` | `Spec => ContractSpec`, the refinement of `EventLifecycle` |
| | `QueueInvHolds` | `Spec => []QueueInv` |
| | `HistoryComplete`, `KeysUnique`, `SuccessIsFinal` | `[]AttemptHistory`, `[]AttemptKeyUnused`, `[]DeliveredOnce` |
| | `StartsInWindow` | `Spec => LateStartBounded` |
| `SandboxQueue_proofs` | `SandboxInvHolds` | `SandboxSpec => []SandboxInv` |
| | `QuotasKept`, `ForeignKeysHold`, `CleanupNeverRestricted` | `[]QuotaPerWindow`, `[]ReferencesHold`, `[]CleanupUnobstructed` |
| | `VisitorLeaseSafe`, `VisitsEnd` | `SandboxSpec => []AttemptOwnsRow`, `VisitBounded` |
| `Receipt_proofs` | `ReceiptInvHolds`, `ReceiptTypes` | `Spec => []ReceiptInv`, `[]TypeOK` |
| | `AcceptedStored`, `ConflictsReal` | `[]AcceptedIsStored`, `[]ConflictIsReal` |
| | `ReplaysEarned`, `DetailsComplete` | `[]ReplayOncePerDeath`, `[]DetailShowsHistory` |
| `WorkerLoop_proofs` | `LoopInvHolds` | `Spec => []LoopInv` |
| | `HandlesStayCurrent`, `CyclesFit`, `CleanupsPunctual` | `[]HandlesCurrent`, `[]CycleFits`, `[]CleanupPunctual` |
| | `DeletedConsidered` | `Spec => DeletedIsConsidered` |
| `Visitor_proofs` | `VisitorInvHolds` | `Spec => [](VisitorInv /\ AdmissionInv)` |
| | `DeniedOnlyAtTheEnd`, `FreshQuotaOnlyAtTheEnd`, `OnlyOwnShown` | `[]DeniedAtTheEnd`, `[]FreshQuotaAtTheEnd`, `[]OnlyOwn` |
| | `AdmissionsStand` | `Spec => []AdmissionStands` |
| `RetrySchedule_proofs` | `ScheduleInvHolds` | `Spec => []ScheduleInv` |
| | `WindowTheorem`, `EarnedTheorem`, `ScenariosTheorem` | `[]BudgetFitsWindow`, `[]DeadLetterEarned`, `[]ScenariosEnd` |
| | `SimulatorsAgree` | the three simulators answer alike |
| | `SlotsTheorem` | `Spec => []SlotsOK`: the slots are those of the bodies being read |
| `Deployment_proofs` | `RotationInvHolds`, `TrustUninterrupted`, `RestartsTrusted` | `Spec => []RotationInv`, `[]NoTrustOutage`, `[]RestartTrusts` |
| | `MigrationInvHolds`, `MigrationsInOrder` | `Spec => []MigrationInv`, `[]AppliedInOrder` |
| | `SuccessCurrent` | `Spec => SuccessIsCurrent` |

### Assumptions

The named ASSUMEs of the modules, which TLC evaluates in their runs. Most only
type the constants and keep `NULL` apart from the values. These say more, and each
is a fact about the code's constants or its deployment:

- `LeaseCoversAttempt`: the context of an attempt and the difference of any two
  clocks fit into the lease (20 + 10 <= 30 seconds). `LeaseCoversCleanup`: the
  same for the database's clock, with which Cleanup compares leases.
- `BoundsAssumption`: receive, ten attempts and acknowledgement fit into a cycle
  (12 + 200 + 3 <= 220), a cycle into the visibility timeout (220 < 300), and a
  cleanup into its period.
- `OverlapAssumption`: two anchors fit into a bundle, and on every clock the old
  certificate is valid when the rotation begins and the new one outlasts it. By how
  much clocks differ is arbitrary.
- `SourceNumbers`: eight attempts, 24 hours, the client's 10 and the server's 15
  seconds, and a clock whose step falls between the two. Whether all attempts fit
  into the window is a question about these very numbers; the delay table is in
  `Policy`. Jitters, durations, statuses, slots and clients remain arbitrary.
- `ReceiptAssumption`: there are finitely many requests, which are counted.

### Arguments

Hardly any of the safety properties is inductive by itself. Each proof names a
stronger invariant, which TLC found to hold on the instances of the runs before it
was proved (`QueueInv` is checked by `queue_safety`), and a lemma per action shows
that the action keeps it, with a step for each part that it can disturb.

*Claims* (`ClaimInv`). A row is claimed exactly while it is being delivered
(`RowShape`); a worker has a claim exactly while it is busy, and its `now` is its
deadline less the context (`WorkerShape`); no claim is shared (`ClaimsDistinct`);
if a row still carries a worker's claim, it is the row the worker remembers, and
its lease runs from the worker's `now` (`HolderAgrees`); a row locked for recording
carries the recorder's claim (`LockOwnsRow`). Then another worker that recovers or
retires the row has `lease_expires_at <= now`, hence by `LeaseCoversAttempt` the
holder's deadline has passed.

*History* (`QueueInv`, checked in `queue_safety`). `ClaimInv`, the recorded
attempts of each generation, those of a worker in hand included (`ClaimHistory`),
and that a claim was made inside the window (`ClaimedInWindow`). For the
refinement every statement is shown to be one transition of the contract for the
rows it touches, and to leave the others: `Claim`, which retires several rows and
takes one, is the interesting case.

*Sandbox* (`SandboxInv`). The worker's steps keep `ClaimInv` by the lemmas of the
queue; the visitor's are shown to touch no claimed row. The budget row counts what
its window was granted, and later windows were granted nothing (`QuotaOK`): that
makes a reading of the clock from before the boundary harmless. The rows that
Cleanup has locked stay deletable, and no Record holds one (`CleaningOK`).

*Receipt* (`ReceiptInv`). Where each handler is and what it has read; a receipt
that is to be published is durable under its own id; a row's counters speak only
of attempts that are stored (`RowHistory`), and what a detail has read remains
true, because attempts are only added; every replay had a dead-lettering of its
own (`DeathsOK`, by cardinality).

*Worker loop* (`LoopInv`). For each place of the loop, how much of the cycle's
context is left for the attempts still to come (`TimeOK`), how overdue the cleanup
can be, and that the message of a handle stays hidden for longer than the cycle
has left (`HandleOK`). `Promised` is the number of an event's claims, plus one
while it is due: it never decreases, so it stays at or above what a handle of its hint
is owed, and when nothing is due it is the number of claims.

*Visitor* (`VisitorInv`, `AdmissionInv`). A genuine cookie names a session that was stored, with
its expiry cut to seconds; an event goes with its session and not before; a
session is deleted only after its expiry; an identifier that is drawn and not yet
stored belongs to one request. `Evolve` states what no step takes back, and from
it follows that what a handler saw at one statement is still of use at the next.
Two facts about `Unix` carry the last second: it keeps the order, and it loses
less than a second. At most one admission is open, and nothing but itself changes
the rows that it has checked (`AdmissionInv`): Cleanup needs the budget row, and a
worker has no business with a dead letter.

*Schedule* (`ScheduleInv`). `LatestDue` is a table of the latest due time of each
attempt: the delays so far, each stretched by a fifth, and a read timeout for each
request. Its last entry, about 10.5 hours, is far inside the window, so only the
attempt limit or a terminal status ends an event. A scenario that nothing disturbed
is at one of its stages (`StagesOK`), because the three simulators agree. `MineOK`
says why the demonstration receiver cannot cost the worker its event: while the
worker waits, its request is younger than the server's read timeout, so the server
never answers it with the 400 of an unreadable body, only with the scenario's
status, 503 or nothing. `SlotsOK` is a separate induction, by cardinality: exactly
the bodies that are being read hold a slot.

*Deployment* (`RotationInv`, `MigrationInv`). Which anchors the secrets and
processes can have in each phase, which identity is in use, and that on every clock
the old certificate is not expired before the end (`ClockOK`) and the new one is
valid once it is in a secret (`IssuedOK`); who holds the
advisory lock, and that what it read is still the schema's version.

### Only model-checked

- Liveness: `EventuallySettled`, `ExpiredSessionsVanish`, `EventuallyClaimed`,
  `EventuallyNewest`, `RotationCompletes`, `FullEnds`. Fairness is out of the
  prover's reach.
- The two findings, which are violations.

## Not modelled

- The dashboard (`web/`, `internal/webui`): it presents what the API answers, and
  nothing depends on its state.
- Signatures, MACs and UUIDs: valid or not, and fresh names.
- The dialer's address ranges: a refusal is `SendRefused`, the ranges are tables of
  numbers that unit tests cover.
- Which configurations are accepted: `Queue.Check`'s attributes, host names,
  passwords, keys, PEM encodings, TLS versions. They are comparisons of strings
  made once at start-up; what follows from accepting or refusing them is modelled.
- The gateway's private directories in tmpfs, which each launch adds and only a
  replacement removes: a matter of bytes, listed as a hazard.
- The Terraform files, but for the queue's redrive and the two secrets.
- The content of `Overview` and `List`.

Network behaviour below HTTP, PostgreSQL's own failure modes other than lost and
failed statements, and the columns no transition reads (`delivered_at`, excerpts)
are abstracted. In `WorkerLoop` calls return when their context expires and the
process is not suspended: the five seconds of slack in a cycle are not modelled.
A rotation that is not finished when the old certificate expires is outside
`Rotation`, as the documentation says it must not happen; the bundle is then
refused by every process that starts. So is one that distributes a certificate
before every clock has reached its first instant: a process that starts meanwhile is
refused until its clock has. The gateway's limits on connections are not
modelled either: a run that waits too long for one fails and is repeated.
