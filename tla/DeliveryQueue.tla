--------------------------- MODULE DeliveryQueue ----------------------------
(***************************************************************************)
(* The delivery queue: the events and delivery_attempts tables, the        *)
(* workers that claim due events, send them over HTTP and record the       *)
(* outcome, and the operator's receipt and replay.                         *)
(*                                                                         *)
(* A worker is a process that repeats RunOnce.  One RunOnce reads its      *)
(* clock, executes the Claim statement, sends, and runs the Record         *)
(* transaction, each a separate step, so that any other process, a tick of *)
(* the clock or a crash can come between two of them.  Statements are      *)
(* atomic; the Record transaction is two steps, because the row it has     *)
(* updated stays locked (and its update invisible) until it commits.       *)
(***************************************************************************)
EXTENDS EventRow, FiniteSets

CONSTANTS
  EventIds,         \* the events that may be received
  Workers,          \* the worker processes
  ClockOffset,      \* how far each worker's clock is ahead of the database's
  AttemptTimeout,   \* the context of one RunOnce, 20 seconds
  Delays,           \* Delays[n]: the delays next_attempt_at may add after
                    \*   attempt n
  Responses,        \* what a request may end with: statuses, NoResponse
  RetireLimit,      \* the LIMIT of Claim's expired rows, 10
  Faults,           \* whether workers crash and calls fail
  Horizon,          \* bound: the last tick of the clock
  AcceptUntil       \* bound: the last tick at which an event is received

ASSUME QueueAssumption ==
  /\ ClockOffset \in [Workers -> Int]
  /\ AttemptTimeout \in Nat \ {0}
  /\ Delays \in [1..MaxAttempts -> SUBSET Nat]
  /\ Responses \subseteq Int
  /\ RetireLimit \in Nat \ {0}
  /\ Faults \in BOOLEAN
  /\ {Horizon, AcceptUntil} \subseteq Nat
  /\ NULL \notin EventIds

\* A lease outlives the attempt it was taken for, whichever two clocks
\* measure the two: 20 seconds against 30, so the clocks may be up to 10
\* seconds apart.
ASSUME LeaseCoversAttempt ==
  \A v, w \in Workers :
    AttemptTimeout + ClockOffset[v] <= Lease + ClockOffset[w]

VARIABLES
  clock,      \* the database's clock
  events,     \* the rows of p3_relay.events
  attempts,   \* the rows of p3_relay.delivery_attempts
  sent,       \* history: the attempts whose request was put on the wire
  pc,         \* where each worker is in RunOnce
  now,        \* the worker's argument `now`
  deadline,   \* when its attempt context expires, on the database's clock
  claimed,    \* its ClaimedEvent
  attempt     \* its Attempt

vars == <<clock, events, attempts, sent, pc, now, deadline, claimed, attempt>>
local == <<pc, now, deadline, claimed, attempt>>

-----------------------------------------------------------------------------
(***************************************************************************)
(* Types and shorthands.                                                   *)
(***************************************************************************)
AttemptKeys ==
  [event_id : EventIds, replay_number : 0..MaxReplays,
   attempt_number : 1..MaxAttempts]

ClaimedEvents ==
  [event_id : EventIds, claim_id : ClaimIds, replay_number : 0..MaxReplays,
   attempt_number : 1..MaxAttempts, created_at : Int]

Attempts ==
  [outcome : Outcomes, status_code : Int,
   finished_at : Int, next_attempt_at : Int]

\* NULL, here Go's nil, is neither a claimed event nor an attempt.
ASSUME NilAssumption == NULL \notin ClaimedEvents /\ NULL \notin Attempts

\* The places of RunOnce at which a worker has a claimed event in hand.
Busy == {"claimed", "sending", "recording", "committing"}

TypeOK ==
  /\ clock \in 0..Horizon
  /\ events \in [EventIds -> Rows]
  /\ attempts \subseteq [key : AttemptKeys, outcome : Outcomes]
  /\ sent \subseteq AttemptKeys
  /\ pc \in [Workers -> {"idle", "claiming"} \cup Busy]
  /\ now \in [Workers -> Int]
  /\ deadline \in [Workers -> Int]
  /\ claimed \in [Workers -> ClaimedEvents \cup {NULL}]
  /\ attempt \in [Workers -> Attempts \cup {NULL}]

RecordedKeys == {a.key : a \in attempts}

\* The primary key material of the attempt a worker is making.
KeyOf(c) == [event_id |-> c.event_id, replay_number |-> c.replay_number,
             attempt_number |-> c.attempt_number]

\* The attempt that the row of event e counts.
RowKey(e) == [event_id |-> e, replay_number |-> events[e].replay_count,
              attempt_number |-> events[e].attempt_count]

\* The rows that a Record transaction holds locked.
LockedRows ==
  {claimed[w].event_id : w \in {v \in Workers : pc[v] = "committing"}}

Init ==
  /\ clock = 0
  /\ events = [e \in EventIds |-> NoRow]
  /\ attempts = {}
  /\ sent = {}
  /\ pc = [w \in Workers |-> "idle"]
  /\ now = [w \in Workers |-> 0]
  /\ deadline = [w \in Workers |-> 0]
  /\ claimed = [w \in Workers |-> NULL]
  /\ attempt = [w \in Workers |-> NULL]

-----------------------------------------------------------------------------
(***************************************************************************)
(* Time, receipt and replay.                                               *)
(***************************************************************************)
Tick ==
  /\ clock < Horizon
  /\ clock' = clock + 1
  /\ UNCHANGED <<events, attempts, sent, local>>

\* A new receipt is inserted and committed.
Accept(e) ==
  /\ clock <= AcceptUntil
  /\ events[e].state = "absent"
  /\ events' = [events EXCEPT ![e] = NewRow(clock)]
  /\ UNCHANGED <<clock, attempts, sent, local>>

\* The operator's replay, one UPDATE.
Replay(e) ==
  /\ Replayable(events[e], MaxReplays)
  /\ events' = [events EXCEPT ![e] = Replayed(events[e], clock)]
  /\ UNCHANGED <<clock, attempts, sent, local>>

-----------------------------------------------------------------------------
(***************************************************************************)
(* RunOnce: the Claim statement.                                           *)
(***************************************************************************)

\* RunOnce returns, with or without an error; Cycle or the next tick of the
\* ticker calls it again.
Return(w) ==
  /\ pc' = [pc EXCEPT ![w] = "idle"]
  /\ now' = [now EXCEPT ![w] = 0]
  /\ deadline' = [deadline EXCEPT ![w] = 0]
  /\ claimed' = [claimed EXCEPT ![w] = NULL]
  /\ attempt' = [attempt EXCEPT ![w] = NULL]

\* Cycle creates the attempt context and reads time.Now().
BeginRunOnce(w) ==
  /\ pc[w] = "idle"
  /\ pc' = [pc EXCEPT ![w] = "claiming"]
  /\ now' = [now EXCEPT ![w] = clock + ClockOffset[w]]
  /\ deadline' = [deadline EXCEPT ![w] = clock + AttemptTimeout]
  /\ UNCHANGED <<clock, events, attempts, sent, claimed, attempt>>

\* The rows the statement may pass over because another Claim statement has
\* them locked at that instant (SKIP LOCKED).
Skippable(w) ==
  IF \E v \in Workers \ {w} : pc[v] = "claiming" THEN SUBSET EventIds ELSE {{}}

\* The first RetireLimit of the expired rows, oldest first.
Retirements(rows, t) ==
  LET expired == {e \in rows : Retirable(events[e], t)}
  IN  {r \in SUBSET expired :
         /\ Cardinality(r) <= RetireLimit
         /\ r = expired \/ Cardinality(r) = RetireLimit
         /\ \A e \in r, x \in expired \ r :
              events[e].created_at <= events[x].created_at}

\* The first of the due rows; rows that tie come in any order.
Candidates(rows, t) ==
  LET due == {e \in rows : Due(events[e], t)}
  IN  {e \in due : \A x \in due : ~Before(events[x], events[e])}

\* A UUID that no row and no worker knows.
FreshClaimIds ==
  {c \in ClaimIds :
     /\ \A e \in EventIds : events[e].claim_id # c
     /\ \A w \in Workers : claimed[w] # NULL => claimed[w].claim_id # c}

\* The state of the table after the statement retired r and claimed the
\* events of e (none, or one) for worker w.
ClaimTable(w, r, e, c) ==
  [x \in EventIds |->
     IF x \in r THEN Retired(events[x])
     ELSE IF x \in e THEN Claimed(events[x], now[w], c)
     ELSE events[x]]

\* What RETURNING hands to the worker.
ClaimReturns(e, c) ==
  [event_id |-> e, claim_id |-> c,
   replay_number |-> events'[e].replay_count,
   attempt_number |-> events'[e].attempt_count,
   created_at |-> events'[e].created_at]

\* The statement finds no candidate: it only retires, and RunOnce returns.
ClaimNothing(w, rows, live) ==
  /\ Candidates(rows \cap live, now[w]) = {}
  /\ \E r \in Retirements(rows, now[w]) :
       events' = ClaimTable(w, r, {}, NULL)
  /\ Return(w)
  /\ UNCHANGED <<clock, attempts, sent>>

\* The statement claims a candidate.  The CHECK on attempt_count would abort
\* it, retirements included.
ClaimOne(w, rows, live, e, c) ==
  /\ e \in Candidates(rows \cap live, now[w])
  /\ Claimed(events[e], now[w], c).attempt_count <= MaxAttempts
  /\ \E r \in Retirements(rows, now[w]) :
       events' = ClaimTable(w, r, {e}, c)
  /\ UNCHANGED <<clock, attempts, sent>>

\* The answer reaches the worker before its context expires ...
ClaimAnswered(w, rows, live) ==
  \E e \in rows, c \in FreshClaimIds :
    /\ clock < deadline[w]
    /\ ClaimOne(w, rows, live, e, c)
    /\ pc' = [pc EXCEPT ![w] = "claimed"]
    /\ claimed' = [claimed EXCEPT ![w] = ClaimReturns(e, c)]
    /\ UNCHANGED <<now, deadline, attempt>>

\* ... or the statement is executed and its answer is lost.
ClaimLost(w, rows, live) ==
  \E e \in rows, c \in FreshClaimIds :
    /\ Faults
    /\ ClaimOne(w, rows, live, e, c)
    /\ Return(w)

\* The statement sees the rows that nobody has locked; those of live may be
\* candidates (an event of an expired sandbox session may not).
ClaimStatement(w, rows, live) ==
  /\ pc[w] = "claiming"
  /\ \/ ClaimNothing(w, rows, live)
     \/ ClaimAnswered(w, rows, live)
     \/ ClaimLost(w, rows, live)

Claim(w) ==
  \E skipped \in Skippable(w) :
    ClaimStatement(w, EventIds \ (skipped \cup LockedRows), EventIds)

-----------------------------------------------------------------------------
(***************************************************************************)
(* RunOnce: sending and recording.                                         *)
(***************************************************************************)

next_attempt_at(attempt_number, t, outcome) ==
  IF outcome \in {"delivered", "terminal_http"} THEN {t}
  ELSE {t + d : d \in Delays[attempt_number]}

\* Send returns an attempt with that status and outcome.
Finish(w, status, outcome) ==
  LET t == clock + ClockOffset[w]
  IN  /\ pc' = [pc EXCEPT ![w] = "recording"]
      /\ \E next \in next_attempt_at(claimed[w].attempt_number, t, outcome) :
           attempt' = [attempt EXCEPT ![w] =
                         [outcome |-> outcome, status_code |-> status,
                          finished_at |-> t, next_attempt_at |-> next]]
      /\ UNCHANGED <<clock, events, attempts, now, deadline, claimed>>

\* The destination is refused before a request exists: no identifier, an
\* invalid or insecure URL, an address the dialer does not allow.
SendRefused(w) ==
  /\ Faults
  /\ pc[w] = "claimed"
  /\ Finish(w, NoResponse, "network_error")
  /\ UNCHANGED sent

\* The request leaves for the destination.
StartSend(w) ==
  /\ pc[w] = "claimed"
  /\ clock < deadline[w]
  /\ pc' = [pc EXCEPT ![w] = "sending"]
  /\ sent' = sent \cup {KeyOf(claimed[w])}
  /\ UNCHANGED <<clock, events, attempts, now, deadline, claimed, attempt>>

\* The request ends with a status, or without one (NoResponse).
Respond(w, r) ==
  /\ pc[w] = "sending"
  /\ clock < deadline[w]
  /\ Finish(w, r, IF r = NoResponse THEN "network_error" ELSE HTTPOutcome(r))
  /\ UNCHANGED sent

\* Record's UPDATE matches: the row is now locked by this transaction.
BeginRecord(w) ==
  /\ pc[w] = "recording"
  /\ claimed[w].event_id \notin LockedRows
  /\ OwnedBy(events[claimed[w].event_id], claimed[w].claim_id)
  /\ pc' = [pc EXCEPT ![w] = "committing"]
  /\ UNCHANGED <<clock, events, attempts, sent, now, deadline, claimed, attempt>>

\* Record's UPDATE matches no row: "delivery claim expired or was replaced".
RecordStale(w) ==
  /\ pc[w] = "recording"
  /\ ~OwnedBy(events[claimed[w].event_id], claimed[w].claim_id)
  /\ Return(w)
  /\ UNCHANGED <<clock, events, attempts, sent>>

\* The INSERT satisfies the table's CHECK and UNIQUE constraints.
Insertable(w) ==
  /\ StatusCheck(attempt[w].status_code)
  /\ KeyOf(claimed[w]) \notin RecordedKeys

\* The attempt is inserted and the transaction commits.  The worker may have
\* stopped waiting for the answer; the row changes all the same.
CommitRecord(w) ==
  /\ pc[w] = "committing"
  /\ Insertable(w)
  /\ LET c == claimed[w]
         a == attempt[w]
     IN  /\ events' = [events EXCEPT ![c.event_id] =
                         Recorded(@, record_state(c.attempt_number, c.created_at,
                                                  a.outcome, a.finished_at),
                                  a.next_attempt_at)]
         /\ attempts' = attempts \cup {[key |-> KeyOf(c), outcome |-> a.outcome]}
  /\ Return(w)
  /\ UNCHANGED <<clock, sent>>

\* The INSERT is refused and the transaction rolled back: by those constraints or,
\* with faults, because the worker's clock was set back between started_at and
\* finished_at.
RecordRejected(w) ==
  /\ pc[w] = "committing"
  /\ Faults \/ ~Insertable(w)
  /\ Return(w)
  /\ UNCHANGED <<clock, events, attempts, sent>>

\* RunOnce ends without recording: its context expired, or, with faults, a
\* call failed or the process died.  An open transaction is rolled back.
Abandon(w) ==
  /\ pc[w] # "idle"
  /\ Faults \/ clock >= deadline[w]
  /\ Return(w)
  /\ UNCHANGED <<clock, events, attempts, sent>>

-----------------------------------------------------------------------------
Attend(w) ==
  \/ BeginRunOnce(w) \/ Claim(w)
  \/ SendRefused(w) \/ StartSend(w) \/ \E r \in Responses : Respond(w, r)
  \/ BeginRecord(w) \/ RecordStale(w) \/ CommitRecord(w) \/ RecordRejected(w)
  \/ Abandon(w)

Next ==
  \/ Tick
  \/ \E e \in EventIds : Accept(e) \/ Replay(e)
  \/ \E w \in Workers : Attend(w)

Spec == Init /\ [][Next]_vars

\* Cycles never stop for good, a step of RunOnce ends (with an error, if its
\* context expires or its process dies), and not every execution of RunOnce
\* dies before or during its Claim statement.  Nothing is assumed of the
\* destination, and every attempt may be abandoned after its claim.
Fairness ==
  /\ WF_vars(Tick)
  /\ \A w \in Workers :
       /\ WF_vars(BeginRunOnce(w))
       /\ WF_vars(pc[w] # "idle" /\ Attend(w))
       /\ SF_vars(ClaimStatement(w, EventIds \ LockedRows, EventIds))

FairSpec == Spec /\ Fairness

-----------------------------------------------------------------------------
(***************************************************************************)
(* Safety.                                                                 *)
(***************************************************************************)

\* No row waits for an attempt its budget does not allow.  Claim's UPDATE
\* increments attempt_count under CHECK (attempt_count <= 8): one such row
\* at the head of the queue would abort every Claim statement, so that no
\* event of any destination is delivered or retired any more.
ClaimWithinBudget ==
  \A e \in EventIds :
    Waiting(events[e]) => events[e].attempt_count < MaxAttempts

\* A worker whose attempt context has not expired owns the row it claimed:
\* no other worker has recovered, retired or replayed the event under it,
\* although nothing but the lease keeps the others away while it sends.
AttemptOwnsRow ==
  \A w \in Workers :
    pc[w] \in Busy /\ clock < deadline[w] =>
      /\ events[claimed[w].event_id].state = "delivering"
      /\ events[claimed[w].event_id].claim_id = claimed[w].claim_id

\* At most one worker has a live request for an event.
OneSender ==
  \A v, w \in Workers :
    /\ v # w
    /\ {pc[v], pc[w]} = {"sending"}
    /\ clock < deadline[v] /\ clock < deadline[w]
    => claimed[v].event_id # claimed[w].event_id

\* The transaction that commits an attempt writes to the row as it was
\* claimed: same claim, same generation, same attempt, same age.  record_state
\* and the INSERT use the ClaimedEvent read before the request was sent.
LockHolderCurrent ==
  \A w \in Workers :
    pc[w] = "committing" =>
      LET c   == claimed[w]
          row == events[c.event_id]
      IN  /\ row.state = "delivering"
          /\ row.claim_id = c.claim_id
          /\ row.replay_count = c.replay_number
          /\ row.attempt_count = c.attempt_number
          /\ row.created_at = c.created_at

\* UNIQUE (event_id, replay_number, attempt_number) never rejects the record
\* of the worker that owns the row, which would repeat the request until the
\* event is too old.
AttemptKeyUnused ==
  \A w \in Workers :
    pc[w] = "committing" => KeyOf(claimed[w]) \notin RecordedKeys

\* The attempt before k in its generation, if there is one, is recorded.
PredecessorRecorded(k) ==
  k.attempt_number > 1 => [k EXCEPT !.attempt_number = @ - 1] \in RecordedKeys

\* The attempt history has no holes, runs exactly as far as the row counts,
\* and a request without a record can only be the last of its generation
\* (still being delivered, or retired with an expired lease).
AttemptHistory ==
  /\ \A k \in RecordedKeys :
       /\ k.replay_number <= events[k.event_id].replay_count
       /\ k.replay_number = events[k.event_id].replay_count =>
            k.attempt_number <= events[k.event_id].attempt_count
  /\ \A k \in RecordedKeys \cup sent : PredecessorRecorded(k)
  /\ \A e \in EventIds :
       /\ events[e].state \in {"delivered", "retry_scheduled"} =>
            RowKey(e) \in RecordedKeys
       /\ events[e].state = "delivering" => RowKey(e) \notin RecordedKeys

\* An event has a successful attempt exactly when it is delivered, and that
\* attempt is the last one it counts: nothing is sent after a success, and
\* no stale failure hides one.
DeliveredOnce ==
  \A a \in attempts :
    a.outcome = "delivered" =>
      /\ events[a.key.event_id].state = "delivered"
      /\ a.key = RowKey(a.key.event_id)

\* Why AttemptOwnsRow and LockHolderCurrent hold: the claim a worker has in
\* hand is its own, and if a row still carries it, that row is as it was
\* claimed and its lease was measured by the same `now` as the worker's
\* deadline.
RowShape ==
  \A e \in EventIds :
    IF events[e].state = "delivering"
    THEN /\ events[e].claim_id \in ClaimIds
         /\ events[e].lease_expires_at \in Int
         /\ events[e].attempt_count >= 1
    ELSE events[e].claim_id = NULL

WorkerShape ==
  \A w \in Workers :
    /\ pc[w] \in Busy <=> claimed[w] # NULL
    /\ pc[w] \in {"recording", "committing"} => attempt[w] # NULL
    /\ pc[w] # "idle" =>
         /\ now[w] = deadline[w] - AttemptTimeout + ClockOffset[w]
         /\ deadline[w] <= clock + AttemptTimeout

ClaimsDistinct ==
  /\ \A v, w \in Workers :
       v # w /\ claimed[v] # NULL /\ claimed[w] # NULL =>
         claimed[v].claim_id # claimed[w].claim_id
  /\ \A e, f \in EventIds :
       e # f /\ events[e].claim_id # NULL =>
         events[e].claim_id # events[f].claim_id

HolderAgrees ==
  \A w \in Workers, e \in EventIds :
    claimed[w] # NULL /\ events[e].claim_id = claimed[w].claim_id =>
      /\ e = claimed[w].event_id
      /\ events[e].replay_count = claimed[w].replay_number
      /\ events[e].attempt_count = claimed[w].attempt_number
      /\ events[e].created_at = claimed[w].created_at
      /\ events[e].lease_expires_at = now[w] + Lease

LockOwnsRow ==
  \A w \in Workers :
    pc[w] = "committing" =>
      events[claimed[w].event_id].claim_id = claimed[w].claim_id

\* The inductive invariant of claiming: the shape of rows and workers, claims
\* that are never shared, and what the holder of a claim may rely on.
ClaimInv ==
  /\ TypeOK
  /\ RowShape
  /\ WorkerShape
  /\ ClaimsDistinct
  /\ HolderAgrees
  /\ LockOwnsRow
  /\ AttemptOwnsRow
  /\ ClaimWithinBudget

\* Why the attempt history is complete: a generation starts without attempts,
\* and whoever is making an attempt, the holder of the row's claim or a worker
\* that has lost it, makes it after all earlier ones were recorded.
ClaimHistory ==
  /\ \A e \in EventIds :
       /\ events[e].state \in {"absent", "pending"} => events[e].attempt_count = 0
       /\ events[e].state = "absent" => events[e].replay_count = 0
       /\ events[e].state = "delivering" => PredecessorRecorded(RowKey(e))
  /\ \A w \in Workers : claimed[w] # NULL => PredecessorRecorded(KeyOf(claimed[w]))

\* A claimed event was inside the automatic-delivery window at `now`.
ClaimedInWindow ==
  \A w \in Workers : claimed[w] # NULL => claimed[w].created_at > now[w] - MaxAge

\* The inductive invariant of the queue: claiming, the history and the window.
QueueInv ==
  /\ ClaimInv
  /\ AttemptHistory
  /\ DeliveredOnce
  /\ ClaimHistory
  /\ ClaimedInWindow

\* An attempt starts at most AttemptTimeout after the automatic-delivery
\* window has closed: Claim compares the age with a `now` read before the
\* statement, and only the attempt context bounds how stale it is.
LateStartBounded ==
  [][\A w \in Workers :
       pc[w] = "claimed" /\ pc'[w] = "sending" =>
         clock + ClockOffset[w] < claimed[w].created_at + MaxAge + AttemptTimeout]_vars

\* The queue takes only the transitions of the delivery contract.
Contract == INSTANCE EventLifecycle WITH
  life <- [e \in EventIds |-> [state      |-> events[e].state,
                               generation |-> events[e].replay_count,
                               tries      |-> events[e].attempt_count]]

ContractSpec == Contract!Spec

-----------------------------------------------------------------------------
(***************************************************************************)
(* Liveness.                                                               *)
(***************************************************************************)

\* Every received or replayed event is delivered or dead-lettered in the
\* end, even if every attempt is abandoned after its claim.
EventuallySettled ==
  \A e \in EventIds :
    events[e].state \in {"pending", "delivering", "retry_scheduled"}
      ~> events[e].state \in {"delivered", "dead_lettered"}

-----------------------------------------------------------------------------
(***************************************************************************)
(* Statements of the delivery contract that the code does not keep.        *)
(***************************************************************************)

\* "Other HTTP responses are terminal and move the event directly to
\* dead_lettered": recording a terminal answer in time dead-letters the event.
TerminalIsDirect ==
  [][\A w \in Workers :
       /\ pc[w] = "committing" /\ pc'[w] = "idle"
       /\ clock < deadline[w]
       /\ attempt[w].outcome = "terminal_http"
       => events'[claimed[w].event_id].state = "dead_lettered"]_vars

\* "Every attempted request must produce one durable attempt record": once
\* an event is settled, each of its requests has a record.
EveryRequestRecorded ==
  \A k \in sent :
    events[k.event_id].state \in {"delivered", "dead_lettered"} =>
      k \in RecordedKeys
=============================================================================
