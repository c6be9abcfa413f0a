------------------------ MODULE DeliveryQueue_proofs ------------------------
(***************************************************************************)
(* Proofs about DeliveryQueue, for any number of events and workers, any   *)
(* clock offsets that LeaseCoversAttempt allows and any budget.            *)
(***************************************************************************)
EXTENDS DeliveryQueue, TLAPS

-----------------------------------------------------------------------------
(***************************************************************************)
(* What the transitions of a row do to it.                                 *)
(***************************************************************************)

\* An inserted row is a well-typed pending row.
LEMMA NewRowFacts ==
  ASSUME NEW t \in Int
  PROVE  /\ NewRow(t) \in Rows
         /\ NewRow(t).state = "pending"
         /\ NewRow(t).claim_id = NULL
         /\ NewRow(t).lease_expires_at = NULL
         /\ NewRow(t).attempt_count = 0
         /\ NewRow(t).replay_count = 0
<1>1. 0 \in 0..MaxAttempts /\ 0 \in 0..MaxReplays
  BY MaxAttemptsAssumption, RowAssumption
<1>2. \A n \in 0..MaxAttempts, m \in 0..MaxReplays :
        [state |-> "pending", attempt_count |-> n, replay_count |-> m,
         next_attempt_at |-> t, lease_expires_at |-> NULL, claim_id |-> NULL,
         created_at |-> t] \in Rows
  BY DEF Rows, States
<1>3. NewRow(t) \in Rows
  BY <1>1, <1>2 DEF NewRow
<1>. QED  BY <1>3 DEF NewRow

\* Retiring a row dead-letters it and clears its claim, nothing else.
LEMMA RetiredFacts ==
  ASSUME NEW row \in Rows
  PROVE  /\ Retired(row) \in Rows
         /\ Retired(row).state = "dead_lettered"
         /\ Retired(row).claim_id = NULL
         /\ Retired(row).lease_expires_at = NULL
         /\ Retired(row).attempt_count = row.attempt_count
         /\ Retired(row).replay_count = row.replay_count
         /\ Retired(row).created_at = row.created_at
BY DEF Retired, Rows, States

\* Claiming a row starts an attempt, or continues the one whose lease is
\* recovered.
LEMMA ClaimedFacts ==
  ASSUME NEW row \in Rows, NEW t \in Int, NEW c \in ClaimIds,
         Claimed(row, t, c).attempt_count <= MaxAttempts
  PROVE  /\ Claimed(row, t, c) \in Rows
         /\ Claimed(row, t, c).state = "delivering"
         /\ Claimed(row, t, c).claim_id = c
         /\ Claimed(row, t, c).lease_expires_at = t + Lease
         /\ Claimed(row, t, c).attempt_count =
              IF row.state = "delivering" THEN row.attempt_count
                                          ELSE row.attempt_count + 1
         /\ Claimed(row, t, c).replay_count = row.replay_count
         /\ Claimed(row, t, c).created_at = row.created_at
<1>. DEFINE n == IF row.state = "delivering" THEN row.attempt_count
                                             ELSE row.attempt_count + 1
<1>1. Claimed(row, t, c) =
        [row EXCEPT !.state = "delivering", !.attempt_count = n,
                    !.lease_expires_at = t + Lease, !.claim_id = c]
  BY DEF Claimed, Rows
<1>2. n \in 0..MaxAttempts
  BY <1>1, MaxAttemptsAssumption DEF Rows
<1>3. t + Lease \in Int
  BY RowAssumption
<1>4. \A k \in 0..MaxAttempts, l \in Int :
        [row EXCEPT !.state = "delivering", !.attempt_count = k,
                    !.lease_expires_at = l, !.claim_id = c] \in Rows
  BY DEF Rows, States
<1>. HIDE DEF n
<1>5. Claimed(row, t, c) \in Rows
  BY <1>1, <1>2, <1>3, <1>4
<1>6. /\ Claimed(row, t, c).state = "delivering"
      /\ Claimed(row, t, c).claim_id = c
      /\ Claimed(row, t, c).lease_expires_at = t + Lease
      /\ Claimed(row, t, c).attempt_count = n
      /\ Claimed(row, t, c).replay_count = row.replay_count
      /\ Claimed(row, t, c).created_at = row.created_at
  BY <1>1 DEF Rows
<1>. QED  BY <1>5, <1>6 DEF n

\* Recording an attempt clears the claim and sets the state and due time.
LEMMA RecordedFacts ==
  ASSUME NEW row \in Rows, NEW s \in States, NEW next \in Int
  PROVE  /\ Recorded(row, s, next) \in Rows
         /\ Recorded(row, s, next).state = s
         /\ Recorded(row, s, next).claim_id = NULL
         /\ Recorded(row, s, next).lease_expires_at = NULL
         /\ Recorded(row, s, next).attempt_count = row.attempt_count
         /\ Recorded(row, s, next).replay_count = row.replay_count
         /\ Recorded(row, s, next).created_at = row.created_at
BY DEF Recorded, Rows

\* A replay opens a new generation with a full budget.
LEMMA ReplayedFacts ==
  ASSUME NEW row \in Rows, NEW t \in Int, row.replay_count < MaxReplays
  PROVE  /\ Replayed(row, t) \in Rows
         /\ Replayed(row, t).state = "pending"
         /\ Replayed(row, t).claim_id = NULL
         /\ Replayed(row, t).lease_expires_at = NULL
         /\ Replayed(row, t).attempt_count = 0
         /\ Replayed(row, t).replay_count = row.replay_count + 1
         /\ Replayed(row, t).created_at = row.created_at
<1>1. 0 \in 0..MaxAttempts
  BY MaxAttemptsAssumption
<1>2. row.replay_count + 1 \in 0..MaxReplays
  BY RowAssumption DEF Rows
<1>3. Replayed(row, t) \in Rows
  <2>1. PICK k \in 0..MaxAttempts : k = 0
    BY <1>1
  <2>2. PICK m \in 0..MaxReplays : m = row.replay_count + 1
    BY <1>2
  <2>3. Replayed(row, t) =
          [row EXCEPT !.state = "pending", !.attempt_count = k,
                      !.replay_count = m, !.next_attempt_at = t,
                      !.lease_expires_at = NULL, !.claim_id = NULL]
    BY <2>1, <2>2 DEF Replayed
  <2>4. [row EXCEPT !.state = "pending", !.attempt_count = k,
                    !.replay_count = m, !.next_attempt_at = t,
                    !.lease_expires_at = NULL, !.claim_id = NULL] \in Rows
    BY DEF Rows, States
  <2>. QED  BY <2>3, <2>4
<1>. QED  BY <1>3 DEF Replayed, Rows

\* A recorded outcome settles the event, or reschedules it within its budget.
LEMMA RecordStateFacts ==
  ASSUME NEW n \in 1..MaxAttempts, NEW created \in Int, NEW out \in Outcomes,
         NEW finished \in Int
  PROVE  /\ record_state(n, created, out, finished) \in
              {"delivered", "dead_lettered", "retry_scheduled"}
         /\ record_state(n, created, out, finished) = "delivered"
              <=> out = "delivered"
         /\ record_state(n, created, out, finished) = "retry_scheduled"
              => n < MaxAttempts
BY DEF record_state, CanRetryAt, CanRetry, Outcomes

\* Every status is classified.
LEMMA HTTPOutcomeType ==
  ASSUME NEW r \in Int
  PROVE  HTTPOutcome(r) \in Outcomes
BY DEF HTTPOutcome, Outcomes

-----------------------------------------------------------------------------
(***************************************************************************)
(* ClaimInv is inductive.  One lemma per action.                           *)
(***************************************************************************)

\* Types of what a worker holds.
LEMMA ClaimedType ==
  ASSUME TypeOK, NEW w \in Workers, claimed[w] # NULL
  PROVE  /\ claimed[w].event_id \in EventIds
         /\ claimed[w].claim_id \in ClaimIds
         /\ claimed[w].claim_id # NULL
         /\ claimed[w].replay_number \in 0..MaxReplays
         /\ claimed[w].attempt_number \in 1..MaxAttempts
         /\ claimed[w].created_at \in Int
         /\ KeyOf(claimed[w]) \in AttemptKeys
BY RowAssumption DEF TypeOK, ClaimedEvents, KeyOf, AttemptKeys

\* An expired lease proves that the attempt it was taken for is over: the
\* only place where the two clocks and the two timeouts meet.
LEMMA ExpiredLeaseIsOver ==
  ASSUME ClaimInv, NEW w \in Workers, NEW v \in Workers, NEW e \in EventIds,
         pc[w] # "idle", LeaseExpired(events[e], now[w]),
         claimed[v] # NULL, events[e].claim_id = claimed[v].claim_id
  PROVE  deadline[v] <= clock
<1>1. events[e].lease_expires_at = now[v] + Lease
  BY DEF ClaimInv, HolderAgrees
<1>2. pc[v] # "idle"
  BY DEF ClaimInv, WorkerShape, Busy
<1>3. /\ now[v] = deadline[v] - AttemptTimeout + ClockOffset[v]
      /\ now[w] = deadline[w] - AttemptTimeout + ClockOffset[w]
      /\ deadline[w] <= clock + AttemptTimeout
  BY <1>2 DEF ClaimInv, WorkerShape
<1>4. now[v] + Lease <= now[w]
  BY <1>1 DEF LeaseExpired
<1>5. AttemptTimeout + ClockOffset[w] <= Lease + ClockOffset[v]
  BY LeaseCoversAttempt
<1>6. /\ clock \in Int /\ deadline[v] \in Int /\ deadline[w] \in Int
      /\ ClockOffset[v] \in Int /\ ClockOffset[w] \in Int
      /\ AttemptTimeout \in Int /\ Lease \in Int
  BY QueueAssumption, RowAssumption DEF ClaimInv, TypeOK
<1>. QED  BY <1>3, <1>4, <1>5, <1>6

\* The initial state.
LEMMA ClaimInvInit == Init => ClaimInv
<1>. SUFFICES ASSUME Init PROVE ClaimInv
  OBVIOUS
<1>1. NoRow \in Rows
  <2>1. 0 \in 0..MaxAttempts /\ 0 \in 0..MaxReplays
    BY MaxAttemptsAssumption, RowAssumption
  <2>2. \A n \in 0..MaxAttempts, m \in 0..MaxReplays, z \in Int :
          [state |-> "absent", attempt_count |-> n, replay_count |-> m,
           next_attempt_at |-> z, lease_expires_at |-> NULL,
           claim_id |-> NULL, created_at |-> z] \in Rows
    BY DEF Rows, States
  <2>. QED  BY <2>1, <2>2 DEF NoRow
<1>2. TypeOK
  BY <1>1, QueueAssumption DEF Init, TypeOK
<1>3. RowShape /\ ClaimWithinBudget
  BY DEF Init, RowShape, ClaimWithinBudget, Waiting, NoRow
<1>4. WorkerShape /\ LockOwnsRow /\ AttemptOwnsRow
  BY DEF Init, WorkerShape, LockOwnsRow, AttemptOwnsRow, Busy
<1>5. ClaimsDistinct /\ HolderAgrees
  BY DEF Init, ClaimsDistinct, HolderAgrees, NoRow
<1>. QED  BY <1>2, <1>3, <1>4, <1>5 DEF ClaimInv

\* The clock moves: deadlines only come nearer.
LEMMA TickClaimInv == ASSUME ClaimInv, Tick PROVE ClaimInv'
<1>. USE DEF Tick, local
<1>1. TypeOK'
  BY QueueAssumption DEF ClaimInv, TypeOK
<1>2. RowShape' /\ ClaimWithinBudget'
  BY DEF ClaimInv, RowShape, ClaimWithinBudget
<1>3. WorkerShape'
  BY QueueAssumption DEF ClaimInv, WorkerShape, TypeOK
<1>4. LockOwnsRow' /\ ClaimsDistinct' /\ HolderAgrees'
  BY DEF ClaimInv, LockOwnsRow, ClaimsDistinct, HolderAgrees
<1>5. AttemptOwnsRow'
  BY DEF ClaimInv, AttemptOwnsRow, TypeOK
<1>. QED  BY <1>1, <1>2, <1>3, <1>4, <1>5 DEF ClaimInv

\* A row that nobody is delivering becomes a pending row with a full budget.
LEMMA PendingClaimInv ==
  ASSUME ClaimInv, NEW e \in EventIds, NEW row \in Rows,
         events[e].state # "delivering",
         row.state = "pending", row.claim_id = NULL, row.attempt_count = 0,
         events' = [events EXCEPT ![e] = row],
         UNCHANGED <<clock, attempts, sent, local>>
  PROVE  ClaimInv'
<1>. USE DEF local
<1>1. TypeOK'
  BY DEF ClaimInv, TypeOK
<1>2. RowShape'
  BY DEF ClaimInv, RowShape, TypeOK
<1>3. ClaimWithinBudget'
  BY MaxAttemptsAssumption DEF ClaimInv, ClaimWithinBudget, Waiting, TypeOK
<1>4. WorkerShape'
  BY DEF ClaimInv, WorkerShape
<1>5. ClaimsDistinct'
  BY DEF ClaimInv, ClaimsDistinct, TypeOK
<1>6. HolderAgrees'
  <2>. SUFFICES ASSUME NEW w \in Workers, NEW f \in EventIds, claimed[w] # NULL,
                       events'[f].claim_id = claimed[w].claim_id
                PROVE  /\ f # e
                       /\ events'[f] = events[f]
    BY DEF ClaimInv, HolderAgrees
  <2>1. claimed[w].claim_id # NULL
    BY ClaimedType DEF ClaimInv
  <2>. QED  BY <2>1 DEF ClaimInv, TypeOK
<1>7. \A w \in Workers :
        claimed[w] # NULL /\ claimed[w].event_id = e =>
          events[e].claim_id # claimed[w].claim_id
  BY ClaimedType DEF ClaimInv, RowShape
<1>8. LockOwnsRow'
  BY <1>7, ClaimedType DEF ClaimInv, LockOwnsRow, WorkerShape, Busy, TypeOK
<1>9. AttemptOwnsRow'
  BY <1>7, ClaimedType DEF ClaimInv, AttemptOwnsRow, WorkerShape, TypeOK
<1>. QED  BY <1>1, <1>2, <1>3, <1>4, <1>5, <1>6, <1>8, <1>9 DEF ClaimInv

\* Receipt and replay.
LEMMA AcceptClaimInv ==
  ASSUME ClaimInv, NEW e \in EventIds, Accept(e) PROVE ClaimInv'
<1>1. clock \in Int
  BY DEF ClaimInv, TypeOK
<1>. QED  BY <1>1, NewRowFacts, PendingClaimInv DEF Accept

\* An operator's replay makes a dead letter pending, which no worker holds.
LEMMA ReplayClaimInv ==
  ASSUME ClaimInv, NEW e \in EventIds, Replay(e) PROVE ClaimInv'
<1>1. clock \in Int /\ events[e] \in Rows
  BY DEF ClaimInv, TypeOK
<1>. QED  BY <1>1, ReplayedFacts, PendingClaimInv DEF Replay, Replayable

\* A worker returns and the tables stay as they are.
LEMMA ReturnClaimInv ==
  ASSUME ClaimInv, NEW w \in Workers, Return(w),
         UNCHANGED <<clock, events, attempts, sent>>
  PROVE  ClaimInv'
<1>. USE DEF Return
<1>1. TypeOK'
  BY DEF ClaimInv, TypeOK
<1>2. RowShape' /\ ClaimWithinBudget'
  BY DEF ClaimInv, RowShape, ClaimWithinBudget
<1>3. WorkerShape'
  BY DEF ClaimInv, WorkerShape, TypeOK, Busy
<1>4. ClaimsDistinct' /\ HolderAgrees'
  BY DEF ClaimInv, ClaimsDistinct, HolderAgrees, TypeOK
<1>5. LockOwnsRow' /\ AttemptOwnsRow'
  BY DEF ClaimInv, LockOwnsRow, AttemptOwnsRow, TypeOK, Busy
<1>. QED  BY <1>1, <1>2, <1>3, <1>4, <1>5 DEF ClaimInv

\* A worker that begins RunOnce has a claim that nobody has used.
LEMMA BeginRunOnceClaimInv ==
  ASSUME ClaimInv, NEW w \in Workers, BeginRunOnce(w) PROVE ClaimInv'
<1>0. clock + ClockOffset[w] \in Int /\ clock + AttemptTimeout \in Int
  BY QueueAssumption DEF ClaimInv, TypeOK
<1>. USE DEF BeginRunOnce
<1>1. TypeOK'
  BY <1>0 DEF ClaimInv, TypeOK
<1>2. RowShape' /\ ClaimWithinBudget'
  BY DEF ClaimInv, RowShape, ClaimWithinBudget
<1>3. WorkerShape'
  BY QueueAssumption DEF ClaimInv, WorkerShape, TypeOK, Busy
<1>4. claimed[w] = NULL
  BY DEF ClaimInv, WorkerShape, Busy
<1>5. ClaimsDistinct' /\ HolderAgrees'
  BY <1>4 DEF ClaimInv, ClaimsDistinct, HolderAgrees, TypeOK
<1>6. LockOwnsRow' /\ AttemptOwnsRow'
  BY DEF ClaimInv, LockOwnsRow, AttemptOwnsRow, TypeOK, Busy
<1>. QED  BY <1>1, <1>2, <1>3, <1>5, <1>6 DEF ClaimInv

\* Sending: only the worker's place and its attempt change.
LEMMA FinishClaimInv ==
  ASSUME ClaimInv, NEW w \in Workers, pc[w] \in {"claimed", "sending"},
         NEW status \in Int, NEW outcome \in Outcomes,
         Finish(w, status, outcome), sent' = sent
  PROVE  ClaimInv'
<1>1. claimed[w] # NULL
  BY DEF ClaimInv, WorkerShape, Busy
<1>2. PICK a \in Attempts : attempt' = [attempt EXCEPT ![w] = a]
  <2>. DEFINE t == clock + ClockOffset[w]
  <2>1. t \in Int
    BY QueueAssumption DEF ClaimInv, TypeOK
  <2>2. \A n \in next_attempt_at(claimed[w].attempt_number, t, outcome) : n \in Int
    BY <1>1, <2>1, ClaimedType, QueueAssumption DEF next_attempt_at, ClaimInv
  <2>. HIDE DEF t
  <2>3. \A n \in Int : [outcome |-> outcome, status_code |-> status,
                        finished_at |-> t, next_attempt_at |-> n] \in Attempts
    BY <2>1 DEF Attempts
  <2>. QED  BY <2>2, <2>3 DEF Finish, t
<1>3. /\ pc' = [pc EXCEPT ![w] = "recording"]
      /\ UNCHANGED <<clock, events, attempts, now, deadline, claimed, sent>>
  BY DEF Finish
<1>4. TypeOK'
  BY <1>2, <1>3 DEF ClaimInv, TypeOK, Busy
<1>5. a # NULL
  BY NilAssumption
<1>6. RowShape' /\ ClaimWithinBudget'
  BY <1>3 DEF ClaimInv, RowShape, ClaimWithinBudget
<1>7. WorkerShape'
  BY <1>1, <1>2, <1>3, <1>5 DEF ClaimInv, WorkerShape, TypeOK, Busy
<1>8. ClaimsDistinct' /\ HolderAgrees'
  BY <1>3 DEF ClaimInv, ClaimsDistinct, HolderAgrees
<1>9. LockOwnsRow' /\ AttemptOwnsRow'
  BY <1>3 DEF ClaimInv, LockOwnsRow, AttemptOwnsRow, TypeOK, Busy
<1>. QED  BY <1>4, <1>6, <1>7, <1>8, <1>9 DEF ClaimInv

\* A refusal before the request changes nothing but the outcome.
LEMMA SendRefusedClaimInv ==
  ASSUME ClaimInv, NEW w \in Workers, SendRefused(w) PROVE ClaimInv'
BY FinishClaimInv DEF SendRefused, Outcomes, NoResponse

\* A response changes nothing but the outcome.
LEMMA RespondClaimInv ==
  ASSUME ClaimInv, NEW w \in Workers, NEW r \in Responses, Respond(w, r)
  PROVE  ClaimInv'
<1>. DEFINE outcome == IF r = NoResponse THEN "network_error" ELSE HTTPOutcome(r)
<1>1. outcome \in Outcomes
  BY HTTPOutcomeType, QueueAssumption DEF Outcomes
<1>. QED  BY <1>1, FinishClaimInv, QueueAssumption DEF Respond

\* The request starts within the context, and no row changes.
LEMMA StartSendClaimInv ==
  ASSUME ClaimInv, NEW w \in Workers, StartSend(w) PROVE ClaimInv'
<1>. USE DEF StartSend
<1>1. claimed[w] # NULL
  BY DEF ClaimInv, WorkerShape, Busy
<1>2. TypeOK'
  BY <1>1, ClaimedType DEF ClaimInv, TypeOK, Busy
<1>3. RowShape' /\ ClaimWithinBudget'
  BY DEF ClaimInv, RowShape, ClaimWithinBudget
<1>4. WorkerShape'
  BY DEF ClaimInv, WorkerShape, TypeOK, Busy
<1>5. ClaimsDistinct' /\ HolderAgrees'
  BY DEF ClaimInv, ClaimsDistinct, HolderAgrees
<1>6. LockOwnsRow' /\ AttemptOwnsRow'
  BY DEF ClaimInv, LockOwnsRow, AttemptOwnsRow, TypeOK, Busy
<1>. QED  BY <1>2, <1>3, <1>4, <1>5, <1>6 DEF ClaimInv

\* The row that Record locks carries the recorder's claim.
LEMMA BeginRecordClaimInv ==
  ASSUME ClaimInv, NEW w \in Workers, BeginRecord(w) PROVE ClaimInv'
<1>. USE DEF BeginRecord
<1>1. TypeOK'
  BY DEF ClaimInv, TypeOK, Busy
<1>2. RowShape' /\ ClaimWithinBudget'
  BY DEF ClaimInv, RowShape, ClaimWithinBudget
<1>3. WorkerShape'
  BY DEF ClaimInv, WorkerShape, TypeOK, Busy
<1>4. ClaimsDistinct' /\ HolderAgrees'
  BY DEF ClaimInv, ClaimsDistinct, HolderAgrees
<1>5. LockOwnsRow' /\ AttemptOwnsRow'
  BY DEF ClaimInv, LockOwnsRow, AttemptOwnsRow, TypeOK, Busy, OwnedBy
<1>. QED  BY <1>1, <1>2, <1>3, <1>4, <1>5 DEF ClaimInv

\* The holder of the row's lock finds it as it was claimed.
LEMMA LockHolderFacts ==
  ASSUME ClaimInv, NEW w \in Workers, pc[w] = "committing"
  PROVE  /\ claimed[w] # NULL
         /\ claimed[w].event_id \in EventIds
         /\ events[claimed[w].event_id].state = "delivering"
         /\ events[claimed[w].event_id].claim_id = claimed[w].claim_id
         /\ events[claimed[w].event_id].replay_count = claimed[w].replay_number
         /\ events[claimed[w].event_id].attempt_count = claimed[w].attempt_number
         /\ events[claimed[w].event_id].created_at = claimed[w].created_at
<1>1. claimed[w] # NULL
  BY DEF ClaimInv, WorkerShape, Busy
<1>2. /\ claimed[w].event_id \in EventIds
      /\ claimed[w].claim_id # NULL
  BY <1>1, ClaimedType DEF ClaimInv
<1>3. events[claimed[w].event_id].claim_id = claimed[w].claim_id
  BY DEF ClaimInv, LockOwnsRow
<1>. QED  BY <1>1, <1>2, <1>3 DEF ClaimInv, RowShape, HolderAgrees

\* Recording settles or reschedules the row the worker owns.
LEMMA CommitRecordClaimInv ==
  ASSUME ClaimInv, NEW w \in Workers, CommitRecord(w) PROVE ClaimInv'
<1>. DEFINE c == claimed[w]
            a == attempt[w]
            s == record_state(c.attempt_number, c.created_at, a.outcome, a.finished_at)
            row == Recorded(events[c.event_id], s, a.next_attempt_at)
<1>1. pc[w] = "committing"
  BY DEF CommitRecord
<1>2. /\ c # NULL /\ c.event_id \in EventIds
      /\ events[c.event_id].state = "delivering"
      /\ events[c.event_id].claim_id = c.claim_id
      /\ events[c.event_id].attempt_count = c.attempt_number
  BY <1>1, LockHolderFacts
<1>3. /\ c.claim_id \in ClaimIds /\ c.claim_id # NULL
      /\ c.attempt_number \in 1..MaxAttempts /\ c.created_at \in Int
      /\ KeyOf(c) \in AttemptKeys
  BY <1>2, ClaimedType DEF ClaimInv
<1>4. /\ a.outcome \in Outcomes /\ a.finished_at \in Int
      /\ a.next_attempt_at \in Int
  BY <1>1 DEF ClaimInv, WorkerShape, TypeOK, Attempts
<1>5. /\ s \in {"delivered", "dead_lettered", "retry_scheduled"}
      /\ s = "retry_scheduled" => c.attempt_number < MaxAttempts
  BY <1>3, <1>4, RecordStateFacts
<1>6. /\ row \in Rows /\ row.state = s /\ row.claim_id = NULL
      /\ row.attempt_count = c.attempt_number
  <2>1. s \in States /\ events[c.event_id] \in Rows
    BY <1>2, <1>5 DEF States, ClaimInv, TypeOK
  <2>. HIDE DEF s
  <2>. QED  BY <1>2, <1>4, <2>1, RecordedFacts
<1>7. /\ events' = [events EXCEPT ![c.event_id] = row]
      /\ attempts' = attempts \cup {[key |-> KeyOf(c), outcome |-> a.outcome]}
      /\ Return(w) /\ clock' = clock /\ sent' = sent
  BY DEF CommitRecord
<1>. HIDE DEF c, a, s, row
<1>8. TypeOK'
  <2>1. events' \in [EventIds -> Rows]
    BY <1>6, <1>7 DEF ClaimInv, TypeOK
  <2>2. attempts' \subseteq [key : AttemptKeys, outcome : Outcomes]
    BY <1>3, <1>4, <1>7 DEF ClaimInv, TypeOK
  <2>. QED  BY <2>1, <2>2, <1>7 DEF ClaimInv, TypeOK, Return
<1>9. RowShape'
  BY <1>5, <1>6, <1>7 DEF ClaimInv, RowShape, TypeOK
<1>10. ClaimWithinBudget'
  BY <1>5, <1>6, <1>7 DEF ClaimInv, ClaimWithinBudget, Waiting, TypeOK
<1>11. WorkerShape'
  BY <1>7 DEF ClaimInv, WorkerShape, TypeOK, Busy, Return
<1>12. ClaimsDistinct'
  BY <1>6, <1>7 DEF ClaimInv, ClaimsDistinct, TypeOK, Return
<1>13. \A v \in Workers : v # w /\ claimed[v] # NULL =>
         claimed[v].claim_id # events[c.event_id].claim_id
  BY <1>2 DEF ClaimInv, ClaimsDistinct, c
<1>14. \A v \in Workers : claimed'[v] # NULL =>
         /\ v # w /\ claimed'[v] = claimed[v] /\ claimed[v].claim_id # NULL
  BY <1>7, ClaimedType DEF ClaimInv, TypeOK, Return
<1>15. HolderAgrees'
  BY <1>6, <1>7, <1>14 DEF ClaimInv, HolderAgrees, TypeOK, Return
<1>16. LockOwnsRow'
  BY <1>7, <1>13, ClaimedType
  DEF ClaimInv, LockOwnsRow, WorkerShape, TypeOK, Busy, Return
<1>17. AttemptOwnsRow'
  BY <1>7, <1>13, ClaimedType
  DEF ClaimInv, AttemptOwnsRow, WorkerShape, TypeOK, Busy, Return
<1>. QED  BY <1>8, <1>9, <1>10, <1>11, <1>12, <1>15, <1>16, <1>17 DEF ClaimInv

\* What a Claim statement does to the table.  rows are the rows it may lock,
\* r those it retires, es the candidate it claims (none, or one).
LEMMA ClaimTableFacts ==
  ASSUME ClaimInv, NEW w \in Workers, pc[w] = "claiming",
         NEW rows \in SUBSET (EventIds \ LockedRows),
         NEW r \in Retirements(rows, now[w]),
         NEW es \in SUBSET rows, NEW c,
         \A e \in es : /\ es = {e}
                       /\ c \in FreshClaimIds
                       /\ Due(events[e], now[w])
                       /\ Claimed(events[e], now[w], c).attempt_count <= MaxAttempts,
         events' = ClaimTable(w, r, es, c)
  PROVE  /\ events' \in [EventIds -> Rows]
         /\ RowShape'
         /\ ClaimWithinBudget'
         /\ \A e, f \in EventIds : e # f /\ events'[e].claim_id # NULL =>
              events'[e].claim_id # events'[f].claim_id
         /\ \A v \in Workers, x \in EventIds :
              claimed[v] # NULL /\ events'[x].claim_id = claimed[v].claim_id =>
                events'[x] = events[x]
         /\ \A v \in Workers, x \in EventIds :
              /\ claimed[v] # NULL /\ events[x].claim_id = claimed[v].claim_id
              /\ clock < deadline[v] \/ pc[v] = "committing"
              => events'[x] = events[x]
<1>1. /\ \A e \in EventIds : events[e] \in Rows
      /\ now[w] \in Int
  BY DEF ClaimInv, TypeOK
<1>2. r \subseteq rows /\ \A e \in r : Retirable(events[e], now[w])
  BY DEF Retirements
<1>3. \A e \in es : e \notin r
  BY <1>2 DEF Due, Retirable
<1>4. \A e \in EventIds :
        \/ e \in r /\ events'[e] = Retired(events[e])
        \/ e \in es /\ events'[e] = Claimed(events[e], now[w], c)
        \/ e \notin r /\ e \notin es /\ events'[e] = events[e]
  BY <1>3 DEF ClaimTable
<1>5. \A e \in es : c \in ClaimIds /\ c # NULL
  BY RowAssumption DEF FreshClaimIds
<1>6. \A e \in EventIds : events'[e] \in Rows
  BY <1>1, <1>4, <1>5, RetiredFacts, ClaimedFacts
<1>7. events' \in [EventIds -> Rows]
  BY <1>6 DEF ClaimTable
<1>8. \A e \in r : /\ events'[e].state = "dead_lettered"
                   /\ events'[e].claim_id = NULL
  BY <1>1, <1>2, <1>3, <1>4, RetiredFacts
<1>9. \A e \in es : /\ events'[e] = Claimed(events[e], now[w], c)
                    /\ events'[e].state = "delivering"
                    /\ events'[e].claim_id = c
                    /\ events'[e].lease_expires_at = now[w] + Lease
                    /\ events'[e].attempt_count =
                         IF events[e].state = "delivering"
                         THEN events[e].attempt_count
                         ELSE events[e].attempt_count + 1
  BY <1>1, <1>3, <1>4, <1>5, ClaimedFacts
<1>10. RowShape'
  <2>. SUFFICES ASSUME NEW e \in EventIds
                PROVE  IF events'[e].state = "delivering"
                       THEN /\ events'[e].claim_id \in ClaimIds
                            /\ events'[e].lease_expires_at \in Int
                            /\ events'[e].attempt_count >= 1
                       ELSE events'[e].claim_id = NULL
    BY DEF RowShape
  <2>1. CASE e \in r
    BY <2>1, <1>8
  <2>2. CASE e \in es
    <3>1. events'[e].lease_expires_at \in Int
      BY <2>2, <1>1, <1>9, RowAssumption
    <3>2. events[e].attempt_count \in Nat
      BY <1>1, MaxAttemptsAssumption DEF Rows
    <3>3. events'[e].attempt_count >= 1
      BY <2>2, <1>9, <3>2 DEF ClaimInv, RowShape
    <3>. QED  BY <2>2, <3>1, <3>3, <1>5, <1>9
  <2>3. CASE e \notin r /\ e \notin es
    BY <2>3, <1>4 DEF ClaimInv, RowShape
  <2>. QED  BY <2>1, <2>2, <2>3
<1>11. ClaimWithinBudget'
  BY <1>4, <1>8, <1>9 DEF ClaimInv, ClaimWithinBudget, Waiting
<1>12. \A e \in EventIds : events[e].claim_id # c \/ es = {}
  BY DEF FreshClaimIds
<1>13. \A e, f \in EventIds : e # f /\ events'[e].claim_id # NULL =>
         events'[e].claim_id # events'[f].claim_id
  BY <1>4, <1>5, <1>8, <1>9, <1>12 DEF ClaimInv, ClaimsDistinct
<1>14. \A v \in Workers : claimed[v] # NULL =>
         /\ claimed[v].claim_id # NULL
         /\ claimed[v].claim_id # c \/ es = {}
  BY ClaimedType DEF ClaimInv, FreshClaimIds
<1>15. \A v \in Workers, x \in EventIds :
         claimed[v] # NULL /\ events'[x].claim_id = claimed[v].claim_id =>
           events'[x] = events[x]
  BY <1>4, <1>8, <1>9, <1>14
<1>16. ASSUME NEW v \in Workers, NEW x \in EventIds, claimed[v] # NULL,
              events[x].claim_id = claimed[v].claim_id,
              clock < deadline[v] \/ pc[v] = "committing"
       PROVE  events'[x] = events[x]
  <2>. SUFFICES ASSUME x \in r \/ x \in es PROVE FALSE
    BY <1>4
  <2>1. events[x].state = "delivering"
    BY <1>14, <1>16 DEF ClaimInv, RowShape
  <2>2. LeaseExpired(events[x], now[w])
    BY <2>1, <1>2 DEF Retirable, Due, Waiting
  <2>3. deadline[v] <= clock
    BY <2>2, <1>16, ExpiredLeaseIsOver
  <2>4. ~(clock < deadline[v])
    BY <2>3 DEF ClaimInv, TypeOK
  <2>5. x = claimed[v].event_id /\ pc[v] = "committing"
    BY <2>4, <1>16 DEF ClaimInv, HolderAgrees
  <2>6. x \in LockedRows
    BY <2>5 DEF LockedRows
  <2>. QED  BY <2>6, <1>2
<1>. QED  BY <1>7, <1>10, <1>11, <1>13, <1>15, <1>16

\* A Claim statement whose worker does not get a claimed event.
LEMMA ClaimUnansweredClaimInv ==
  ASSUME ClaimInv, NEW w \in Workers, pc[w] = "claiming",
         NEW rows \in SUBSET (EventIds \ LockedRows), NEW live,
         \/ ClaimNothing(w, rows, live)
         \/ ClaimLost(w, rows, live)
  PROVE  ClaimInv'
<1>1. PICK r \in Retirements(rows, now[w]), es \in SUBSET rows,
           c \in ClaimIds \cup {NULL} :
        /\ events' = ClaimTable(w, r, es, c)
        /\ \A e \in es : /\ es = {e}
                         /\ c \in FreshClaimIds
                         /\ Due(events[e], now[w])
                         /\ Claimed(events[e], now[w], c).attempt_count <= MaxAttempts
  <2>1. CASE ClaimNothing(w, rows, live)
    BY <2>1 DEF ClaimNothing
  <2>2. CASE ClaimLost(w, rows, live)
    BY <2>2 DEF ClaimLost, ClaimOne, Candidates, FreshClaimIds
  <2>. QED  BY <2>1, <2>2
<1>2. Return(w) /\ UNCHANGED <<clock, attempts, sent>>
  BY DEF ClaimNothing, ClaimLost, ClaimOne
<1>3. /\ events' \in [EventIds -> Rows]
      /\ RowShape'
      /\ ClaimWithinBudget'
      /\ \A e, f \in EventIds : e # f /\ events'[e].claim_id # NULL =>
           events'[e].claim_id # events'[f].claim_id
      /\ \A v \in Workers, x \in EventIds :
           claimed[v] # NULL /\ events'[x].claim_id = claimed[v].claim_id =>
             events'[x] = events[x]
      /\ \A v \in Workers, x \in EventIds :
           /\ claimed[v] # NULL /\ events[x].claim_id = claimed[v].claim_id
           /\ clock < deadline[v] \/ pc[v] = "committing"
           => events'[x] = events[x]
  BY <1>1, ClaimTableFacts
<1>4. TypeOK'
  BY <1>2, <1>3 DEF ClaimInv, TypeOK, Return
<1>5. WorkerShape'
  BY <1>2 DEF ClaimInv, WorkerShape, TypeOK, Busy, Return
<1>6. ClaimsDistinct'
  BY <1>2, <1>3 DEF ClaimInv, ClaimsDistinct, TypeOK, Return
<1>7. HolderAgrees'
  BY <1>2, <1>3 DEF ClaimInv, HolderAgrees, TypeOK, Return
<1>8. LockOwnsRow'
  BY <1>2, <1>3, ClaimedType
  DEF ClaimInv, LockOwnsRow, WorkerShape, TypeOK, Busy, Return
<1>9. AttemptOwnsRow'
  BY <1>2, <1>3, ClaimedType
  DEF ClaimInv, AttemptOwnsRow, WorkerShape, TypeOK, Busy, Return
<1>. QED  BY <1>3, <1>4, <1>5, <1>6, <1>7, <1>8, <1>9 DEF ClaimInv

\* A Claim statement that hands its worker a claimed event.
LEMMA ClaimAnsweredClaimInv ==
  ASSUME ClaimInv, NEW w \in Workers, pc[w] = "claiming",
         NEW rows \in SUBSET (EventIds \ LockedRows), NEW live,
         ClaimAnswered(w, rows, live)
  PROVE  ClaimInv'
<1>1. PICK e \in rows, c \in FreshClaimIds :
        /\ ClaimOne(w, rows, live, e, c)
        /\ pc' = [pc EXCEPT ![w] = "claimed"]
        /\ claimed' = [claimed EXCEPT ![w] = ClaimReturns(e, c)]
        /\ UNCHANGED <<now, deadline, attempt>>
  BY DEF ClaimAnswered
<1>2. /\ Due(events[e], now[w])
      /\ Claimed(events[e], now[w], c).attempt_count <= MaxAttempts
      /\ UNCHANGED <<clock, attempts, sent>>
  BY <1>1 DEF ClaimOne, Candidates
<1>3. PICK r \in Retirements(rows, now[w]) : events' = ClaimTable(w, r, {e}, c)
  BY <1>1 DEF ClaimOne
<1>4. /\ events' \in [EventIds -> Rows]
      /\ RowShape'
      /\ ClaimWithinBudget'
      /\ \A x, f \in EventIds : x # f /\ events'[x].claim_id # NULL =>
           events'[x].claim_id # events'[f].claim_id
      /\ events'[e] = Claimed(events[e], now[w], c)
      /\ \A v \in Workers, x \in EventIds :
           claimed[v] # NULL /\ events'[x].claim_id = claimed[v].claim_id =>
             events'[x] = events[x]
      /\ \A v \in Workers, x \in EventIds :
           /\ claimed[v] # NULL /\ events[x].claim_id = claimed[v].claim_id
           /\ clock < deadline[v] \/ pc[v] = "committing"
           => events'[x] = events[x]
  <2>. DEFINE es == {e}
  <2>1. /\ es \in SUBSET rows
        /\ \A x \in es : /\ es = {x}
                         /\ c \in FreshClaimIds
                         /\ Due(events[x], now[w])
                         /\ Claimed(events[x], now[w], c).attempt_count <= MaxAttempts
        /\ e \in es
    BY <1>2
  <2>2. events' = ClaimTable(w, r, es, c)
    BY <1>3
  <2>. HIDE DEF es
  <2>3. events'[e] = Claimed(events[e], now[w], c)
    <3>1. e \notin r
      BY <1>2 DEF Retirements, Retirable, Due
    <3>. QED  BY <2>1, <2>2, <3>1 DEF ClaimTable
  <2>4. /\ events' \in [EventIds -> Rows]
        /\ RowShape'
        /\ ClaimWithinBudget'
        /\ \A x, f \in EventIds : x # f /\ events'[x].claim_id # NULL =>
             events'[x].claim_id # events'[f].claim_id
    BY <2>1, <2>2, ClaimTableFacts
  <2>5. \A v \in Workers, x \in EventIds :
          claimed[v] # NULL /\ events'[x].claim_id = claimed[v].claim_id =>
            events'[x] = events[x]
    BY <2>1, <2>2, ClaimTableFacts
  <2>6. \A v \in Workers, x \in EventIds :
          /\ claimed[v] # NULL /\ events[x].claim_id = claimed[v].claim_id
          /\ clock < deadline[v] \/ pc[v] = "committing"
          => events'[x] = events[x]
    BY <2>1, <2>2, ClaimTableFacts
  <2>. QED  BY <2>1, <2>3, <2>4, <2>5, <2>6
<1>5. /\ c \in ClaimIds /\ c # NULL
      /\ \A v \in Workers : claimed[v] # NULL => claimed[v].claim_id # c
  BY RowAssumption DEF FreshClaimIds
<1>6. /\ events'[e].state = "delivering"
      /\ events'[e].claim_id = c
      /\ events'[e].lease_expires_at = now[w] + Lease
      /\ events'[e].attempt_count \in 1..MaxAttempts
      /\ events'[e].replay_count \in 0..MaxReplays
      /\ events'[e].created_at \in Int
  <2>1. events[e] \in Rows /\ now[w] \in Int
    BY DEF ClaimInv, TypeOK
  <2>2. /\ events'[e].state = "delivering"
        /\ events'[e].claim_id = c
        /\ events'[e].lease_expires_at = now[w] + Lease
    BY <1>2, <1>4, <1>5, <2>1, ClaimedFacts
  <2>3. events'[e] \in Rows
    BY <1>4
  <2>4. events'[e].attempt_count >= 1
    BY <1>4, <2>2 DEF RowShape
  <2>. QED  BY <2>2, <2>3, <2>4, MaxAttemptsAssumption DEF Rows
<1>. DEFINE new == ClaimReturns(e, c)
<1>7. /\ new \in ClaimedEvents /\ new # NULL
      /\ new.event_id = e /\ new.claim_id = c
      /\ new.replay_number = events'[e].replay_count
      /\ new.attempt_number = events'[e].attempt_count
      /\ new.created_at = events'[e].created_at
  BY <1>5, <1>6, NilAssumption DEF ClaimReturns, ClaimedEvents
<1>. HIDE DEF new
<1>8. /\ claimed' = [claimed EXCEPT ![w] = new]
      /\ claimed[w] = NULL
  BY <1>1 DEF new, ClaimInv, WorkerShape, Busy
<1>9. TypeOK'
  BY <1>1, <1>2, <1>4, <1>7, <1>8 DEF ClaimInv, TypeOK, Busy
<1>10. WorkerShape'
  BY <1>1, <1>2, <1>7, <1>8 DEF ClaimInv, WorkerShape, TypeOK, Busy
<1>11. ClaimsDistinct'
  BY <1>4, <1>5, <1>7, <1>8 DEF ClaimInv, ClaimsDistinct, TypeOK
<1>12. HolderAgrees'
  <2>. SUFFICES ASSUME NEW v \in Workers, NEW x \in EventIds, claimed'[v] # NULL,
                       events'[x].claim_id = claimed'[v].claim_id
                PROVE  /\ x = claimed'[v].event_id
                       /\ events'[x].replay_count = claimed'[v].replay_number
                       /\ events'[x].attempt_count = claimed'[v].attempt_number
                       /\ events'[x].created_at = claimed'[v].created_at
                       /\ events'[x].lease_expires_at = now'[v] + Lease
    BY DEF HolderAgrees
  <2>1. CASE v = w
    <3>1. x = e
      BY <2>1, <1>4, <1>5, <1>6, <1>7, <1>8 DEF ClaimInv, TypeOK
    <3>. QED  BY <2>1, <3>1, <1>1, <1>6, <1>7, <1>8 DEF ClaimInv, TypeOK
  <2>2. CASE v # w
    BY <2>2, <1>1, <1>4, <1>8 DEF ClaimInv, HolderAgrees, TypeOK
  <2>. QED  BY <2>1, <2>2
<1>13. LockOwnsRow'
  BY <1>1, <1>2, <1>4, <1>8, ClaimedType
  DEF ClaimInv, LockOwnsRow, WorkerShape, TypeOK, Busy
<1>14. AttemptOwnsRow'
  <2>. SUFFICES ASSUME NEW v \in Workers, pc'[v] \in Busy, clock < deadline[v]
                PROVE  /\ events'[claimed'[v].event_id].state = "delivering"
                       /\ events'[claimed'[v].event_id].claim_id = claimed'[v].claim_id
    BY <1>1, <1>2 DEF AttemptOwnsRow
  <2>1. CASE v = w
    BY <2>1, <1>6, <1>7, <1>8 DEF ClaimInv, TypeOK
  <2>2. CASE v # w
    BY <2>2, <1>1, <1>4, <1>8, ClaimedType
    DEF ClaimInv, AttemptOwnsRow, WorkerShape, TypeOK
  <2>. QED  BY <2>1, <2>2
<1>. QED  BY <1>4, <1>9, <1>10, <1>11, <1>12, <1>13, <1>14 DEF ClaimInv

\* Claim: the row it takes carries the new claim and a lease from its own now.
LEMMA ClaimClaimInv ==
  ASSUME ClaimInv, NEW w \in Workers, Claim(w) PROVE ClaimInv'
<1>1. PICK skipped : ClaimStatement(w, EventIds \ (skipped \cup LockedRows), EventIds)
  BY DEF Claim
<1>2. EventIds \ (skipped \cup LockedRows) \in SUBSET (EventIds \ LockedRows)
  OBVIOUS
<1>. QED  BY <1>1, <1>2, ClaimUnansweredClaimInv, ClaimAnsweredClaimInv
          DEF ClaimStatement

\* Every step of the queue preserves the inductive invariant.
LEMMA ClaimInvStep == ClaimInv /\ [Next]_vars => ClaimInv'
<1>. SUFFICES ASSUME ClaimInv, [Next]_vars PROVE ClaimInv'
  OBVIOUS
<1>1. CASE Tick
  BY <1>1, TickClaimInv
<1>2. ASSUME NEW e \in EventIds, Accept(e) \/ Replay(e) PROVE ClaimInv'
  BY <1>2, AcceptClaimInv, ReplayClaimInv
<1>3. ASSUME NEW w \in Workers, Attend(w) PROVE ClaimInv'
  <2>1. CASE BeginRunOnce(w)
    BY <2>1, BeginRunOnceClaimInv
  <2>2. CASE Claim(w)
    BY <2>2, ClaimClaimInv
  <2>3. CASE SendRefused(w) \/ StartSend(w)
    BY <2>3, SendRefusedClaimInv, StartSendClaimInv
  <2>4. CASE \E r \in Responses : Respond(w, r)
    BY <2>4, RespondClaimInv
  <2>5. CASE BeginRecord(w) \/ CommitRecord(w)
    BY <2>5, BeginRecordClaimInv, CommitRecordClaimInv
  <2>6. CASE RecordStale(w) \/ RecordRejected(w) \/ Abandon(w)
    BY <2>6, ReturnClaimInv DEF RecordStale, RecordRejected, Abandon
  <2>. QED  BY <1>3, <2>1, <2>2, <2>3, <2>4, <2>5, <2>6 DEF Attend
<1>4. CASE UNCHANGED vars
  BY <1>4 DEF vars, ClaimInv, TypeOK, RowShape, WorkerShape, ClaimsDistinct,
              HolderAgrees, LockOwnsRow, AttemptOwnsRow, ClaimWithinBudget
<1>. QED  BY <1>1, <1>2, <1>3, <1>4 DEF Next

-----------------------------------------------------------------------------
(***************************************************************************)
(* The theorems.                                                           *)
(***************************************************************************)

\* The inductive invariant holds in every reachable state.
THEOREM ClaimInvHolds == Spec => []ClaimInv
BY ClaimInvInit, ClaimInvStep, PTL DEF Spec

\* Every row and every worker keeps its type: the CHECKs on the counters and
\* on the state never fire.
THEOREM TypeCorrect == Spec => []TypeOK
<1>1. ClaimInv => TypeOK
  BY DEF ClaimInv
<1>. QED  BY <1>1, ClaimInvHolds, PTL

\* No waiting row exceeds its budget, so Claim never fails on one.
THEOREM BudgetSafe == Spec => []ClaimWithinBudget
<1>1. ClaimInv => ClaimWithinBudget
  BY DEF ClaimInv
<1>. QED  BY <1>1, ClaimInvHolds, PTL

\* A worker within its attempt context owns its row.
THEOREM LeaseSafe == Spec => []AttemptOwnsRow
<1>1. ClaimInv => AttemptOwnsRow
  BY DEF ClaimInv
<1>. QED  BY <1>1, ClaimInvHolds, PTL

\* No two workers have a live request for the same event.
THEOREM MutualExclusion == Spec => []OneSender
<1>1. ClaimInv => OneSender
  <2>. SUFFICES ASSUME ClaimInv, NEW v \in Workers, NEW w \in Workers, v # w,
                       {pc[v], pc[w]} = {"sending"},
                       clock < deadline[v], clock < deadline[w],
                       claimed[v].event_id = claimed[w].event_id
                PROVE  FALSE
    BY DEF OneSender
  <2>1. pc[v] \in Busy /\ pc[w] \in Busy
    BY DEF Busy
  <2>2. claimed[v].claim_id = claimed[w].claim_id
    BY <2>1 DEF ClaimInv, AttemptOwnsRow
  <2>3. claimed[v] # NULL /\ claimed[w] # NULL
    BY <2>1 DEF ClaimInv, WorkerShape
  <2>. QED  BY <2>2, <2>3 DEF ClaimInv, ClaimsDistinct
<1>. QED  BY <1>1, ClaimInvHolds, PTL

\* The transaction that commits an attempt writes to the row as claimed.
THEOREM RecordIsCurrent == Spec => []LockHolderCurrent
<1>1. ClaimInv => LockHolderCurrent
  BY LockHolderFacts DEF LockHolderCurrent
<1>. QED  BY <1>1, ClaimInvHolds, PTL
=============================================================================
