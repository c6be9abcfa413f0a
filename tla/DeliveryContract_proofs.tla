---------------------- MODULE DeliveryContract_proofs -----------------------
(***************************************************************************)
(* DeliveryQueue implements EventLifecycle, its attempts start within the  *)
(* automatic-delivery window (plus one attempt context), and its attempt   *)
(* history is complete: proofs for any number of events and workers.       *)
(***************************************************************************)
EXTENDS DeliveryQueue_proofs

-----------------------------------------------------------------------------
(***************************************************************************)
(* What a step of the queue does to the public life of each event.         *)
(***************************************************************************)

\* The public life of a row.
Life(row) == [state      |-> row.state,
              generation |-> row.replay_count,
              tries      |-> row.attempt_count]

\* What may happen to a row in a step that records nothing.
Unrecorded(a, b) ==
  \/ b = a
  \/ Contract!Receive(a, b) \/ Contract!Replay(a, b)
  \/ Contract!StartAttempt(a, b) \/ Contract!DeadLetter(a, b)

\* Rows have lives of the contract.
LEMMA LifeType ==
  ASSUME NEW row \in Rows
  PROVE  Life(row) \in Contract!Lives
BY DEF Life, Contract!Lives, Rows, States

\* An attempt starts when the state and the counter, and nothing else, move.
LEMMA StartedLife ==
  ASSUME NEW a \in Contract!Lives, NEW b \in Contract!Lives,
         a.state \in {"pending", "retry_scheduled"}, a.tries < MaxAttempts,
         b.state = "delivering", b.tries = a.tries + 1, b.generation = a.generation
  PROVE  Contract!StartAttempt(a, b)
BY DEF Contract!StartAttempt, Contract!Lives

\* Receipt: the public life of a new row.
LEMMA ReceiveMove ==
  ASSUME ClaimInv, NEW e \in EventIds, Accept(e)
  PROVE  \A x \in EventIds : Unrecorded(Life(events[x]), Life(events'[x]))
<1>1. clock \in Int
  BY DEF ClaimInv, TypeOK
<1>2. Contract!Receive(Life(events[e]), Life(NewRow(clock)))
  BY <1>1, NewRowFacts DEF Accept, Contract!Receive, Life
<1>. QED  BY <1>2 DEF Accept, Unrecorded, ClaimInv, TypeOK

\* The operator's replay.
LEMMA ReplayMove ==
  ASSUME ClaimInv, NEW e \in EventIds, Replay(e)
  PROVE  \A x \in EventIds : Unrecorded(Life(events[x]), Life(events'[x]))
<1>1. clock \in Int /\ events[e] \in Rows
  BY DEF ClaimInv, TypeOK
<1>2. Contract!Replay(Life(events[e]), Life(Replayed(events[e], clock)))
  BY <1>1, ReplayedFacts DEF Replay, Replayable, Contract!Replay, Life
<1>. QED  BY <1>2 DEF Replay, Unrecorded, ClaimInv, TypeOK

\* A retired row is dead-lettered; a claimed one starts an attempt, or goes
\* on with the attempt of the worker whose lease expired.
LEMMA ClaimTableMove ==
  ASSUME ClaimInv, NEW w \in Workers, NEW rows \in SUBSET EventIds,
         NEW r \in Retirements(rows, now[w]),
         NEW es \in SUBSET EventIds, NEW c \in ClaimIds \cup {NULL},
         \A e \in es : /\ c \in ClaimIds
                       /\ Due(events[e], now[w])
                       /\ Claimed(events[e], now[w], c).attempt_count <= MaxAttempts,
         events' = ClaimTable(w, r, es, c)
  PROVE  \A x \in EventIds : Unrecorded(Life(events[x]), Life(events'[x]))
<1>. SUFFICES ASSUME NEW x \in EventIds
              PROVE  Unrecorded(Life(events[x]), Life(events'[x]))
  OBVIOUS
<1>1. events[x] \in Rows /\ now[w] \in Int
  BY DEF ClaimInv, TypeOK
<1>2. CASE x \in r
  <2>1. Retirable(events[x], now[w])
    BY <1>2 DEF Retirements
  <2>2. events[x].state \in {"pending", "retry_scheduled", "delivering"}
    BY <2>1 DEF Retirable, Waiting, LeaseExpired
  <2>3. Contract!DeadLetter(Life(events[x]), Life(Retired(events[x])))
    BY <1>1, <2>2, RetiredFacts DEF Contract!DeadLetter, Life
  <2>. QED  BY <1>2, <2>3 DEF ClaimTable, Unrecorded
<1>3. CASE x \notin r /\ x \in es
  <2>. DEFINE row == Claimed(events[x], now[w], c)
  <2>1. /\ row.state = "delivering"
        /\ row.attempt_count = IF events[x].state = "delivering"
                               THEN events[x].attempt_count
                               ELSE events[x].attempt_count + 1
        /\ row.replay_count = events[x].replay_count
    BY <1>1, <1>3, ClaimedFacts
  <2>2. Due(events[x], now[w])
    BY <1>3
  <2>3. events'[x] = row
    BY <1>3 DEF ClaimTable
  <2>4. CASE events[x].state = "delivering"
    BY <2>1, <2>3, <2>4 DEF Unrecorded, Life
  <2>5. CASE events[x].state # "delivering"
    <3>1. Waiting(events[x])
      BY <2>2, <2>5 DEF Due, LeaseExpired
    <3>2. events[x].attempt_count < MaxAttempts
      BY <3>1 DEF ClaimInv, ClaimWithinBudget
    <3>3. row \in Rows
      BY <1>1, <1>3, ClaimedFacts
    <3>. HIDE DEF row
    <3>4. Contract!StartAttempt(Life(events[x]), Life(row))
      BY <1>1, <2>1, <2>5, <3>1, <3>2, <3>3, StartedLife, LifeType DEF Life, Waiting
    <3>. QED  BY <2>3, <3>4 DEF Unrecorded
  <2>. QED  BY <2>4, <2>5
<1>4. CASE x \notin r /\ x \notin es
  BY <1>4 DEF ClaimTable, Unrecorded
<1>. QED  BY <1>2, <1>3, <1>4

\* The Claim statement, answered or not.
LEMMA ClaimMove ==
  ASSUME ClaimInv, NEW w \in Workers, Claim(w)
  PROVE  \A x \in EventIds : Unrecorded(Life(events[x]), Life(events'[x]))
<1>1. PICK skipped : ClaimStatement(w, EventIds \ (skipped \cup LockedRows), EventIds)
  BY DEF Claim
<1>. DEFINE rows == EventIds \ (skipped \cup LockedRows)
<1>2. CASE ClaimNothing(w, rows, EventIds)
  BY <1>2, ClaimTableMove DEF ClaimNothing
<1>3. CASE ClaimAnswered(w, rows, EventIds) \/ ClaimLost(w, rows, EventIds)
  <2>1. PICK e \in rows, c \in FreshClaimIds : ClaimOne(w, rows, EventIds, e, c)
    BY <1>3 DEF ClaimAnswered, ClaimLost
  <2>2. PICK r \in Retirements(rows, now[w]) : events' = ClaimTable(w, r, {e}, c)
    BY <2>1 DEF ClaimOne
  <2>3. /\ c \in ClaimIds
        /\ Due(events[e], now[w])
        /\ Claimed(events[e], now[w], c).attempt_count <= MaxAttempts
    BY <2>1 DEF ClaimOne, Candidates, FreshClaimIds
  <2>. DEFINE es == {e}
  <2>4. es \in SUBSET EventIds /\ \A x \in es : x = e
    OBVIOUS
  <2>5. events' = ClaimTable(w, r, es, c)
    BY <2>2
  <2>. HIDE DEF es, rows
  <2>6. rows \in SUBSET EventIds
    BY DEF rows
  <2>. QED  BY <2>3, <2>4, <2>5, <2>6, ClaimTableMove
<1>. QED  BY <1>1, <1>2, <1>3 DEF ClaimStatement

\* Recording an attempt delivers, reschedules or dead-letters its event; the
\* key it records is the one that the row counts.
LEMMA RecordMove ==
  ASSUME ClaimInv, NEW w \in Workers, CommitRecord(w)
  PROVE  LET e == claimed[w].event_id
             k == KeyOf(claimed[w])
         IN  /\ e \in EventIds
             /\ events[e].state = "delivering"
             /\ k = RowKey(e)
             /\ attempts' = attempts \cup {[key |-> k, outcome |-> attempt[w].outcome]}
             /\ events'[e].state \in {"delivered", "retry_scheduled", "dead_lettered"}
             /\ events'[e].state = "delivered" <=> attempt[w].outcome = "delivered"
             /\ events'[e].state = "retry_scheduled" => events[e].attempt_count < MaxAttempts
             /\ events'[e].attempt_count = events[e].attempt_count
             /\ events'[e].replay_count = events[e].replay_count
             /\ \A x \in EventIds \ {e} : events'[x] = events[x]
<1>. DEFINE c == claimed[w]
            a == attempt[w]
            s == record_state(c.attempt_number, c.created_at, a.outcome, a.finished_at)
            row == Recorded(events[c.event_id], s, a.next_attempt_at)
<1>1. pc[w] = "committing"
  BY DEF CommitRecord
<1>2. /\ c # NULL /\ c.event_id \in EventIds
      /\ events[c.event_id].state = "delivering"
      /\ events[c.event_id].attempt_count = c.attempt_number
      /\ events[c.event_id].replay_count = c.replay_number
  BY <1>1, LockHolderFacts
<1>3. /\ c.attempt_number \in 1..MaxAttempts /\ c.created_at \in Int
  BY <1>2, ClaimedType DEF ClaimInv
<1>4. /\ a.outcome \in Outcomes /\ a.finished_at \in Int
      /\ a.next_attempt_at \in Int
  BY <1>1 DEF ClaimInv, WorkerShape, TypeOK, Attempts
<1>5. /\ s \in {"delivered", "dead_lettered", "retry_scheduled"}
      /\ s = "delivered" <=> a.outcome = "delivered"
      /\ s = "retry_scheduled" => c.attempt_number < MaxAttempts
  BY <1>3, <1>4, RecordStateFacts
<1>6. /\ row.state = s
      /\ row.attempt_count = events[c.event_id].attempt_count
      /\ row.replay_count = events[c.event_id].replay_count
  <2>1. s \in States /\ events[c.event_id] \in Rows
    BY <1>2, <1>5 DEF States, ClaimInv, TypeOK
  <2>. HIDE DEF s
  <2>. QED  BY <1>4, <2>1, RecordedFacts
<1>7. /\ events' = [events EXCEPT ![c.event_id] = row]
      /\ attempts' = attempts \cup {[key |-> KeyOf(c), outcome |-> a.outcome]}
  BY DEF CommitRecord
<1>. HIDE DEF s, row
<1>8. events'[c.event_id] = row /\ \A x \in EventIds \ {c.event_id} : events'[x] = events[x]
  BY <1>2, <1>7 DEF ClaimInv, TypeOK
<1>9. KeyOf(c) = RowKey(c.event_id)
  BY <1>2 DEF KeyOf, RowKey
<1>10. /\ events'[c.event_id].state \in {"delivered", "retry_scheduled", "dead_lettered"}
       /\ events'[c.event_id].state = "delivered" <=> a.outcome = "delivered"
       /\ events'[c.event_id].state = "retry_scheduled" =>
            events[c.event_id].attempt_count < MaxAttempts
       /\ events'[c.event_id].attempt_count = events[c.event_id].attempt_count
       /\ events'[c.event_id].replay_count = events[c.event_id].replay_count
  BY <1>2, <1>5, <1>6, <1>8
<1>. QED  BY <1>2, <1>7, <1>8, <1>9, <1>10

\* A step records an attempt, or leaves the attempts alone.
LEMMA QueueStep ==
  ASSUME ClaimInv, [Next]_vars
  PROVE  \/ \E w \in Workers : CommitRecord(w)
         \/ /\ attempts' = attempts
            /\ \A x \in EventIds : Unrecorded(Life(events[x]), Life(events'[x]))
<1>1. CASE Tick \/ UNCHANGED vars
  BY <1>1 DEF Tick, vars, Unrecorded
<1>2. ASSUME NEW e \in EventIds, Accept(e) \/ Replay(e)
      PROVE  /\ attempts' = attempts
             /\ \A x \in EventIds : Unrecorded(Life(events[x]), Life(events'[x]))
  BY <1>2, ReceiveMove, ReplayMove DEF Accept, Replay
<1>3. ASSUME NEW w \in Workers, Attend(w), ~CommitRecord(w)
      PROVE  /\ attempts' = attempts
             /\ \A x \in EventIds : Unrecorded(Life(events[x]), Life(events'[x]))
  <2>1. CASE Claim(w)
    BY <2>1, ClaimMove
    DEF Claim, ClaimStatement, ClaimNothing, ClaimAnswered, ClaimLost, ClaimOne
  <2>2. CASE ~Claim(w)
    <3>1. UNCHANGED <<events, attempts>>
      BY <1>3, <2>2 DEF Attend, BeginRunOnce, SendRefused, StartSend, Respond, Finish,
         BeginRecord, RecordStale, RecordRejected, Abandon
    <3>. QED  BY <3>1 DEF Unrecorded
  <2>. QED  BY <2>1, <2>2
<1>. QED  BY <1>1, <1>2, <1>3 DEF Next

-----------------------------------------------------------------------------
(***************************************************************************)
(* The refinement.                                                         *)
(***************************************************************************)

\* The initial states are those of the contract.
LEMMA ContractInit == Init => Contract!Init
BY DEF Init, Contract!Init, NoRow

\* Every step of the queue is a step, or a stutter, of the contract.
LEMMA ContractStep ==
  ClaimInv /\ ClaimInv' /\ [Next]_vars =>
    [Contract!Next]_([e \in EventIds |-> [state      |-> events[e].state,
                                          generation |-> events[e].replay_count,
                                          tries      |-> events[e].attempt_count]])
<1>. SUFFICES ASSUME ClaimInv, ClaimInv', [Next]_vars PROVE Contract!Next
  OBVIOUS
<1>1. \A e \in EventIds : Life(events'[e]) \in Contract!Lives
  BY LifeType DEF ClaimInv, TypeOK
<1>2. \A e \in EventIds :
        Life(events'[e]) = Life(events[e]) \/ Contract!Move(Life(events[e]), Life(events'[e]))
  <2>1. CASE \E w \in Workers : CommitRecord(w)
    <3>1. PICK w \in Workers : CommitRecord(w)
      BY <2>1
    <3>. DEFINE f == claimed[w].event_id
    <3>2. /\ f \in EventIds
          /\ events[f].state = "delivering"
          /\ events'[f].state \in {"delivered", "retry_scheduled", "dead_lettered"}
          /\ events'[f].state = "retry_scheduled" => events[f].attempt_count < MaxAttempts
          /\ events'[f].attempt_count = events[f].attempt_count
          /\ events'[f].replay_count = events[f].replay_count
          /\ \A x \in EventIds \ {f} : events'[x] = events[x]
      BY <3>1, RecordMove
    <3>. HIDE DEF f
    <3>3. Contract!Move(Life(events[f]), Life(events'[f]))
      BY <3>2 DEF Contract!Move, Contract!Deliver, Contract!ScheduleRetry,
                  Contract!DeadLetter, Life
    <3>. QED  BY <3>2, <3>3
  <2>2. CASE \A x \in EventIds : Unrecorded(Life(events[x]), Life(events'[x]))
    BY <2>2 DEF Unrecorded, Contract!Move
  <2>. QED  BY <2>1, <2>2, QueueStep
<1>. QED  BY <1>1, <1>2 DEF Contract!Next, Life

\* The queue implements the delivery contract: every transition that its
\* statements make, several rows at a time, is one the contract allows.
THEOREM QueueImplementsContract == Spec => ContractSpec
<1>. QED  BY ContractInit, ContractStep, ClaimInvHolds, PTL
          DEF Spec, ContractSpec, Contract!Spec

-----------------------------------------------------------------------------
(***************************************************************************)
(* The attempt history.                                                    *)
(***************************************************************************)

\* The moves of a row that records nothing, column by column.
LEMMA UnrecordedRow ==
  ASSUME NEW a \in Rows, NEW b \in Rows, Unrecorded(Life(a), Life(b))
  PROVE  \/ /\ b.state = a.state
            /\ b.attempt_count = a.attempt_count /\ b.replay_count = a.replay_count
         \/ /\ a.state = "absent" /\ b.state = "pending"
            /\ b.attempt_count = 0 /\ b.replay_count = 0
         \/ /\ a.state = "dead_lettered" /\ b.state = "pending"
            /\ b.attempt_count = 0 /\ b.replay_count = a.replay_count + 1
         \/ /\ a.state \in {"pending", "retry_scheduled"} /\ b.state = "delivering"
            /\ b.attempt_count = a.attempt_count + 1 /\ b.replay_count = a.replay_count
         \/ /\ a.state \in {"pending", "retry_scheduled", "delivering"}
            /\ b.state = "dead_lettered"
            /\ b.attempt_count = a.attempt_count /\ b.replay_count = a.replay_count
<1>. DEFINE x == Life(a)
            y == Life(b)
<1>1. /\ x.state = a.state /\ x.tries = a.attempt_count /\ x.generation = a.replay_count
      /\ y.state = b.state /\ y.tries = b.attempt_count /\ y.generation = b.replay_count
  BY DEF Life
<1>2. x \in Contract!Lives /\ y \in Contract!Lives
  BY LifeType
<1>. HIDE DEF x, y
<1>3. CASE y = x
  BY <1>1, <1>3
<1>4. CASE Contract!Receive(x, y) \/ Contract!Replay(x, y)
  BY <1>1, <1>4 DEF Contract!Receive, Contract!Replay
<1>5. CASE Contract!StartAttempt(x, y)
  BY <1>1, <1>2, <1>5 DEF Contract!StartAttempt, Contract!Lives
<1>6. CASE Contract!DeadLetter(x, y)
  BY <1>1, <1>2, <1>6 DEF Contract!DeadLetter, Contract!Lives
<1>. QED  BY <1>3, <1>4, <1>5, <1>6 DEF Unrecorded, x, y

\* What a worker has in hand after a step it had before, or a Claim statement
\* has just returned it: then the row is being delivered, counts that attempt
\* and was inside the window.
LEMMA ClaimedStep ==
  ASSUME ClaimInv, [Next]_vars, NEW v \in Workers, claimed'[v] # NULL
  PROVE  \/ claimed'[v] = claimed[v] /\ now'[v] = now[v]
         \/ \E e \in EventIds :
              /\ events'[e].state = "delivering"
              /\ KeyOf(claimed'[v]) = RowKey(e)'
              /\ claimed'[v].created_at > now'[v] - MaxAge
<1>1. CASE Tick \/ UNCHANGED vars
  BY <1>1 DEF Tick, vars, local
<1>2. CASE \E e \in EventIds : Accept(e) \/ Replay(e)
  BY <1>2 DEF Accept, Replay, local
<1>3. ASSUME NEW w \in Workers, Return(w)
      PROVE  claimed'[v] = claimed[v] /\ now'[v] = now[v]
  BY <1>3 DEF Return, ClaimInv, TypeOK
<1>4. ASSUME NEW w \in Workers, BeginRunOnce(w)
      PROVE  claimed'[v] = claimed[v] /\ now'[v] = now[v]
  BY <1>4 DEF BeginRunOnce, ClaimInv, WorkerShape, TypeOK, Busy
<1>5. ASSUME NEW w \in Workers, NEW rows \in SUBSET EventIds,
             ClaimAnswered(w, rows, EventIds)
      PROVE  \/ claimed'[v] = claimed[v] /\ now'[v] = now[v]
             \/ \E e \in EventIds :
                  /\ events'[e].state = "delivering"
                  /\ KeyOf(claimed'[v]) = RowKey(e)'
                  /\ claimed'[v].created_at > now'[v] - MaxAge
  <2>1. PICK e \in rows, c \in FreshClaimIds :
          /\ ClaimOne(w, rows, EventIds, e, c)
          /\ claimed' = [claimed EXCEPT ![w] = ClaimReturns(e, c)]
          /\ now' = now
    BY <1>5 DEF ClaimAnswered
  <2>2. CASE v # w
    BY <2>1, <2>2 DEF ClaimInv, TypeOK
  <2>3. CASE v = w
    <3>1. /\ c \in ClaimIds
          /\ Due(events[e], now[w])
          /\ Claimed(events[e], now[w], c).attempt_count <= MaxAttempts
      BY <2>1 DEF ClaimOne, Candidates, FreshClaimIds
    <3>2. events'[e] = Claimed(events[e], now[w], c)
      BY <2>1, <3>1 DEF ClaimOne, ClaimTable, Retirements, Retirable, Due
    <3>3. events[e] \in Rows /\ now[w] \in Int
      BY DEF ClaimInv, TypeOK
    <3>4. events'[e].state = "delivering" /\ events'[e].created_at = events[e].created_at
      BY <3>1, <3>2, <3>3, ClaimedFacts
    <3>5. claimed'[v] = ClaimReturns(e, c)
      BY <2>1, <2>3 DEF ClaimInv, TypeOK
    <3>6. KeyOf(claimed'[v]) = RowKey(e)'
      BY <3>5 DEF ClaimReturns, KeyOf, RowKey
    <3>7. claimed'[v].created_at > now'[v] - MaxAge
      <4>1. claimed'[v].created_at = events[e].created_at
        BY <3>4, <3>5 DEF ClaimReturns
      <4>2. events[e].created_at \in Int
        BY <3>3 DEF Rows
      <4>. QED  BY <2>1, <2>3, <3>1, <3>3, <4>1, <4>2, RowAssumption DEF Due, TooOld
    <3>. QED  BY <3>4, <3>6, <3>7
  <2>. QED  BY <2>2, <2>3
<1>6. ASSUME NEW w \in Workers, Claim(w)
      PROVE  \/ claimed'[v] = claimed[v] /\ now'[v] = now[v]
             \/ \E e \in EventIds :
                  /\ events'[e].state = "delivering"
                  /\ KeyOf(claimed'[v]) = RowKey(e)'
                  /\ claimed'[v].created_at > now'[v] - MaxAge
  <2>1. PICK rows \in SUBSET EventIds : ClaimStatement(w, rows, EventIds)
    BY <1>6 DEF Claim
  <2>2. CASE ClaimAnswered(w, rows, EventIds)
    BY <2>2, <1>5
  <2>3. CASE ~ClaimAnswered(w, rows, EventIds)
    BY <2>1, <2>3, <1>3 DEF ClaimStatement, ClaimNothing, ClaimLost
  <2>. QED  BY <2>2, <2>3
<1>7. ASSUME NEW w \in Workers,
             \/ SendRefused(w) \/ StartSend(w) \/ \E r \in Responses : Respond(w, r)
             \/ BeginRecord(w)
      PROVE  claimed'[v] = claimed[v] /\ now'[v] = now[v]
  BY <1>7 DEF SendRefused, StartSend, Respond, Finish, BeginRecord
<1>8. ASSUME NEW w \in Workers,
             RecordStale(w) \/ CommitRecord(w) \/ RecordRejected(w) \/ Abandon(w)
      PROVE  claimed'[v] = claimed[v] /\ now'[v] = now[v]
  BY <1>8, <1>3 DEF RecordStale, CommitRecord, RecordRejected, Abandon
<1>. QED  BY <1>1, <1>2, <1>4, <1>6, <1>7, <1>8 DEF Next, Attend

\* Only an attempt that a worker has in hand is put on the wire.
LEMMA SentStep ==
  ASSUME ClaimInv, [Next]_vars, NEW k \in sent'
  PROVE  k \in sent \/ \E w \in Workers : claimed[w] # NULL /\ k = KeyOf(claimed[w])
<1>1. ASSUME NEW w \in Workers, StartSend(w)
      PROVE  k \in sent \/ \E v \in Workers : claimed[v] # NULL /\ k = KeyOf(claimed[v])
  <2>1. claimed[w] # NULL
    BY <1>1 DEF StartSend, ClaimInv, WorkerShape, Busy
  <2>. QED  BY <1>1, <2>1 DEF StartSend
<1>2. CASE Tick \/ UNCHANGED vars
  BY <1>2 DEF Tick, vars
<1>3. CASE \E e \in EventIds : Accept(e) \/ Replay(e)
  BY <1>3 DEF Accept, Replay
<1>4. ASSUME NEW w \in Workers, Attend(w), ~StartSend(w)
      PROVE  sent' = sent
  <2>1. CASE Claim(w)
    BY <2>1 DEF Claim, ClaimStatement, ClaimNothing, ClaimAnswered, ClaimLost, ClaimOne
  <2>2. CASE SendRefused(w) \/ \E r \in Responses : Respond(w, r)
    BY <2>2 DEF SendRefused, Respond
  <2>3. CASE BeginRunOnce(w) \/ BeginRecord(w) \/ RecordStale(w) \/ CommitRecord(w)
              \/ RecordRejected(w) \/ Abandon(w)
    BY <2>3 DEF BeginRunOnce, BeginRecord, RecordStale, CommitRecord, RecordRejected, Abandon
  <2>. QED  BY <1>4, <2>1, <2>2, <2>3 DEF Attend
<1>. QED  BY <1>1, <1>2, <1>3, <1>4 DEF Next

\* Types of what is recorded and sent.
LEMMA RecordedType ==
  ASSUME TypeOK
  PROVE  /\ RecordedKeys \subseteq AttemptKeys
         /\ \A a \in attempts : a.key \in RecordedKeys
         /\ \A k \in AttemptKeys :
              /\ k.event_id \in EventIds
              /\ k.attempt_number \in Nat /\ k.attempt_number >= 1
              /\ k.replay_number \in Nat
BY MaxAttemptsAssumption, RowAssumption DEF TypeOK, RecordedKeys, AttemptKeys

\* A step that records nothing keeps the history.
LEMMA UnrecordedHistory ==
  ASSUME QueueInv, [Next]_vars, ClaimInv', attempts' = attempts,
         \A x \in EventIds : Unrecorded(Life(events[x]), Life(events'[x]))
  PROVE  AttemptHistory' /\ DeliveredOnce' /\ ClaimHistory'
<1>. USE DEF QueueInv
<1>1. RecordedKeys' = RecordedKeys
  BY DEF RecordedKeys
<1>2. \A k : PredecessorRecorded(k) => PredecessorRecorded(k)'
  BY <1>1 DEF PredecessorRecorded
<1>3. \A x \in EventIds : /\ events[x] \in Rows /\ events'[x] \in Rows
                          /\ events[x].attempt_count \in Nat /\ events[x].replay_count \in Nat
  BY MaxAttemptsAssumption, RowAssumption DEF ClaimInv, TypeOK, Rows
<1>4. /\ RecordedKeys \subseteq AttemptKeys
      /\ \A a \in attempts : a.key \in RecordedKeys
      /\ \A k \in AttemptKeys :
           /\ k.event_id \in EventIds
           /\ k.attempt_number \in Nat /\ k.attempt_number >= 1
           /\ k.replay_number \in Nat
  BY RecordedType DEF ClaimInv
<1>5. ASSUME NEW k \in RecordedKeys
      PROVE  /\ k.replay_number <= events'[k.event_id].replay_count
             /\ k.replay_number = events'[k.event_id].replay_count =>
                  k.attempt_number <= events'[k.event_id].attempt_count
  <2>. DEFINE e == k.event_id
  <2>1. /\ e \in EventIds /\ k.attempt_number \in Nat /\ k.replay_number \in Nat
        /\ k.attempt_number >= 1
    BY <1>4
  <2>2. /\ k.replay_number <= events[e].replay_count
        /\ k.replay_number = events[e].replay_count =>
             k.attempt_number <= events[e].attempt_count
    BY DEF AttemptHistory
  <2>3. /\ events[e].state = "absent" => events[e].attempt_count = 0 /\ events[e].replay_count = 0
    BY <2>1 DEF ClaimHistory
  <2>. QED  BY <1>3, <2>1, <2>2, <2>3, UnrecordedRow
<1>6. ASSUME NEW e \in EventIds
      PROVE  /\ events'[e].state \in {"delivered", "retry_scheduled"} =>
                  RowKey(e)' \in RecordedKeys
             /\ events'[e].state = "delivering" =>
                  /\ RowKey(e)' \notin RecordedKeys
                  /\ PredecessorRecorded(RowKey(e)')
             /\ events'[e].state \in {"absent", "pending"} => events'[e].attempt_count = 0
             /\ events'[e].state = "absent" => events'[e].replay_count = 0
  <2>1. CASE /\ events'[e].state = events[e].state
             /\ events'[e].attempt_count = events[e].attempt_count
             /\ events'[e].replay_count = events[e].replay_count
    <3>1. RowKey(e)' = RowKey(e)
      BY <2>1 DEF RowKey
    <3>. QED  BY <2>1, <3>1 DEF AttemptHistory, ClaimHistory
  <2>2. CASE events'[e].state \in {"pending", "dead_lettered"} /\
             (events'[e].state = "pending" => events'[e].attempt_count = 0)
    BY <2>2
  <2>3. CASE /\ events[e].state \in {"pending", "retry_scheduled"}
             /\ events'[e].state = "delivering"
             /\ events'[e].attempt_count = events[e].attempt_count + 1
             /\ events'[e].replay_count = events[e].replay_count
    <3>. DEFINE k == RowKey(e)'
    <3>1. k = [event_id |-> e, replay_number |-> events[e].replay_count,
               attempt_number |-> events[e].attempt_count + 1]
      BY <2>3 DEF RowKey
    <3>2. k \notin RecordedKeys
      <4>1. /\ k.event_id = e /\ k.replay_number = events[e].replay_count
            /\ k.attempt_number = events[e].attempt_count + 1
        BY <3>1
      <4>. HIDE DEF k
      <4>. QED  BY <1>3, <4>1 DEF AttemptHistory
    <3>3. PredecessorRecorded(k)
      <4>1. CASE events[e].state = "pending"
        <5>1. k.attempt_number = 1
          BY <3>1, <4>1 DEF ClaimHistory
        <5>. QED  BY <5>1 DEF PredecessorRecorded
      <4>2. CASE events[e].state = "retry_scheduled"
        <5>1. RowKey(e) \in RecordedKeys
          BY <4>2 DEF AttemptHistory
        <5>2. [k EXCEPT !.attempt_number = k.attempt_number - 1] = RowKey(e)
          BY <3>1, <1>3 DEF RowKey
        <5>. QED  BY <5>1, <5>2 DEF PredecessorRecorded
      <4>. QED  BY <2>3, <4>1, <4>2
    <3>. QED  BY <2>3, <3>2, <3>3
  <2>. QED  BY <1>3, <2>1, <2>2, <2>3, UnrecordedRow
<1>7. ASSUME NEW w \in Workers, claimed'[w] # NULL
      PROVE  PredecessorRecorded(KeyOf(claimed'[w]))
  BY <1>6, <1>7, ClaimedStep DEF ClaimHistory
<1>8. ASSUME NEW k \in sent' PROVE PredecessorRecorded(k)
  BY <1>8, SentStep DEF AttemptHistory, ClaimHistory
<1>9. DeliveredOnce'
  <2>. SUFFICES ASSUME NEW a \in attempts, a.outcome = "delivered"
                PROVE  /\ events'[a.key.event_id].state = "delivered"
                       /\ a.key = RowKey(a.key.event_id)'
    BY DEF DeliveredOnce
  <2>. DEFINE e == a.key.event_id
  <2>1. e \in EventIds
    BY <1>4
  <2>2. events[e].state = "delivered" /\ a.key = RowKey(e)
    BY DEF DeliveredOnce
  <2>3. /\ events'[e].state = "delivered"
        /\ events'[e].attempt_count = events[e].attempt_count
        /\ events'[e].replay_count = events[e].replay_count
    BY <1>3, <2>1, <2>2, UnrecordedRow
  <2>. QED  BY <2>2, <2>3 DEF RowKey
<1>10. AttemptHistory'
  BY <1>1, <1>2, <1>5, <1>6, <1>8 DEF AttemptHistory
<1>11. ClaimHistory'
  BY <1>2, <1>6, <1>7 DEF ClaimHistory
<1>. QED  BY <1>9, <1>10, <1>11

\* Recording an attempt extends the history by the attempt the row counts.
LEMMA RecordHistory ==
  ASSUME QueueInv, [Next]_vars, ClaimInv', NEW w \in Workers, CommitRecord(w)
  PROVE  AttemptHistory' /\ DeliveredOnce' /\ ClaimHistory'
<1>. USE DEF QueueInv
<1>. DEFINE e == claimed[w].event_id
            k == KeyOf(claimed[w])
            out == attempt[w].outcome
<1>1. /\ e \in EventIds
      /\ events[e].state = "delivering"
      /\ k = RowKey(e)
      /\ attempts' = attempts \cup {[key |-> k, outcome |-> out]}
      /\ events'[e].state \in {"delivered", "retry_scheduled", "dead_lettered"}
      /\ events'[e].state = "delivered" <=> out = "delivered"
      /\ events'[e].attempt_count = events[e].attempt_count
      /\ events'[e].replay_count = events[e].replay_count
      /\ \A x \in EventIds \ {e} : events'[x] = events[x]
  BY RecordMove
<1>2. claimed[w] # NULL
  BY LockHolderFacts DEF CommitRecord
<1>. HIDE DEF e, k, out
<1>3. RecordedKeys' = RecordedKeys \cup {k}
  <2>. DEFINE new == [key |-> k, outcome |-> out]
  <2>1. new.key = k /\ attempts' = attempts \cup {new}
    BY <1>1
  <2>. HIDE DEF new
  <2>. QED  BY <2>1, Zenon DEF RecordedKeys
<1>4. \A j : PredecessorRecorded(j) => PredecessorRecorded(j)'
  BY <1>3 DEF PredecessorRecorded
<1>5. \A x \in EventIds : RowKey(x)' = RowKey(x)
  BY <1>1 DEF RowKey
<1>6. /\ RecordedKeys \subseteq AttemptKeys
      /\ \A a \in attempts : a.key \in RecordedKeys
      /\ \A j \in AttemptKeys : j.event_id \in EventIds
  BY RecordedType DEF ClaimInv
<1>7. /\ k.event_id = e /\ k.replay_number = events[e].replay_count
      /\ k.attempt_number = events[e].attempt_count
  BY <1>1 DEF RowKey
<1>8. PredecessorRecorded(k)
  BY <1>2 DEF ClaimHistory, k
<1>9. ASSUME NEW j \in RecordedKeys'
      PROVE  /\ j.replay_number <= events'[j.event_id].replay_count
             /\ j.replay_number = events'[j.event_id].replay_count =>
                  j.attempt_number <= events'[j.event_id].attempt_count
  <2>1. \A x \in EventIds : /\ events'[x].replay_count = events[x].replay_count
                            /\ events'[x].attempt_count = events[x].attempt_count
    BY <1>1
  <2>2. CASE j \in RecordedKeys
    BY <1>6, <2>1, <2>2 DEF AttemptHistory
  <2>3. CASE j = k
    <3>1. events[e].replay_count \in Int /\ events[e].attempt_count \in Int
      BY <1>1 DEF ClaimInv, TypeOK, Rows
    <3>. QED  BY <1>1, <1>7, <2>1, <2>3, <3>1
  <2>. QED  BY <1>3, <2>2, <2>3
<1>10. ASSUME NEW x \in EventIds
       PROVE  /\ events'[x].state \in {"delivered", "retry_scheduled"} =>
                   RowKey(x)' \in RecordedKeys'
              /\ events'[x].state = "delivering" =>
                   /\ RowKey(x)' \notin RecordedKeys'
                   /\ PredecessorRecorded(RowKey(x))
              /\ events'[x].state \in {"absent", "pending"} => events'[x].attempt_count = 0
              /\ events'[x].state = "absent" => events'[x].replay_count = 0
  <2>1. CASE x = e
    BY <1>1, <1>3, <1>5, <2>1
  <2>2. CASE x # e
    <3>1. RowKey(x) # k
      BY <1>7, <2>2 DEF RowKey
    <3>2. events'[x] = events[x]
      BY <1>1, <2>2
    <3>. QED  BY <1>3, <1>5, <3>1, <3>2 DEF AttemptHistory, ClaimHistory
  <2>. QED  BY <2>1, <2>2
<1>11. ASSUME NEW v \in Workers, claimed'[v] # NULL
       PROVE  PredecessorRecorded(KeyOf(claimed'[v]))
  <2>1. claimed'[v] = claimed[v]
    BY <1>11 DEF CommitRecord, Return, ClaimInv, TypeOK
  <2>. QED  BY <1>11, <2>1 DEF ClaimHistory
<1>12. sent' = sent
  BY DEF CommitRecord
<1>13. DeliveredOnce'
  <2>. SUFFICES ASSUME NEW a \in attempts', a.outcome = "delivered"
                PROVE  /\ events'[a.key.event_id].state = "delivered"
                       /\ a.key = RowKey(a.key.event_id)'
    BY DEF DeliveredOnce
  <2>1. CASE a \in attempts
    <3>1. /\ a.key.event_id \in EventIds
          /\ events[a.key.event_id].state = "delivered"
          /\ a.key = RowKey(a.key.event_id)
      BY <1>6, <2>1 DEF DeliveredOnce
    <3>2. a.key.event_id # e
      BY <1>1, <3>1
    <3>. QED  BY <1>1, <1>5, <3>1, <3>2
  <2>2. CASE a = [key |-> k, outcome |-> out]
    BY <1>1, <1>5, <1>7, <2>2
  <2>. QED  BY <1>1, <2>1, <2>2
<1>14. AttemptHistory'
  BY <1>3, <1>4, <1>8, <1>9, <1>10, <1>12 DEF AttemptHistory
<1>15. ClaimHistory'
  BY <1>4, <1>5, <1>10, <1>11 DEF ClaimHistory
<1>. QED  BY <1>13, <1>14, <1>15

\* Claim hands out events inside the window only, and `now` stays.
LEMMA WindowStep ==
  ASSUME QueueInv, [Next]_vars PROVE ClaimedInWindow'
BY ClaimedStep DEF QueueInv, ClaimedInWindow

\* Nothing is recorded, sent or claimed in the beginning.
LEMMA QueueInvInit == Init => QueueInv
<1>. SUFFICES ASSUME Init PROVE QueueInv
  OBVIOUS
<1>1. AttemptHistory /\ DeliveredOnce
  BY DEF Init, AttemptHistory, DeliveredOnce, RecordedKeys, NoRow
<1>2. ClaimHistory /\ ClaimedInWindow
  BY DEF Init, ClaimHistory, ClaimedInWindow, NoRow
<1>. QED  BY <1>1, <1>2, ClaimInvInit DEF QueueInv

\* Every step of the queue preserves the inductive invariant.
LEMMA QueueInvStep == QueueInv /\ [Next]_vars => QueueInv'
<1>. SUFFICES ASSUME QueueInv, [Next]_vars PROVE QueueInv'
  OBVIOUS
<1>1. ClaimInv'
  BY ClaimInvStep DEF QueueInv
<1>2. AttemptHistory' /\ DeliveredOnce' /\ ClaimHistory'
  <2>1. CASE \E w \in Workers : CommitRecord(w)
    BY <2>1, <1>1, RecordHistory
  <2>2. CASE /\ attempts' = attempts
             /\ \A x \in EventIds : Unrecorded(Life(events[x]), Life(events'[x]))
    BY <2>2, <1>1, UnrecordedHistory
  <2>. QED  BY <2>1, <2>2, QueueStep DEF QueueInv
<1>. QED  BY <1>1, <1>2, WindowStep DEF QueueInv

-----------------------------------------------------------------------------
(***************************************************************************)
(* The theorems.                                                           *)
(***************************************************************************)

\* The inductive invariant holds in every reachable state.
THEOREM QueueInvHolds == Spec => []QueueInv
BY QueueInvInit, QueueInvStep, PTL DEF Spec

\* The attempt history has no holes and runs as far as the row counts.
THEOREM HistoryComplete == Spec => []AttemptHistory
<1>1. QueueInv => AttemptHistory
  BY DEF QueueInv
<1>. QED  BY <1>1, QueueInvHolds, PTL

\* A successful attempt is the last of its event, which is delivered.
THEOREM SuccessIsFinal == Spec => []DeliveredOnce
<1>1. QueueInv => DeliveredOnce
  BY DEF QueueInv
<1>. QED  BY <1>1, QueueInvHolds, PTL

\* The UNIQUE constraint never refuses the record of the row's owner.
THEOREM KeysUnique == Spec => []AttemptKeyUnused
<1>1. QueueInv => AttemptKeyUnused
  <2>. SUFFICES ASSUME QueueInv, NEW w \in Workers, pc[w] = "committing"
                PROVE  KeyOf(claimed[w]) \notin RecordedKeys
    BY DEF AttemptKeyUnused
  <2>1. /\ claimed[w].event_id \in EventIds
        /\ events[claimed[w].event_id].state = "delivering"
        /\ KeyOf(claimed[w]) = RowKey(claimed[w].event_id)
    BY LockHolderFacts DEF QueueInv, KeyOf, RowKey
  <2>. QED  BY <2>1 DEF QueueInv, AttemptHistory
<1>. QED  BY <1>1, QueueInvHolds, PTL

\* The request that leaves last leaves less than an attempt context after the
\* window of its event has closed.
THEOREM StartsInWindow == Spec => LateStartBounded
<1>1. QueueInv /\ [Next]_vars =>
        [\A w \in Workers :
           pc[w] = "claimed" /\ pc'[w] = "sending" =>
             clock + ClockOffset[w] < claimed[w].created_at + MaxAge + AttemptTimeout]_vars
  <2>. SUFFICES ASSUME QueueInv, [Next]_vars, NEW w \in Workers,
                       pc[w] = "claimed", pc'[w] = "sending"
                PROVE  clock + ClockOffset[w] <
                         claimed[w].created_at + MaxAge + AttemptTimeout
    OBVIOUS
  <2>1. StartSend(w)
    <3>1. CASE Tick \/ UNCHANGED vars \/ \E e \in EventIds : Accept(e) \/ Replay(e)
      BY <3>1 DEF Tick, vars, Accept, Replay, local
    <3>2. ASSUME NEW v \in Workers, Attend(v) PROVE StartSend(w)
      <4>1. ASSUME NEW p, p # "sending", pc' = [pc EXCEPT ![v] = p] PROVE FALSE
        BY <4>1 DEF QueueInv, ClaimInv, TypeOK
      <4>2. CASE StartSend(v)
        <5>1. pc' = [pc EXCEPT ![v] = "sending"]
          BY <4>2 DEF StartSend
        <5>2. v = w
          BY <5>1 DEF QueueInv, ClaimInv, TypeOK
        <5>. QED  BY <4>2, <5>2
      <4>3. CASE Claim(v)
        BY <4>1, <4>3 DEF Claim, ClaimStatement, ClaimNothing, ClaimAnswered, ClaimLost,
           Return
      <4>4. CASE SendRefused(v) \/ \E r \in Responses : Respond(v, r)
        BY <4>1, <4>4 DEF SendRefused, Respond, Finish
      <4>5. CASE BeginRunOnce(v) \/ BeginRecord(v)
        BY <4>1, <4>5 DEF BeginRunOnce, BeginRecord
      <4>6. CASE RecordStale(v) \/ CommitRecord(v) \/ RecordRejected(v) \/ Abandon(v)
        BY <4>1, <4>6 DEF RecordStale, CommitRecord, RecordRejected, Abandon, Return
      <4>. QED  BY <3>2, <4>2, <4>3, <4>4, <4>5, <4>6 DEF Attend
    <3>. QED  BY <3>1, <3>2 DEF Next
  <2>2. claimed[w] # NULL
    BY DEF QueueInv, ClaimInv, WorkerShape, Busy
  <2>3. /\ claimed[w].created_at > now[w] - MaxAge
        /\ now[w] = deadline[w] - AttemptTimeout + ClockOffset[w]
        /\ clock < deadline[w]
    BY <2>1, <2>2 DEF QueueInv, ClaimedInWindow, ClaimInv, WorkerShape, StartSend
  <2>4. /\ claimed[w].created_at \in Int /\ deadline[w] \in Int /\ clock \in Int
        /\ ClockOffset[w] \in Int /\ AttemptTimeout \in Int /\ MaxAge \in Int
    BY <2>2, ClaimedType, QueueAssumption, RowAssumption DEF QueueInv, ClaimInv, TypeOK
  <2>. QED  BY <2>3, <2>4
<1>. QED  BY <1>1, QueueInvHolds, PTL DEF Spec, LateStartBounded
=============================================================================
