------------------------ MODULE SandboxQueue_proofs -------------------------
(***************************************************************************)
(* The visitor sandbox for any number of sessions, events and workers: the *)
(* hourly quotas, the foreign keys across Cleanup, and the ownership of    *)
(* rows that Cleanup may delete.  The steps that the sandbox shares with   *)
(* the delivery queue are taken from the proofs of that module.            *)
(***************************************************************************)
EXTENDS SandboxQueue, DeliveryContract_proofs

-----------------------------------------------------------------------------
(***************************************************************************)
(* The inductive invariant.                                                *)
(***************************************************************************)
Grants == [Windows -> [sessions : Nat, admissions : Nat]]

\* The budget row counts what was granted in its window; nothing was granted
\* yet in any later window, and nowhere more than the quota.
QuotaOK(b, g) ==
  /\ b.window_start \in Windows
  /\ g[b.window_start].sessions = b.sessions
  /\ g[b.window_start].admissions = b.admissions
  /\ \A h \in Windows : h > b.window_start => g[h].sessions = 0 /\ g[h].admissions = 0
  /\ \A h \in Windows : /\ g[h].sessions <= SessionsPerWindow
                        /\ g[h].admissions <= AdmissionsPerWindow

\* What Cleanup has locked stays as it was selected, no Record transaction has
\* it, and no attempt comes back once the attempts are deleted.
CleaningOK ==
  cleaning # NULL =>
    /\ \A w \in Workers : pc[w] = "committing" => claimed[w].event_id \notin cleaning.ids
    /\ \A e \in cleaning.ids : Deletable(e)
    /\ cleaning.stage = "attempts_deleted" => Unreferenced

\* A visitor's event has had a session; what a worker claimed is the operator's
\* and still there, or was a visitor's whose session was live at `now`.
VisitsOK ==
  /\ \A e \in EventIds :
       sandbox[e] # NULL => sessions[sandbox[e].session].status # "unissued"
  /\ \A w \in Workers :
       claimed[w] # NULL =>
         IF sandbox[claimed[w].event_id] = NULL
         THEN events[claimed[w].event_id].state # "absent"
         ELSE sessions[sandbox[claimed[w].event_id].session].expires_at > now[w]

SandboxInv ==
  /\ ClaimInv
  /\ SandboxTypeOK
  /\ QuotaOK(budget, granted)
  /\ CleaningOK
  /\ VisitsOK
  /\ ReferencesHold

-----------------------------------------------------------------------------
(***************************************************************************)
(* Windows and the budget row.                                             *)
(***************************************************************************)

\* The constants of the sandbox, one by one.
LEMMA SandboxNumbers ==
  /\ SessionLifetime \in Nat /\ SessionLifetime > 0
  /\ WindowLength \in Nat /\ WindowLength > 0
  /\ SessionsPerWindow \in Nat /\ AdmissionsPerWindow \in Nat
  /\ EventsPerSession \in Nat /\ Horizon \in Nat
BY SandboxAssumption, QueueAssumption

\* The hour of an instant.
LEMMA HourType ==
  ASSUME NEW t \in Nat
  PROVE  Hour(t) \in Nat
BY SandboxNumbers DEF Hour

\* The first window is one of the windows.
LEMMA FirstWindow == 0 \in Windows
<1>1. Hour(0) = 0
  BY SandboxNumbers DEF Hour
<1>. QED  BY <1>1, SandboxNumbers DEF Windows

\* Windows are numbered from zero.
LEMMA WindowsAreNat == Windows \subseteq Nat
BY HourType, SandboxNumbers DEF Windows

\* The clock the database reads, set back or not, is within the model's time.
LEMMA WallClockType ==
  ASSUME TypeOK, NEW t \in WallClock
  PROVE  t \in 0..Horizon
<1>1. PICK d \in ClockSteps : t = IF d > clock THEN 0 ELSE clock - d
  BY DEF WallClock
<1>2. d \in Nat /\ clock \in Nat /\ clock <= Horizon /\ Horizon \in Nat
  BY SandboxAssumption, SandboxNumbers DEF TypeOK
<1>. QED  BY <1>1, <1>2

\* Moving the budget row to the window of t: forwards, with nothing counted, or
\* not at all.
LEMMA AdmissionFacts ==
  ASSUME NEW b \in Budgets, NEW g \in Grants, QuotaOK(b, g), NEW t \in 0..Horizon
  PROVE  admission(b, t) \in Budgets /\ QuotaOK(admission(b, t), g)
<1>1. /\ b.window_start \in Nat /\ b.sessions \in 0..SessionsPerWindow
      /\ b.admissions \in 0..AdmissionsPerWindow
  BY DEF Budgets
<1>2. PICK h \in Nat : h = Hour(t)
  BY HourType, SandboxNumbers
<1>3. h \in Windows
  BY <1>2 DEF Windows
<1>. DEFINE a == admission(b, t)
<1>4. CASE b.window_start < h
  <2>1. a.window_start = h /\ a.sessions = 0 /\ a.admissions = 0
    BY <1>2, <1>4 DEF admission
  <2>2. a \in Budgets
    BY <1>2, <1>4, SandboxNumbers DEF admission, Budgets
  <2>. HIDE DEF a
  <2>3. g[h].sessions = 0 /\ g[h].admissions = 0
    BY <1>1, <1>2, <1>3, <1>4 DEF QuotaOK
  <2>4. \A k \in Windows : k > h => k > b.window_start
    BY <1>1, <1>2, <1>4, WindowsAreNat
  <2>5. QuotaOK(a, g)
    BY <1>3, <2>1, <2>3, <2>4 DEF QuotaOK
  <2>. QED  BY <2>2, <2>5 DEF a
<1>5. CASE ~(b.window_start < h)
  <2>1. a.window_start = b.window_start /\ a.sessions = b.sessions /\ a.admissions = b.admissions
    BY <1>2, <1>5 DEF admission
  <2>2. a \in Budgets
    BY <1>1, <1>2, <1>5 DEF admission, Budgets
  <2>. HIDE DEF a
  <2>. QED  BY <2>1, <2>2 DEF QuotaOK, a
<1>. QED  BY <1>4, <1>5

\* One session more, within the quota, is counted in the window of the row.
LEMMA SessionGranted ==
  ASSUME NEW b \in Budgets, NEW g \in Grants, QuotaOK(b, g),
         b.sessions < SessionsPerWindow,
         NEW c, c = [b EXCEPT !.sessions = @ + 1],
         NEW k, k = [g EXCEPT ![b.window_start].sessions = @ + 1]
  PROVE  c \in Budgets /\ k \in Grants /\ QuotaOK(c, k)
<1>1. /\ b.window_start \in Nat /\ b.sessions \in 0..SessionsPerWindow
      /\ b.window_start \in Windows /\ SessionsPerWindow \in Nat
  BY SandboxNumbers DEF Budgets, QuotaOK
<1>2. /\ c \in Budgets /\ c.window_start = b.window_start
      /\ c.sessions = b.sessions + 1 /\ c.admissions = b.admissions
  BY <1>1 DEF Budgets
<1>3. /\ k \in Grants
      /\ k[b.window_start].sessions = g[b.window_start].sessions + 1
      /\ k[b.window_start].admissions = g[b.window_start].admissions
      /\ \A h \in Windows \ {b.window_start} : k[h] = g[h]
  BY <1>1 DEF Grants
<1>4. \A h \in Windows : h > b.window_start => h # b.window_start
  BY <1>1, WindowsAreNat
<1>5. QuotaOK(c, k)
  BY <1>1, <1>2, <1>3, <1>4 DEF QuotaOK
<1>. QED  BY <1>2, <1>3, <1>5

\* One admission more, likewise.
LEMMA AdmissionGranted ==
  ASSUME NEW b \in Budgets, NEW g \in Grants, QuotaOK(b, g),
         b.admissions < AdmissionsPerWindow,
         NEW k, k = [g EXCEPT ![b.window_start].admissions = @ + 1],
         NEW c \in Budgets, c.window_start = b.window_start,
         c.sessions = b.sessions, c.admissions = b.admissions + 1
  PROVE  k \in Grants /\ QuotaOK(c, k)
<1>1. /\ b.window_start \in Nat /\ b.admissions \in 0..AdmissionsPerWindow
      /\ b.window_start \in Windows /\ AdmissionsPerWindow \in Nat
  BY SandboxNumbers DEF Budgets, QuotaOK
<1>2. /\ k \in Grants
      /\ k[b.window_start].admissions = g[b.window_start].admissions + 1
      /\ k[b.window_start].sessions = g[b.window_start].sessions
      /\ \A h \in Windows \ {b.window_start} : k[h] = g[h]
  BY <1>1 DEF Grants
<1>3. \A h \in Windows : h > b.window_start => h # b.window_start
  BY <1>1, WindowsAreNat
<1>4. QuotaOK(c, k)
  BY <1>1, <1>2, <1>3 DEF QuotaOK
<1>. QED  BY <1>2, <1>4

-----------------------------------------------------------------------------
(***************************************************************************)
(* What a step of the delivery queue may do beside the sandbox.            *)
(***************************************************************************)

\* No row goes away, and none of a visitor's appears; what Cleanup has locked
\* stays, gets no attempt and is not locked by a Record transaction; a worker
\* keeps its claimed event, or gets one that is present and live.
QueueEffect ==
  /\ UNCHANGED <<clock, sandboxVars>>
  /\ \A e \in EventIds :
       /\ events[e].state # "absent" => events'[e].state # "absent"
       /\ sandbox[e] # NULL /\ events[e].state = "absent" => events'[e].state = "absent"
  /\ \A e \in CleaningLocks : events'[e] = events[e]
  /\ \A a \in attempts' \ attempts :
       events[a.key.event_id].state # "absent" /\ a.key.event_id \notin CleaningLocks
  /\ \A v \in Workers : pc'[v] = "committing" =>
       \/ pc[v] = "committing" /\ claimed'[v] = claimed[v]
       \/ claimed'[v].event_id \notin CleaningLocks
  /\ \A v \in Workers : claimed'[v] # NULL =>
       \/ claimed'[v] = claimed[v] /\ now'[v] = now[v]
       \/ /\ claimed'[v].event_id \in EventIds
          /\ events[claimed'[v].event_id].state # "absent"
          /\ claimed'[v].event_id \in LiveEvents(now'[v])

\* Such a step preserves what the sandbox relies on.
LEMMA QueueEffectInv ==
  ASSUME SandboxInv, ClaimInv', QueueEffect
  PROVE  SandboxInv'
<1>1. UNCHANGED <<clock, sessions, sandbox, budget, cleaning, granted>>
  BY DEF QueueEffect, sandboxVars
<1>2. SandboxTypeOK'
  BY <1>1 DEF SandboxInv, SandboxTypeOK, ClaimInv
<1>3. QuotaOK(budget, granted)'
  BY <1>1 DEF SandboxInv, QuotaOK
<1>4. CleaningOK'
  <2>. SUFFICES ASSUME cleaning # NULL
                PROVE  /\ \A w \in Workers :
                            pc'[w] = "committing" => claimed'[w].event_id \notin cleaning.ids
                       /\ \A e \in cleaning.ids : Deletable(e)'
                       /\ cleaning.stage = "attempts_deleted" => Unreferenced'
    BY <1>1 DEF CleaningOK
  <2>1. CleaningLocks = cleaning.ids /\ CleaningOK
    BY DEF CleaningLocks, SandboxInv
  <2>2. \A w \in Workers : pc'[w] = "committing" => claimed'[w].event_id \notin cleaning.ids
    BY <2>1 DEF QueueEffect, CleaningOK
  <2>3. \A e \in cleaning.ids : Deletable(e)'
    BY <1>1, <2>1 DEF QueueEffect, CleaningOK, Deletable
  <2>4. cleaning.stage = "attempts_deleted" => Unreferenced'
    BY <1>1, <2>1 DEF QueueEffect, CleaningOK, Unreferenced
  <2>. QED  BY <2>2, <2>3, <2>4
<1>5. VisitsOK'
  <2>1. \A e \in EventIds :
          sandbox[e] # NULL => sessions[sandbox[e].session].status # "unissued"
    BY DEF SandboxInv, VisitsOK
  <2>2. ASSUME NEW w \in Workers, claimed'[w] # NULL
        PROVE  IF sandbox[claimed'[w].event_id] = NULL
               THEN events'[claimed'[w].event_id].state # "absent"
               ELSE sessions[sandbox[claimed'[w].event_id].session].expires_at > now'[w]
    <3>1. claimed'[w].event_id \in EventIds
      BY <2>2 DEF ClaimInv, TypeOK, ClaimedEvents
    <3>2. CASE claimed'[w] = claimed[w] /\ now'[w] = now[w]
      BY <2>2, <3>1, <3>2 DEF SandboxInv, VisitsOK, QueueEffect
    <3>3. CASE /\ events[claimed'[w].event_id].state # "absent"
               /\ claimed'[w].event_id \in LiveEvents(now'[w])
      BY <3>1, <3>3 DEF QueueEffect, LiveEvents, Active
    <3>. QED  BY <2>2, <3>2, <3>3 DEF QueueEffect
  <2>. QED  BY <1>1, <2>1, <2>2 DEF VisitsOK
<1>6. ReferencesHold'
  <2>1. ASSUME NEW a \in attempts' PROVE events'[a.key.event_id].state # "absent"
    <3>1. a.key.event_id \in EventIds
      BY DEF ClaimInv, TypeOK, AttemptKeys
    <3>2. events[a.key.event_id].state # "absent"
      BY DEF QueueEffect, SandboxInv, ReferencesHold
    <3>. QED  BY <3>1, <3>2 DEF QueueEffect
  <2>2. \A e \in EventIds : events'[e].state # "absent" /\ sandbox[e] # NULL =>
          sessions[sandbox[e].session].status = "stored"
    BY DEF QueueEffect, SandboxInv, ReferencesHold
  <2>. QED  BY <1>1, <2>1, <2>2 DEF ReferencesHold
<1>. QED  BY <1>2, <1>3, <1>4, <1>5, <1>6 DEF SandboxInv

\* A step that changes neither table, and no claimed event but by returning.
LEMMA LocalEffect ==
  ASSUME SandboxInv, NEW w \in Workers, UNCHANGED <<clock, events, attempts, sandboxVars>>,
         \A v \in Workers \ {w} :
           pc'[v] = pc[v] /\ claimed'[v] = claimed[v] /\ now'[v] = now[v],
         pc'[w] = "committing" => claimed'[w].event_id \notin CleaningLocks,
         claimed'[w] # NULL => claimed'[w] = claimed[w] /\ now'[w] = now[w]
  PROVE  QueueEffect
<1>1. \A v \in Workers : pc'[v] = "committing" =>
        \/ pc[v] = "committing" /\ claimed'[v] = claimed[v]
        \/ claimed'[v].event_id \notin CleaningLocks
  OBVIOUS
<1>2. \A v \in Workers : claimed'[v] # NULL => claimed'[v] = claimed[v] /\ now'[v] = now[v]
  OBVIOUS
<1>. QED  BY <1>1, <1>2 DEF QueueEffect

\* A worker returns.
LEMMA ReturnEffect ==
  ASSUME SandboxInv, NEW w \in Workers, Return(w),
         UNCHANGED <<clock, events, attempts, sandboxVars>>
  PROVE  QueueEffect
BY LocalEffect DEF Return, SandboxInv, ClaimInv, TypeOK

\* A row that is not a visitor's is written by the operator.
LEMMA OperatorEffect ==
  ASSUME SandboxInv, NEW e \in EventIds, Operator(e)
  PROVE  QueueEffect
<1>1. PICK row : events' = [events EXCEPT ![e] = row] /\ row.state # "absent"
  <2>0. clock \in Int /\ events[e] \in Rows
    BY DEF SandboxInv, ClaimInv, TypeOK
  <2>1. CASE Accept(e)
    <3>1. NewRow(clock).state = "pending"
      BY <2>0, NewRowFacts
    <3>. QED  BY <2>1, <3>1 DEF Accept
  <2>2. CASE Replay(e)
    <3>1. Replayed(events[e], clock).state = "pending"
      BY <2>0, <2>2, ReplayedFacts DEF Replay, Replayable
    <3>. QED  BY <2>2, <3>1 DEF Replay
  <2>. QED  BY <2>1, <2>2 DEF Operator
<1>2. UNCHANGED <<clock, attempts, local, sandboxVars>> /\ sandbox[e] = NULL
  BY DEF Operator, Accept, Replay
<1>3. e \notin CleaningLocks
  BY <1>2 DEF CleaningLocks, SandboxInv, CleaningOK, Deletable
<1>4. events \in [EventIds -> Rows] /\ CleaningLocks \subseteq EventIds
  BY DEF SandboxInv, ClaimInv, TypeOK, SandboxTypeOK, CleaningLocks, Cleanings
<1>5. \A x \in EventIds : events'[x] = IF x = e THEN row ELSE events[x]
  BY <1>1, <1>4
<1>. QED  BY <1>1, <1>2, <1>3, <1>4, <1>5 DEF QueueEffect, local

\* What a Claim statement does to the rows: it retires and claims present rows
\* among those it may lock.
LEMMA ClaimTableEffect ==
  ASSUME ClaimInv, NEW w \in Workers, NEW rows \in SUBSET EventIds,
         NEW r \in Retirements(rows, now[w]), NEW es \in SUBSET rows,
         NEW c \in ClaimIds \cup {NULL},
         \A e \in es : /\ c \in ClaimIds
                       /\ Due(events[e], now[w])
                       /\ Claimed(events[e], now[w], c).attempt_count <= MaxAttempts,
         events' = ClaimTable(w, r, es, c)
  PROVE  /\ \A x \in EventIds : events'[x].state = "absent" <=> events[x].state = "absent"
         /\ \A x \in EventIds \ rows : events'[x] = events[x]
<1>1. ASSUME NEW x \in r
      PROVE  /\ x \in rows /\ events[x].state # "absent"
             /\ Retired(events[x]).state = "dead_lettered"
  <2>1. x \in rows /\ Retirable(events[x], now[w])
    BY DEF Retirements
  <2>2. events[x] \in Rows
    BY <2>1 DEF ClaimInv, TypeOK
  <2>. QED  BY <2>1, <2>2, RetiredFacts DEF Retirable, Waiting, LeaseExpired
<1>2. ASSUME NEW x \in es
      PROVE  /\ events[x].state # "absent"
             /\ Claimed(events[x], now[w], c).state = "delivering"
  <2>1. events[x] \in Rows /\ now[w] \in Int
    BY DEF ClaimInv, TypeOK
  <2>. QED  BY <2>1, ClaimedFacts DEF Due, Waiting, LeaseExpired
<1>. QED  BY <1>1, <1>2 DEF ClaimTable

\* The Claim statement passes over what Cleanup has locked, and hands out the
\* events of live sessions only.
LEMMA ClaimEffect ==
  ASSUME SandboxInv, NEW w \in Workers, SandboxClaim(w)
  PROVE  QueueEffect /\ ClaimInv'
<1>1. PICK skipped \in Skippable(w) :
        ClaimStatement(w, EventIds \ (skipped \cup LockedRows \cup CleaningLocks),
                       LiveEvents(now[w]))
  BY DEF SandboxClaim
<1>. DEFINE rows == EventIds \ (skipped \cup LockedRows \cup CleaningLocks)
            live == LiveEvents(now[w])
<1>2. rows \in SUBSET (EventIds \ LockedRows) /\ rows \in SUBSET EventIds
  OBVIOUS
<1>3. CleaningLocks \subseteq EventIds \ rows
  BY DEF SandboxInv, SandboxTypeOK, CleaningLocks, Cleanings
<1>4. /\ pc[w] = "claiming"
      /\ ClaimNothing(w, rows, live) \/ ClaimAnswered(w, rows, live) \/ ClaimLost(w, rows, live)
      /\ UNCHANGED sandboxVars
  BY <1>1 DEF ClaimStatement, SandboxClaim
<1>. HIDE DEF rows, live
<1>5. ClaimInv'
  BY <1>2, <1>4, ClaimUnansweredClaimInv, ClaimAnsweredClaimInv DEF SandboxInv
<1>6. /\ \A x \in EventIds : events'[x].state = "absent" <=> events[x].state = "absent"
      /\ \A x \in EventIds \ rows : events'[x] = events[x]
  <2>1. CASE ClaimNothing(w, rows, live)
    BY <1>2, <2>1, ClaimTableEffect DEF ClaimNothing, SandboxInv
  <2>2. CASE ClaimAnswered(w, rows, live) \/ ClaimLost(w, rows, live)
    <3>1. PICK e \in rows, c \in FreshClaimIds : ClaimOne(w, rows, live, e, c)
      BY <2>2 DEF ClaimAnswered, ClaimLost
    <3>2. PICK r \in Retirements(rows, now[w]) : events' = ClaimTable(w, r, {e}, c)
      BY <3>1 DEF ClaimOne
    <3>3. /\ c \in ClaimIds /\ Due(events[e], now[w])
          /\ Claimed(events[e], now[w], c).attempt_count <= MaxAttempts
      BY <3>1 DEF ClaimOne, Candidates, FreshClaimIds
    <3>. DEFINE es == {e}
    <3>4. es \in SUBSET rows /\ (\A x \in es : x = e) /\ events' = ClaimTable(w, r, es, c)
      BY <3>2
    <3>. HIDE DEF es
    <3>. QED  BY <1>2, <3>3, <3>4, ClaimTableEffect DEF SandboxInv
  <2>. QED  BY <1>4, <2>1, <2>2
<1>7. UNCHANGED <<clock, attempts>>
  BY <1>4 DEF ClaimNothing, ClaimAnswered, ClaimLost, ClaimOne
<1>8. CASE Return(w)
  <2>1. \A v \in Workers : claimed'[v] # NULL => claimed'[v] = claimed[v] /\ now'[v] = now[v]
    BY <1>8 DEF Return, SandboxInv, ClaimInv, TypeOK
  <2>2. \A v \in Workers : pc'[v] = "committing" =>
          pc[v] = "committing" /\ claimed'[v] = claimed[v]
    BY <1>8 DEF Return, SandboxInv, ClaimInv, TypeOK
  <2>. QED  BY <1>3, <1>4, <1>5, <1>6, <1>7, <2>1, <2>2 DEF QueueEffect
<1>9. CASE ClaimAnswered(w, rows, live)
  <2>1. PICK e \in rows, c \in FreshClaimIds :
          /\ ClaimOne(w, rows, live, e, c)
          /\ pc' = [pc EXCEPT ![w] = "claimed"]
          /\ claimed' = [claimed EXCEPT ![w] = ClaimReturns(e, c)]
          /\ now' = now
    BY <1>9 DEF ClaimAnswered
  <2>2. e \in EventIds /\ e \in live /\ events[e].state # "absent"
    BY <1>2, <2>1 DEF ClaimOne, Candidates, Due, Waiting, LeaseExpired
  <2>3. claimed'[w].event_id = e /\ \A v \in Workers \ {w} : claimed'[v] = claimed[v]
    BY <2>1 DEF ClaimReturns, SandboxInv, ClaimInv, TypeOK
  <2>4. pc'[w] = "claimed" /\ \A v \in Workers \ {w} : pc'[v] = pc[v]
    BY <2>1 DEF SandboxInv, ClaimInv, TypeOK
  <2>5. \A v \in Workers : pc'[v] = "committing" =>
          pc[v] = "committing" /\ claimed'[v] = claimed[v]
    BY <2>3, <2>4
  <2>6. \A v \in Workers :
          \/ claimed'[v] = claimed[v] /\ now'[v] = now[v]
          \/ /\ claimed'[v].event_id \in EventIds
             /\ events[claimed'[v].event_id].state # "absent"
             /\ claimed'[v].event_id \in LiveEvents(now'[v])
    BY <2>1, <2>2, <2>3 DEF live
  <2>. QED  BY <1>3, <1>4, <1>5, <1>6, <1>7, <2>5, <2>6 DEF QueueEffect
<1>. QED  BY <1>4, <1>5, <1>8, <1>9 DEF ClaimNothing, ClaimLost

\* Sending, in process or over the network, changes no table.
LEMMA SendEffect ==
  ASSUME SandboxInv, NEW w \in Workers, SandboxSend(w) \/ NetworkSend(w)
  PROVE  QueueEffect /\ ClaimInv'
<1>1. ClaimInv'
  <2>1. CASE SandboxSend(w)
    <3>. DEFINE status == sandbox_attempt(sandbox[claimed[w].event_id].scenario,
                                          claimed[w].attempt_number)
    <3>1. status \in Int
      BY DEF sandbox_attempt
    <3>2. pc[w] = "claimed" /\ Finish(w, status, HTTPOutcome(status)) /\ sent' = sent
      BY <2>1 DEF SandboxSend
    <3>. HIDE DEF status
    <3>. QED  BY <3>1, <3>2, FinishClaimInv, HTTPOutcomeType DEF SandboxInv
  <2>2. CASE NetworkSend(w)
    BY <2>2, SendRefusedClaimInv, StartSendClaimInv, RespondClaimInv
    DEF NetworkSend, SandboxInv
  <2>. QED  BY <2>1, <2>2
<1>2. /\ UNCHANGED <<clock, events, attempts, now, claimed, sandboxVars>>
      /\ \E place \in {"sending", "recording"} : pc' = [pc EXCEPT ![w] = place]
  BY DEF SandboxSend, NetworkSend, Finish, SendRefused, StartSend, Respond
<1>3. pc'[w] # "committing" /\ \A v \in Workers \ {w} : pc'[v] = pc[v]
  BY <1>2 DEF SandboxInv, ClaimInv, TypeOK
<1>. QED  BY <1>1, <1>2, <1>3, LocalEffect

\* Record: its UPDATE waits for Cleanup, and what it commits is about a row that
\* is present and that Cleanup has not locked.
LEMMA RecordEffect ==
  ASSUME SandboxInv, NEW w \in Workers, SandboxRecord(w)
  PROVE  QueueEffect /\ ClaimInv'
<1>1. CASE RecordStale(w) \/ RecordRejected(w)
  BY <1>1, ReturnClaimInv, ReturnEffect
  DEF RecordStale, RecordRejected, SandboxInv, SandboxRecord
<1>2. CASE BeginRecord(w)
  <2>1. claimed[w].event_id \notin CleaningLocks
    <3>1. pc[w] = "recording"
      BY <1>2 DEF BeginRecord
    <3>. QED  BY <3>1 DEF SandboxRecord, CommitRecord, RecordRejected
  <2>2. /\ UNCHANGED <<clock, events, attempts, now, claimed, sandboxVars>>
        /\ pc' = [pc EXCEPT ![w] = "committing"]
    BY <1>2 DEF BeginRecord, SandboxRecord
  <2>3. \A v \in Workers \ {w} : pc'[v] = pc[v]
    BY <2>2 DEF SandboxInv, ClaimInv, TypeOK
  <2>. QED  BY <1>2, <2>1, <2>2, <2>3, LocalEffect, BeginRecordClaimInv DEF SandboxInv
<1>3. CASE CommitRecord(w)
  <2>. DEFINE e == claimed[w].event_id
  <2>1. ClaimInv' /\ pc[w] = "committing"
    BY <1>3, CommitRecordClaimInv DEF SandboxInv, CommitRecord
  <2>2. /\ e \in EventIds /\ events[e].state = "delivering"
        /\ attempts' = attempts \cup {[key |-> KeyOf(claimed[w]), outcome |-> attempt[w].outcome]}
        /\ events'[e].state # "absent"
        /\ \A x \in EventIds \ {e} : events'[x] = events[x]
    BY <1>3, RecordMove DEF SandboxInv
  <2>3. e \notin CleaningLocks /\ CleaningLocks \subseteq EventIds
    BY <2>1 DEF SandboxInv, CleaningOK, CleaningLocks, SandboxTypeOK, Cleanings
  <2>4. Return(w) /\ UNCHANGED <<clock, sandboxVars>>
    BY <1>3 DEF CommitRecord, SandboxRecord
  <2>5. \A a \in attempts' \ attempts : a.key.event_id = e
    BY <2>2 DEF KeyOf
  <2>6. /\ \A v \in Workers : claimed'[v] # NULL => claimed'[v] = claimed[v] /\ now'[v] = now[v]
        /\ \A v \in Workers : pc'[v] = "committing" =>
             pc[v] = "committing" /\ claimed'[v] = claimed[v]
    BY <2>4 DEF Return, SandboxInv, ClaimInv, TypeOK
  <2>. HIDE DEF e
  <2>7. \A a \in attempts' \ attempts :
          events[a.key.event_id].state # "absent" /\ a.key.event_id \notin CleaningLocks
    BY <2>2, <2>3, <2>5
  <2>8. \A x \in EventIds : events[x].state = "absent" => events'[x] = events[x]
    BY <2>2
  <2>9. \A x \in EventIds : events[x].state # "absent" => events'[x].state # "absent"
    BY <2>2
  <2>. QED  BY <2>1, <2>2, <2>3, <2>4, <2>6, <2>7, <2>8, <2>9 DEF QueueEffect
<1>. QED  BY <1>1, <1>2, <1>3 DEF SandboxRecord

\* Every step of a worker.
LEMMA AttendStep ==
  ASSUME SandboxInv, NEW w \in Workers, SandboxAttend(w)
  PROVE  SandboxInv'
<1>1. CASE BeginRunOnce(w) /\ UNCHANGED sandboxVars
  <2>1. /\ claimed[w] = NULL /\ UNCHANGED <<clock, events, attempts, claimed, sandboxVars>>
        /\ pc'[w] = "claiming"
        /\ \A v \in Workers \ {w} : pc'[v] = pc[v] /\ now'[v] = now[v]
    BY <1>1 DEF BeginRunOnce, SandboxInv, ClaimInv, TypeOK, WorkerShape, Busy
  <2>2. QueueEffect
    BY <2>1, LocalEffect
  <2>. QED  BY <1>1, <2>2, BeginRunOnceClaimInv, QueueEffectInv DEF SandboxInv
<1>2. CASE Abandon(w) /\ UNCHANGED sandboxVars
  BY <1>2, ReturnClaimInv, ReturnEffect, QueueEffectInv DEF Abandon, SandboxInv
<1>. QED  BY <1>1, <1>2, ClaimEffect, SendEffect, RecordEffect, QueueEffectInv
          DEF SandboxAttend

-----------------------------------------------------------------------------
(***************************************************************************)
(* Visitors.  Their transactions hold the lock on the budget row, so       *)
(* Cleanup is not running.                                                 *)
(***************************************************************************)

\* The budget row and what was granted, as numbers of the state.
LEMMA BudgetFacts ==
  ASSUME SandboxInv, NEW t \in WallClock
  PROVE  /\ granted \in Grants
         /\ admission(budget, t) \in Budgets
         /\ QuotaOK(admission(budget, t), granted)
<1>1. t \in 0..Horizon
  BY WallClockType DEF SandboxInv, SandboxTypeOK
<1>2. budget \in Budgets /\ granted \in Grants /\ QuotaOK(budget, granted)
  BY DEF SandboxInv, SandboxTypeOK, Grants
<1>. QED  BY <1>1, <1>2, AdmissionFacts

\* An admission is charged in the window of the locked row.
LEMMA ChargeFacts ==
  ASSUME SandboxInv, NEW t \in WallClock, charge(admission(budget, t)),
         granted' = [granted EXCEPT ![budget'.window_start].admissions = @ + 1]
  PROVE  budget' \in Budgets /\ granted' \in Grants /\ QuotaOK(budget', granted')
<1>1. PICK b \in Budgets : b = admission(budget, t) /\ QuotaOK(b, granted)
  BY BudgetFacts
<1>2. PICK g \in Grants : g = granted /\ QuotaOK(b, g)
  BY <1>1, BudgetFacts
<1>3. b.admissions < AdmissionsPerWindow /\ budget' = [b EXCEPT !.admissions = @ + 1]
  BY <1>1 DEF charge
<1>4. PICK c \in Budgets :
        /\ c = budget' /\ c.window_start = b.window_start
        /\ c.sessions = b.sessions /\ c.admissions = b.admissions + 1
  BY <1>3, SandboxNumbers DEF Budgets
<1>5. PICK k : k = granted' /\ k = [g EXCEPT ![b.window_start].admissions = @ + 1]
  BY <1>2, <1>4
<1>6. k \in Grants /\ QuotaOK(c, k)
  BY <1>2, <1>3, <1>4, <1>5, AdmissionGranted
<1>. QED  BY <1>4, <1>5, <1>6

\* A session is created under an identifier that no event refers to.
LEMMA CreateStep ==
  ASSUME SandboxInv, NEW s \in SessionIds, Create(s)
  PROVE  SandboxInv'
<1>1. PICK t \in WallClock :
        /\ admission(budget, t).sessions < SessionsPerWindow
        /\ budget' = [admission(budget, t) EXCEPT !.sessions = @ + 1]
        /\ granted' = [granted EXCEPT ![admission(budget, t).window_start].sessions = @ + 1]
  BY DEF Create
<1>2. budget' \in Budgets /\ granted' \in Grants /\ QuotaOK(budget', granted')
  <2>1. PICK b \in Budgets : b = admission(budget, t) /\ QuotaOK(b, granted)
    BY BudgetFacts
  <2>2. PICK g \in Grants : g = granted
    BY BudgetFacts
  <2>3. /\ b.sessions < SessionsPerWindow /\ budget' = [b EXCEPT !.sessions = @ + 1]
        /\ granted' = [g EXCEPT ![b.window_start].sessions = @ + 1] /\ QuotaOK(b, g)
    BY <1>1, <2>1, <2>2
  <2>. QED  BY <2>3, SessionGranted
<1>3. UNCHANGED <<vars, sandbox, cleaning>> /\ cleaning = NULL
  BY DEF Create
<1>4. ClaimInv' /\ TypeOK'
  BY <1>3 DEF vars, SandboxInv, ClaimInv, TypeOK, RowShape, WorkerShape, ClaimsDistinct,
              HolderAgrees, LockOwnsRow, AttemptOwnsRow, ClaimWithinBudget
<1>. DEFINE new == [status |-> "stored", expires_at |-> clock + SessionLifetime,
                    event_count |-> 0]
<1>5. new \in Sessions /\ new.status = "stored"
  BY SandboxNumbers DEF Sessions, SandboxInv, ClaimInv, TypeOK
<1>6. sessions' = [sessions EXCEPT ![s] = new] /\ sessions[s].status = "unissued"
  BY DEF Create
<1>. HIDE DEF new
<1>7. sessions' \in [SessionIds -> Sessions]
  BY <1>5, <1>6 DEF SandboxInv, SandboxTypeOK
<1>8. /\ sessions'[s].status = "stored"
      /\ \A o \in SessionIds \ {s} : sessions'[o] = sessions[o]
  BY <1>5, <1>6 DEF SandboxInv, SandboxTypeOK
<1>9. SandboxTypeOK'
  BY <1>2, <1>3, <1>4, <1>7 DEF SandboxInv, SandboxTypeOK, Grants
<1>10. CleaningOK'
  BY <1>3 DEF CleaningOK
<1>11. \A e \in EventIds : sandbox[e] # NULL =>
         /\ sandbox[e].session \in SessionIds
         /\ sessions'[sandbox[e].session] = sessions[sandbox[e].session]
  BY <1>6, <1>8 DEF SandboxInv, SandboxTypeOK, VisitsOK
<1>12. VisitsOK'
  <2>1. \A w \in Workers : claimed[w] # NULL => claimed[w].event_id \in EventIds
    BY DEF SandboxInv, ClaimInv, TypeOK, ClaimedEvents
  <2>. QED  BY <1>3, <1>11, <2>1 DEF vars, SandboxInv, VisitsOK
<1>13. ReferencesHold'
  BY <1>3, <1>11 DEF vars, SandboxInv, ReferencesHold
<1>. QED  BY <1>2, <1>4, <1>9, <1>10, <1>12, <1>13 DEF SandboxInv

\* A row that nobody is delivering becomes pending, for a live session.
LEMMA VisitorRow ==
  ASSUME SandboxInv, NEW s \in SessionIds, NEW e \in EventIds, Active(s, clock),
         cleaning = NULL, UNCHANGED <<clock, attempts, sent, local, cleaning>>,
         NEW row \in Rows, row.state = "pending", row.claim_id = NULL,
         row.attempt_count = 0, events[e].state # "delivering",
         events' = [events EXCEPT ![e] = row],
         sessions' \in [SessionIds -> Sessions],
         \A o \in SessionIds : /\ sessions'[o].status = sessions[o].status
                               /\ sessions'[o].expires_at = sessions[o].expires_at,
         sandbox' \in [EventIds -> [session : SessionIds, scenario : Scenarios] \cup {NULL}],
         sandbox'[e] # NULL => sandbox'[e].session = s,
         \A x \in EventIds \ {e} : sandbox'[x] = sandbox[x],
         sandbox[e] # NULL => sandbox'[e] = sandbox[e],
         sandbox[e] = NULL => events[e].state = "absent",
         budget' \in Budgets, granted' \in Grants, QuotaOK(budget', granted')
  PROVE  SandboxInv'
<1>1. ClaimInv'
  BY PendingClaimInv DEF SandboxInv
<1>2. SandboxTypeOK'
  BY <1>1 DEF ClaimInv, SandboxTypeOK, Grants
<1>3. CleaningOK'
  BY DEF CleaningOK
<1>4. /\ events'[e].state # "absent" /\ \A x \in EventIds \ {e} : events'[x] = events[x]
      /\ sessions[s].status = "stored"
  BY DEF Active, SandboxInv, ClaimInv, TypeOK
<1>5. \A x \in EventIds : sandbox'[x] # NULL => sandbox'[x].session \in SessionIds
  OBVIOUS
<1>6. VisitsOK'
  <2>1. \A x \in EventIds :
          sandbox'[x] # NULL => sessions'[sandbox'[x].session].status # "unissued"
    BY <1>4, <1>5 DEF SandboxInv, VisitsOK
  <2>2. ASSUME NEW w \in Workers, claimed[w] # NULL
        PROVE  IF sandbox'[claimed[w].event_id] = NULL
               THEN events'[claimed[w].event_id].state # "absent"
               ELSE sessions'[sandbox'[claimed[w].event_id].session].expires_at > now[w]
    <3>. DEFINE x == claimed[w].event_id
    <3>1. x \in EventIds
      BY <2>2 DEF SandboxInv, ClaimInv, TypeOK, ClaimedEvents
    <3>2. IF sandbox[x] = NULL THEN events[x].state # "absent"
          ELSE sessions[sandbox[x].session].expires_at > now[w]
      BY <2>2 DEF SandboxInv, VisitsOK
    <3>. HIDE DEF x
    <3>3. sandbox'[x] = sandbox[x]
      BY <3>1, <3>2
    <3>4. events[x].state # "absent" => events'[x].state # "absent"
      BY <1>4, <3>1
    <3>. QED  BY <1>5, <3>1, <3>2, <3>3, <3>4 DEF x
  <2>. QED  BY <2>1, <2>2 DEF VisitsOK, local
<1>7. ReferencesHold'
  <2>1. \A a \in attempts : a.key.event_id \in EventIds
    BY DEF SandboxInv, ClaimInv, TypeOK, AttemptKeys
  <2>2. \A a \in attempts' : events'[a.key.event_id].state # "absent"
    BY <1>4, <2>1 DEF SandboxInv, ReferencesHold
  <2>3. \A x \in EventIds : events'[x].state # "absent" /\ sandbox'[x] # NULL =>
          sessions'[sandbox'[x].session].status = "stored"
    BY <1>4, <1>5 DEF SandboxInv, ReferencesHold
  <2>. QED  BY <2>2, <2>3 DEF ReferencesHold
<1>. QED  BY <1>1, <1>2, <1>3, <1>6, <1>7 DEF SandboxInv

\* A submission.
LEMMA SubmitStep ==
  ASSUME SandboxInv, NEW s \in SessionIds, NEW e \in EventIds, NEW scenario \in Scenarios,
         Submit(s, e, scenario)
  PROVE  SandboxInv'
<1>1. budget' \in Budgets /\ granted' \in Grants /\ QuotaOK(budget', granted')
  BY ChargeFacts DEF Submit
<1>2. /\ clock \in Int /\ sessions \in [SessionIds -> Sessions]
      /\ sandbox \in [EventIds -> [session : SessionIds, scenario : Scenarios] \cup {NULL}]
  BY DEF SandboxInv, ClaimInv, TypeOK, SandboxTypeOK
<1>3. PICK row \in Rows : row = NewRow(clock)
  BY <1>2, NewRowFacts
<1>4. row.state = "pending" /\ row.claim_id = NULL /\ row.attempt_count = 0
  BY <1>2, <1>3, NewRowFacts
<1>5. PICK old \in Sessions : old = sessions[s]
  BY <1>2
<1>6. old.event_count < EventsPerSession
      /\ sessions' = [sessions EXCEPT ![s] = [old EXCEPT !.event_count = old.event_count + 1]]
  BY <1>5 DEF Submit
<1>. DEFINE new == [old EXCEPT !.event_count = old.event_count + 1]
<1>7. new \in Sessions /\ new.status = old.status /\ new.expires_at = old.expires_at
  BY <1>6, SandboxNumbers DEF Sessions
<1>8. sessions' = [sessions EXCEPT ![s] = new]
  BY <1>6
<1>. HIDE DEF new
<1>9. /\ sessions' \in [SessionIds -> Sessions]
      /\ \A o \in SessionIds : /\ sessions'[o].status = sessions[o].status
                               /\ sessions'[o].expires_at = sessions[o].expires_at
  BY <1>2, <1>5, <1>7, <1>8
<1>10. PICK visit \in [session : SessionIds, scenario : Scenarios] :
         visit.session = s /\ sandbox' = [sandbox EXCEPT ![e] = visit]
  <2>1. [session |-> s, scenario |-> scenario] \in [session : SessionIds, scenario : Scenarios]
    OBVIOUS
  <2>. QED  BY <2>1 DEF Submit
<1>11. /\ sandbox' \in [EventIds -> [session : SessionIds, scenario : Scenarios] \cup {NULL}]
       /\ sandbox'[e].session = s
       /\ \A x \in EventIds \ {e} : sandbox'[x] = sandbox[x]
  BY <1>2, <1>10
<1>12. /\ Active(s, clock) /\ cleaning = NULL
       /\ UNCHANGED <<clock, attempts, sent, local, cleaning>>
       /\ events[e].state = "absent" /\ sandbox[e] = NULL
       /\ events' = [events EXCEPT ![e] = row]
  BY <1>3 DEF Submit
<1>13. /\ events[e].state # "delivering"
       /\ sandbox'[e] # NULL => sandbox'[e].session = s
       /\ sandbox[e] # NULL => sandbox'[e] = sandbox[e]
       /\ sandbox[e] = NULL => events[e].state = "absent"
  BY <1>11, <1>12
<1>. QED  BY <1>1, <1>4, <1>9, <1>11, <1>12, <1>13, VisitorRow, Zenon

\* A visitor's replay.
LEMMA SandboxReplayStep ==
  ASSUME SandboxInv, NEW s \in SessionIds, NEW e \in EventIds, SandboxReplay(s, e)
  PROVE  SandboxInv'
<1>1. budget' \in Budgets /\ granted' \in Grants /\ QuotaOK(budget', granted')
  BY ChargeFacts DEF SandboxReplay
<1>2. /\ clock \in Int /\ sessions \in [SessionIds -> Sessions] /\ events[e] \in Rows
      /\ sandbox \in [EventIds -> [session : SessionIds, scenario : Scenarios] \cup {NULL}]
  BY DEF SandboxInv, ClaimInv, TypeOK, SandboxTypeOK
<1>3. events[e].state = "dead_lettered" /\ events[e].replay_count < MaxReplays
  <2>1. events[e].state = "dead_lettered" /\ events[e].replay_count < SandboxReplays
    BY DEF SandboxReplay, Replayable
  <2>2. events[e].replay_count \in Nat /\ SandboxReplays \in 0..MaxReplays /\ MaxReplays \in Nat
    BY <1>2, SandboxAssumption, RowAssumption DEF Rows
  <2>. QED  BY <2>1, <2>2
<1>4. PICK row \in Rows : row = Replayed(events[e], clock)
  BY <1>2, <1>3, ReplayedFacts
<1>5. row.state = "pending" /\ row.claim_id = NULL /\ row.attempt_count = 0
  BY <1>2, <1>3, <1>4, ReplayedFacts
<1>6. /\ Active(s, clock) /\ cleaning = NULL
      /\ UNCHANGED <<clock, attempts, sent, local, cleaning, sessions, sandbox>>
      /\ sandbox[e] # NULL /\ sandbox[e].session = s
      /\ events' = [events EXCEPT ![e] = row]
  BY <1>4 DEF SandboxReplay, SandboxEvents
<1>. QED  BY <1>1, <1>2, <1>3, <1>5, <1>6, VisitorRow

-----------------------------------------------------------------------------
(***************************************************************************)
(* Time and Cleanup.                                                       *)
(***************************************************************************)

\* Time passes: what was deletable stays deletable.
LEMMA SandboxTickStep ==
  ASSUME SandboxInv, Tick, UNCHANGED sandboxVars
  PROVE  SandboxInv'
<1>1. ClaimInv' /\ TypeOK'
  BY TickClaimInv DEF SandboxInv, ClaimInv
<1>2. /\ UNCHANGED <<events, attempts, pc, now, claimed>>
      /\ UNCHANGED <<sessions, sandbox, budget, cleaning, granted>>
      /\ clock \in Nat /\ clock' = clock + 1
  BY SandboxNumbers DEF Tick, local, sandboxVars, SandboxInv, ClaimInv, TypeOK
<1>3. SandboxTypeOK'
  BY <1>1, <1>2 DEF SandboxInv, SandboxTypeOK
<1>4. ASSUME NEW e \in EventIds, Deletable(e) PROVE Deletable(e)'
  <2>1. sandbox[e] # NULL /\ sandbox[e].session \in SessionIds
    BY <1>4 DEF Deletable, SandboxInv, SandboxTypeOK
  <2>2. sessions[sandbox[e].session].expires_at \in Nat
    BY <2>1 DEF SandboxInv, SandboxTypeOK, Sessions
  <2>3. events[e].lease_expires_at \in Int \cup {NULL}
    BY DEF SandboxInv, ClaimInv, TypeOK, Rows
  <2>. QED  BY <1>2, <1>4, <2>1, <2>2, <2>3 DEF Deletable
<1>5. CleaningOK'
  <2>1. cleaning # NULL => cleaning.ids \subseteq EventIds
    BY DEF SandboxInv, SandboxTypeOK, Cleanings
  <2>2. Unreferenced => Unreferenced'
    BY <1>2 DEF Unreferenced
  <2>. QED  BY <1>2, <1>4, <2>1, <2>2 DEF SandboxInv, CleaningOK
<1>6. VisitsOK' /\ ReferencesHold' /\ QuotaOK(budget, granted)'
  BY <1>2 DEF SandboxInv, VisitsOK, ReferencesHold, QuotaOK
<1>. QED  BY <1>1, <1>3, <1>5, <1>6 DEF SandboxInv

\* A step of Cleanup, or its end, that changes no table.
LEMMA CleaningStep ==
  ASSUME SandboxInv, UNCHANGED <<vars, sessions, sandbox, budget, granted>>,
         cleaning' = NULL \/ cleaning' \in Cleanings, CleaningOK'
  PROVE  SandboxInv'
<1>1. ClaimInv' /\ TypeOK'
  BY DEF vars, SandboxInv, ClaimInv, TypeOK, RowShape, WorkerShape, ClaimsDistinct,
         HolderAgrees, LockOwnsRow, AttemptOwnsRow, ClaimWithinBudget
<1>2. SandboxTypeOK'
  BY <1>1 DEF SandboxInv, SandboxTypeOK
<1>3. VisitsOK' /\ ReferencesHold' /\ QuotaOK(budget, granted)'
  BY DEF vars, SandboxInv, VisitsOK, ReferencesHold, QuotaOK
<1>. QED  BY <1>1, <1>2, <1>3 DEF SandboxInv

\* Cleanup locks rows that no Record transaction has.
LEMMA SelectStep ==
  ASSUME SandboxInv, NEW skipped, CleanupSelect(skipped)
  PROVE  SandboxInv'
<1>1. PICK ids \in Batches({e \in EventIds \ (LockedRows \cup skipped) : Deletable(e)}) :
        cleaning' = [stage |-> "selected", ids |-> ids, gone |-> {}]
  BY DEF CleanupSelect
<1>2. /\ ids \subseteq EventIds /\ \A e \in ids : e \notin LockedRows /\ Deletable(e)
  BY DEF Batches
<1>3. cleaning' \in Cleanings /\ cleaning'.stage = "selected" /\ cleaning'.ids = ids
  BY <1>1, <1>2 DEF Cleanings
<1>4. UNCHANGED <<vars, sessions, sandbox, budget, granted>>
  BY DEF CleanupSelect
<1>5. \A w \in Workers : pc[w] = "committing" => claimed[w].event_id \in LockedRows
  BY DEF LockedRows
<1>6. \A e \in ids : Deletable(e)'
  BY <1>2, <1>4 DEF vars, Deletable
<1>7. CleaningOK'
  BY <1>2, <1>3, <1>4, <1>5, <1>6 DEF vars, CleaningOK
<1>. QED  BY <1>3, <1>4, <1>7, CleaningStep

\* The attempts of the locked events are deleted: none is left.
LEMMA AttemptsStep ==
  ASSUME SandboxInv, CleanupAttempts
  PROVE  SandboxInv'
<1>1. PICK old \in Cleanings : old = cleaning
  BY DEF CleanupAttempts, SandboxInv, SandboxTypeOK
<1>2. PICK gone \in SUBSET [key : AttemptKeys, outcome : Outcomes] :
        gone = {a \in attempts : a.key.event_id \in old.ids}
  BY DEF SandboxInv, ClaimInv, TypeOK
<1>3. cleaning' = [old EXCEPT !.stage = "attempts_deleted", !.gone = gone]
  BY <1>1, <1>2 DEF CleanupAttempts
<1>4. cleaning' \in Cleanings /\ cleaning'.ids = old.ids /\ cleaning'.gone = gone
  BY <1>1, <1>2, <1>3 DEF Cleanings
<1>5. UNCHANGED <<vars, sessions, sandbox, budget, granted>> /\ cleaning # NULL
  BY DEF CleanupAttempts
<1>6. /\ \A w \in Workers : pc[w] = "committing" => claimed[w].event_id \notin old.ids
      /\ \A e \in old.ids : Deletable(e)
  BY <1>1, <1>5 DEF SandboxInv, CleaningOK
<1>7. \A e \in old.ids : Deletable(e)'
  BY <1>5, <1>6 DEF vars, Deletable
<1>8. Unreferenced'
  BY <1>2, <1>4, <1>5 DEF vars, Unreferenced
<1>9. CleaningOK'
  BY <1>4, <1>5, <1>6, <1>7, <1>8 DEF vars, CleaningOK
<1>. QED  BY <1>4, <1>5, <1>9, CleaningStep

\* A row that Cleanup may delete is not that of a worker inside its attempt: its
\* lease has expired on the database's clock, and the attempt before it.
LEMMA DeletableIsOver ==
  ASSUME SandboxInv, NEW w \in Workers, NEW e \in EventIds, Deletable(e),
         claimed[w] # NULL, events[e].claim_id = claimed[w].claim_id
  PROVE  deadline[w] <= clock
<1>1. /\ events[e].lease_expires_at = now[w] + Lease
      /\ pc[w] # "idle"
  BY DEF SandboxInv, ClaimInv, HolderAgrees, WorkerShape, Busy
<1>2. now[w] = deadline[w] - AttemptTimeout + ClockOffset[w]
  BY <1>1 DEF SandboxInv, ClaimInv, WorkerShape
<1>3. /\ deadline[w] \in Int /\ now[w] \in Int /\ clock \in Int
      /\ AttemptTimeout \in Int /\ Lease \in Int /\ ClockOffset[w] \in Int
  BY QueueAssumption, RowAssumption DEF SandboxInv, ClaimInv, TypeOK
<1>4. events[e].lease_expires_at # NULL
  BY <1>1, <1>3, RowAssumption
<1>5. now[w] + Lease <= clock
  BY <1>1, <1>4 DEF Deletable
<1>6. AttemptTimeout <= Lease + ClockOffset[w]
  BY LeaseCoversCleanup
<1>. QED  BY <1>2, <1>3, <1>5, <1>6

\* The row that Cleanup leaves.
LEMMA NoRowFacts ==
  NoRow \in Rows /\ NoRow.state = "absent" /\ NoRow.claim_id = NULL
BY MaxAttemptsAssumption, RowAssumption DEF NoRow, Rows, States

\* Cleanup deletes rows that no live attempt and no transaction is about.
LEMMA DeleteClaimInv ==
  ASSUME SandboxInv, cleaning # NULL,
         events' = [e \in EventIds |-> IF e \in cleaning.ids THEN NoRow ELSE events[e]],
         attempts' \subseteq attempts, UNCHANGED <<clock, sent, local>>
  PROVE  ClaimInv'
<1>1. /\ \A e \in cleaning.ids : Deletable(e)
      /\ \A w \in Workers : pc[w] = "committing" => claimed[w].event_id \notin cleaning.ids
  BY DEF SandboxInv, CleaningOK
<1>2. \A e \in EventIds :
        \/ e \in cleaning.ids /\ events'[e] = NoRow
        \/ e \notin cleaning.ids /\ events'[e] = events[e]
  OBVIOUS
<1>3. UNCHANGED <<clock, sent, pc, now, deadline, claimed, attempt>>
  BY DEF local
<1>4. TypeOK'
  BY <1>3, NoRowFacts DEF SandboxInv, ClaimInv, TypeOK
<1>5. RowShape'
  BY <1>2, NoRowFacts DEF SandboxInv, ClaimInv, RowShape
<1>6. WorkerShape'
  BY <1>3 DEF SandboxInv, ClaimInv, WorkerShape
<1>7. ClaimsDistinct'
  BY <1>2, <1>3, NoRowFacts DEF SandboxInv, ClaimInv, ClaimsDistinct
<1>8. \A w \in Workers : claimed[w] # NULL =>
        claimed[w].event_id \in EventIds /\ claimed[w].claim_id # NULL
  BY ClaimedType DEF SandboxInv, ClaimInv
<1>9. HolderAgrees'
  BY <1>2, <1>3, <1>8, NoRowFacts DEF SandboxInv, ClaimInv, HolderAgrees
<1>10. LockOwnsRow'
  BY <1>1, <1>2, <1>3, <1>8 DEF SandboxInv, ClaimInv, LockOwnsRow, WorkerShape, Busy
<1>11. AttemptOwnsRow'
  <2>. SUFFICES ASSUME NEW w \in Workers, pc[w] \in Busy, clock < deadline[w]
                PROVE  /\ events'[claimed[w].event_id].state = "delivering"
                       /\ events'[claimed[w].event_id].claim_id = claimed[w].claim_id
    BY <1>3 DEF AttemptOwnsRow
  <2>1. /\ claimed[w] # NULL /\ claimed[w].event_id \in EventIds
        /\ events[claimed[w].event_id].state = "delivering"
        /\ events[claimed[w].event_id].claim_id = claimed[w].claim_id
    BY <1>8 DEF SandboxInv, ClaimInv, AttemptOwnsRow, WorkerShape
  <2>2. ~(deadline[w] <= clock)
    BY DEF SandboxInv, ClaimInv, TypeOK
  <2>3. claimed[w].event_id \notin cleaning.ids
    BY <1>1, <2>1, <2>2, DeletableIsOver
  <2>. QED  BY <1>2, <2>1, <2>3
<1>12. ClaimWithinBudget'
  BY <1>2, NoRowFacts DEF SandboxInv, ClaimInv, ClaimWithinBudget, Waiting
<1>. QED  BY <1>4, <1>5, <1>6, <1>7, <1>9, <1>10, <1>11, <1>12 DEF ClaimInv

\* Cleanup commits: events and attempts go together, and sessions without events.
LEMMA CommitStep ==
  ASSUME SandboxInv, CleanupCommit
  PROVE  SandboxInv'
<1>1. PICK old \in Cleanings : old = cleaning /\ cleaning # NULL
  BY DEF CleanupCommit, SandboxInv, SandboxTypeOK
<1>2. /\ events' = [e \in EventIds |-> IF e \in old.ids THEN NoRow ELSE events[e]]
      /\ attempts' = attempts \ old.gone /\ cleaning' = NULL
      /\ UNCHANGED <<clock, sent, local, sandbox, granted>>
      /\ \A a \in attempts \ old.gone : a.key.event_id \notin old.ids
  BY <1>1 DEF CleanupCommit, Unreferenced
<1>3. ClaimInv'
  BY <1>1, <1>2, DeleteClaimInv
<1>4. PICK t \in WallClock : budget' = admission(budget, t)
  BY DEF CleanupCommit
<1>5. budget' \in Budgets /\ QuotaOK(budget', granted')
  BY <1>2, <1>4, BudgetFacts
<1>6. PICK ended \in Batches(Emptied(old.ids)) :
        sessions' = [s \in SessionIds |->
                       IF s \in ended THEN [sessions[s] EXCEPT !.status = "deleted"]
                       ELSE sessions[s]]
  BY <1>1 DEF CleanupCommit
<1>7. ended \subseteq SessionIds /\ \A s \in ended : SandboxEvents(s) \subseteq old.ids
  BY DEF Batches, Emptied, Stored
<1>8. \A f \in Sessions : LET d == [f EXCEPT !.status = "deleted"]
                          IN  d \in Sessions /\ d.status = "deleted" /\ d.expires_at = f.expires_at
  BY DEF Sessions
<1>9. /\ sessions' \in [SessionIds -> Sessions]
      /\ \A s \in SessionIds : sessions'[s].expires_at = sessions[s].expires_at
      /\ \A s \in SessionIds : sessions[s].status # "unissued" => sessions'[s].status # "unissued"
      /\ \A s \in SessionIds \ ended : sessions'[s] = sessions[s]
  BY <1>6, <1>8 DEF SandboxInv, SandboxTypeOK
<1>10. SandboxTypeOK'
  BY <1>2, <1>3, <1>5, <1>9 DEF ClaimInv, SandboxInv, SandboxTypeOK
<1>11. CleaningOK'
  BY <1>2 DEF CleaningOK
<1>12. \A e \in EventIds : sandbox[e] # NULL => sandbox[e].session \in SessionIds
  BY DEF SandboxInv, SandboxTypeOK
<1>13. \A e \in old.ids : sandbox[e] # NULL
  BY <1>1 DEF SandboxInv, CleaningOK, Deletable
<1>14. VisitsOK'
  <2>1. \A e \in EventIds :
          sandbox[e] # NULL => sessions'[sandbox[e].session].status # "unissued"
    BY <1>9, <1>12 DEF SandboxInv, VisitsOK
  <2>2. ASSUME NEW w \in Workers, claimed[w] # NULL
        PROVE  IF sandbox[claimed[w].event_id] = NULL
               THEN events'[claimed[w].event_id].state # "absent"
               ELSE sessions'[sandbox[claimed[w].event_id].session].expires_at > now[w]
    <3>1. claimed[w].event_id \in EventIds
      BY <2>2 DEF SandboxInv, ClaimInv, TypeOK, ClaimedEvents
    <3>2. IF sandbox[claimed[w].event_id] = NULL
          THEN events[claimed[w].event_id].state # "absent"
          ELSE sessions[sandbox[claimed[w].event_id].session].expires_at > now[w]
      BY <2>2 DEF SandboxInv, VisitsOK
    <3>. QED  BY <1>2, <1>9, <1>12, <1>13, <3>1, <3>2
  <2>. QED  BY <1>2, <2>1, <2>2 DEF VisitsOK, local
<1>15. ReferencesHold'
  <2>1. \A a \in attempts : a.key.event_id \in EventIds
    BY DEF SandboxInv, ClaimInv, TypeOK, AttemptKeys
  <2>2. \A a \in attempts' : events'[a.key.event_id].state # "absent"
    BY <1>2, <2>1 DEF SandboxInv, ReferencesHold
  <2>3. ASSUME NEW e \in EventIds, events'[e].state # "absent", sandbox[e] # NULL
        PROVE  sessions'[sandbox[e].session].status = "stored"
    <3>1. e \notin old.ids /\ events[e].state # "absent"
      BY <1>2, <2>3, NoRowFacts
    <3>2. sandbox[e].session \notin ended
      BY <1>7, <2>3, <3>1 DEF SandboxEvents
    <3>. QED  BY <1>9, <1>12, <2>3, <3>1, <3>2 DEF SandboxInv, ReferencesHold
  <2>. QED  BY <1>2, <2>2, <2>3 DEF ReferencesHold
<1>. QED  BY <1>3, <1>5, <1>10, <1>11, <1>14, <1>15 DEF SandboxInv

-----------------------------------------------------------------------------
(***************************************************************************)
(* The theorems.                                                           *)
(***************************************************************************)

\* No session, no event, nothing granted.
LEMMA SandboxInvInit ==
  ASSUME SandboxInit
  PROVE  SandboxInv
<1>1. ClaimInv /\ TypeOK
  BY ClaimInvInit DEF SandboxInit, ClaimInv
<1>2. /\ sandbox = [e \in EventIds |-> NULL] /\ cleaning = NULL /\ attempts = {}
      /\ claimed = [w \in Workers |-> NULL]
  BY DEF SandboxInit, Init
<1>3. /\ budget \in Budgets /\ budget.window_start = 0
      /\ budget.sessions = 0 /\ budget.admissions = 0
  BY SandboxNumbers DEF SandboxInit, Budgets
<1>4. /\ granted \in Grants
      /\ \A h \in Windows : granted[h].sessions = 0 /\ granted[h].admissions = 0
  BY DEF SandboxInit, Grants
<1>5. sessions \in [SessionIds -> Sessions]
  BY SandboxNumbers DEF SandboxInit, Sessions
<1>6. SandboxTypeOK
  BY <1>1, <1>2, <1>3, <1>4, <1>5 DEF SandboxTypeOK, Grants
<1>7. QuotaOK(budget, granted)
  BY <1>3, <1>4, FirstWindow, SandboxNumbers DEF QuotaOK
<1>8. CleaningOK /\ VisitsOK /\ ReferencesHold
  BY <1>2 DEF CleaningOK, VisitsOK, ReferencesHold
<1>. QED  BY <1>1, <1>6, <1>7, <1>8 DEF SandboxInv

\* Every step of the sandbox preserves the inductive invariant.
LEMMA SandboxInvStep ==
  ASSUME SandboxInv, [SandboxNext]_allVars
  PROVE  SandboxInv'
<1>1. CASE Tick /\ UNCHANGED sandboxVars
  BY <1>1, SandboxTickStep
<1>2. ASSUME NEW e \in EventIds, Operator(e) PROVE SandboxInv'
  <2>1. ClaimInv'
    BY <1>2, AcceptClaimInv, ReplayClaimInv DEF Operator, SandboxInv
  <2>. QED  BY <1>2, <2>1, OperatorEffect, QueueEffectInv
<1>3. ASSUME NEW s \in SessionIds, Visit(s) PROVE SandboxInv'
  BY <1>3, CreateStep, SubmitStep, SandboxReplayStep DEF Visit
<1>4. CASE Cleanup
  BY <1>4, SelectStep, AttemptsStep, CommitStep DEF Cleanup
<1>5. CASE CleanupAbort
  BY <1>5, CleaningStep DEF CleanupAbort, CleaningOK
<1>6. ASSUME NEW w \in Workers, SandboxAttend(w) PROVE SandboxInv'
  BY <1>6, AttendStep
<1>7. CASE UNCHANGED allVars
  <2>1. UNCHANGED <<vars, sessions, sandbox, budget, granted, cleaning>>
    BY <1>7 DEF allVars, sandboxVars
  <2>2. CleaningOK'
    BY <2>1 DEF vars, SandboxInv, CleaningOK, Deletable, Unreferenced
  <2>3. cleaning' = NULL \/ cleaning' \in Cleanings
    BY <2>1 DEF SandboxInv, SandboxTypeOK
  <2>. QED  BY <2>1, <2>2, <2>3, CleaningStep
<1>. QED  BY <1>1, <1>2, <1>3, <1>4, <1>5, <1>6, <1>7 DEF SandboxNext

\* The invariant of the sandbox and of the queue under it: types, the budget row
\* against what was granted, what Cleanup and Claim may rely on.
THEOREM SandboxInvHolds == SandboxSpec => []SandboxInv
<1>1. SandboxInit => SandboxInv
  BY SandboxInvInit
<1>2. SandboxInv /\ [SandboxNext]_allVars => SandboxInv'
  BY SandboxInvStep
<1>. QED  BY <1>1, <1>2, PTL DEF SandboxSpec

\* The hourly quotas of admission and charge are kept in every window, however
\* far clock_timestamp() jumps back and forth.
THEOREM QuotasKept == SandboxSpec => []QuotaPerWindow
<1>1. SandboxInv => QuotaPerWindow
  BY DEF SandboxInv, QuotaOK, QuotaPerWindow
<1>. QED  BY <1>1, SandboxInvHolds, PTL

\* Cleanup leaves no attempt without its event and no event without its session.
THEOREM ForeignKeysHold == SandboxSpec => []ReferencesHold
<1>1. SandboxInv => ReferencesHold
  BY DEF SandboxInv
<1>. QED  BY <1>1, SandboxInvHolds, PTL

\* ON DELETE RESTRICT never stops Cleanup between its two DELETEs.
THEOREM CleanupNeverRestricted == SandboxSpec => []CleanupUnobstructed
<1>1. SandboxInv => CleanupUnobstructed
  BY DEF SandboxInv, CleaningOK, CleanupUnobstructed
<1>. QED  BY <1>1, SandboxInvHolds, PTL

\* Not even Cleanup takes the row from a worker inside its attempt context.
THEOREM VisitorLeaseSafe == SandboxSpec => []AttemptOwnsRow
<1>1. SandboxInv => AttemptOwnsRow
  BY DEF SandboxInv, ClaimInv
<1>. QED  BY <1>1, SandboxInvHolds, PTL

\* A visitor's event is attempted at most one attempt context after the expiry
\* of its session, which Claim compared with its earlier `now`.
THEOREM VisitsEnd == SandboxSpec => VisitBounded
<1>1. ASSUME SandboxInv, NEW w \in Workers, pc[w] = "claimed", clock < deadline[w],
             sandbox[claimed[w].event_id] # NULL
      PROVE  clock + ClockOffset[w] <
               sessions[sandbox[claimed[w].event_id].session].expires_at + AttemptTimeout
  <2>1. claimed[w] # NULL /\ claimed[w].event_id \in EventIds
    BY <1>1, ClaimedType DEF SandboxInv, ClaimInv, WorkerShape, Busy
  <2>2. PICK x : x = sessions[sandbox[claimed[w].event_id].session].expires_at
    OBVIOUS
  <2>3. x \in Nat
    <3>1. sandbox[claimed[w].event_id].session \in SessionIds
      BY <1>1, <2>1 DEF SandboxInv, SandboxTypeOK
    <3>. QED  BY <1>1, <2>2, <3>1 DEF SandboxInv, SandboxTypeOK, Sessions
  <2>4. x > now[w]
    BY <1>1, <2>1, <2>2 DEF SandboxInv, VisitsOK
  <2>5. now[w] = deadline[w] - AttemptTimeout + ClockOffset[w]
    BY <1>1 DEF SandboxInv, ClaimInv, WorkerShape
  <2>6. /\ deadline[w] \in Int /\ now[w] \in Int /\ clock \in Int
        /\ AttemptTimeout \in Int /\ ClockOffset[w] \in Int
    BY <1>1, QueueAssumption DEF SandboxInv, ClaimInv, TypeOK
  <2>7. clock + ClockOffset[w] < x + AttemptTimeout
    BY <1>1, <2>3, <2>4, <2>5, <2>6
  <2>. QED  BY <2>2, <2>7
<1>2. SandboxInv =>
        [\A w \in Workers :
           /\ pc[w] = "claimed" /\ pc'[w] = "recording"
           /\ clock < deadline[w]
           /\ sandbox[claimed[w].event_id] # NULL
           => clock + ClockOffset[w] <
                sessions[sandbox[claimed[w].event_id].session].expires_at
                  + AttemptTimeout]_allVars
  BY <1>1
<1>. QED  BY <1>2, SandboxInvHolds, PTL DEF VisitBounded
=============================================================================
