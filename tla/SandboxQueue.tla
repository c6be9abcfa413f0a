---------------------------- MODULE SandboxQueue ----------------------------
(***************************************************************************)
(* The visitor sandbox on top of the delivery queue: sessions, the global  *)
(* admission budget, submission and replay by a visitor, and the cleanup   *)
(* of expired sessions, which deletes rows that workers may be about to    *)
(* record.  Sandbox events share the tables, the Claim statement and the   *)
(* Record transaction with the operator's events.                          *)
(*                                                                         *)
(* Every transaction of this store first locks the single budget row, so   *)
(* they run one at a time.  Create, Submit and Replay touch nothing that a *)
(* worker could change meanwhile and are single steps; Cleanup holds row   *)
(* locks across statements and is three.                                   *)
(***************************************************************************)
EXTENDS DeliveryQueue

CONSTANTS
  SessionIds,            \* the random session identifiers
  SessionLifetime,       \* 30 minutes
  WindowLength,          \* one hour
  SessionsPerWindow,     \* 100
  AdmissionsPerWindow,   \* 1000
  EventsPerSession,      \* 20
  RetainedSessions,      \* 1000
  SandboxReplays,        \* 2
  CleanupLimit,          \* 100
  ClockSteps             \* how far back a reading of clock_timestamp() may be

ASSUME SandboxAssumption ==
  /\ {SessionLifetime, WindowLength, CleanupLimit} \subseteq Nat \ {0}
  /\ {SessionsPerWindow, AdmissionsPerWindow, EventsPerSession,
      RetainedSessions} \subseteq Nat
  /\ SandboxReplays \in 0..MaxReplays
  /\ ClockSteps \subseteq Nat /\ 0 \in ClockSteps
  /\ NULL \notin SessionIds

\* Cleanup compares leases with the database's clock.
ASSUME LeaseCoversCleanup ==
  \A w \in Workers : AttemptTimeout <= Lease + ClockOffset[w]

VARIABLES
  sessions,   \* the rows of p3_relay.sandbox_sessions
  sandbox,    \* the sandbox_id of an event, with the scenario of its URL
  budget,     \* the row of p3_relay.sandbox_budget
  cleaning,   \* the running Cleanup transaction
  granted     \* history: what was granted in each window

sandboxVars == <<sessions, sandbox, budget, cleaning, granted>>
allVars == <<vars, sandboxVars>>

-----------------------------------------------------------------------------
(***************************************************************************)
(* Types and the initial state.                                            *)
(***************************************************************************)
\* Session identifiers are never issued twice.
Sessions ==
  [status : {"unissued", "stored", "deleted"}, expires_at : Nat,
   event_count : 0..EventsPerSession]

Budgets ==
  [window_start : Nat, sessions : 0..SessionsPerWindow,
   admissions : 0..AdmissionsPerWindow]

\* The transaction's place, the events it has locked, and the attempts it
\* has deleted without having committed yet.
Cleanings ==
  [stage : {"selected", "attempts_deleted"}, ids : SUBSET EventIds,
   gone : SUBSET [key : AttemptKeys, outcome : Outcomes]]

Hour(t) == (t \div WindowLength) * WindowLength

Windows == {Hour(t) : t \in 0..Horizon}

SandboxTypeOK ==
  /\ TypeOK
  /\ sessions \in [SessionIds -> Sessions]
  /\ sandbox \in [EventIds -> [session : SessionIds, scenario : Scenarios] \cup {NULL}]
  /\ budget \in Budgets
  /\ cleaning = NULL \/ cleaning \in Cleanings
  /\ granted \in [Windows -> [sessions : Nat, admissions : Nat]]

SandboxInit ==
  /\ Init
  /\ sessions = [s \in SessionIds |->
                   [status |-> "unissued", expires_at |-> 0, event_count |-> 0]]
  /\ sandbox = [e \in EventIds |-> NULL]
  /\ budget = [window_start |-> 0, sessions |-> 0, admissions |-> 0]
  /\ cleaning = NULL
  /\ granted = [h \in Windows |-> [sessions |-> 0, admissions |-> 0]]

Stored == {s \in SessionIds : sessions[s].status = "stored"}

\* The session exists and has not expired at time t.
Active(s, t) == sessions[s].status = "stored" /\ sessions[s].expires_at > t

SandboxEvents(s) ==
  {e \in EventIds : sandbox[e] # NULL /\ sandbox[e].session = s
                    /\ events[e].state # "absent"}

-----------------------------------------------------------------------------
(***************************************************************************)
(* Admission.                                                              *)
(***************************************************************************)
\* What clock_timestamp() may read; the wall clock can be set back.
WallClock == {IF d > clock THEN 0 ELSE clock - d : d \in ClockSteps}

\* Mutant: the window follows the clock backwards.
admission_FollowsClock(b, t) ==
  [window_start |-> Hour(t),
   sessions     |-> IF b.window_start < Hour(t) THEN 0 ELSE b.sessions,
   admissions   |-> IF b.window_start < Hour(t) THEN 0 ELSE b.admissions]

\* The locked budget row, moved to the window of time t.
admission(b, t) ==
  [window_start |-> IF b.window_start < Hour(t) THEN Hour(t) ELSE b.window_start,
   sessions     |-> IF b.window_start < Hour(t) THEN 0 ELSE b.sessions,
   admissions   |-> IF b.window_start < Hour(t) THEN 0 ELSE b.admissions]

\* One more admission in the window of budget b.
charge(b) ==
  /\ b.admissions < AdmissionsPerWindow
  /\ budget' = [b EXCEPT !.admissions = @ + 1]

\* Create: a new session, within the hourly quota and the retained capacity.
Create(s) ==
  /\ cleaning = NULL
  /\ sessions[s].status = "unissued"
  /\ \E t \in WallClock :
       LET b == admission(budget, t)
       IN  /\ b.sessions < SessionsPerWindow
           /\ Cardinality(Stored) < RetainedSessions
           /\ budget' = [b EXCEPT !.sessions = @ + 1]
           /\ granted' = [granted EXCEPT ![b.window_start].sessions = @ + 1]
  /\ sessions' = [sessions EXCEPT ![s] =
                    [status |-> "stored", expires_at |-> clock + SessionLifetime,
                     event_count |-> 0]]
  /\ UNCHANGED <<vars, sandbox, cleaning>>

\* Submit: an event for a live session that has not used up its events.
Submit(s, e, scenario) ==
  /\ cleaning = NULL
  /\ clock <= AcceptUntil
  /\ ValidScenario(scenario)
  /\ Active(s, clock)
  /\ sessions[s].event_count < EventsPerSession
  /\ events[e].state = "absent" /\ sandbox[e] = NULL
  /\ sessions' = [sessions EXCEPT ![s].event_count = @ + 1]
  /\ \E t \in WallClock :
       /\ charge(admission(budget, t))
       /\ granted' = [granted EXCEPT ![budget'.window_start].admissions = @ + 1]
  /\ events' = [events EXCEPT ![e] = NewRow(clock)]
  /\ sandbox' = [sandbox EXCEPT ![e] = [session |-> s, scenario |-> scenario]]
  /\ UNCHANGED <<clock, attempts, sent, local, cleaning>>

\* Replay by the visitor that owns the event.
SandboxReplay(s, e) ==
  /\ cleaning = NULL
  /\ e \in SandboxEvents(s)
  /\ Active(s, clock)
  /\ Replayable(events[e], SandboxReplays)
  /\ \E t \in WallClock :
       /\ charge(admission(budget, t))
       /\ granted' = [granted EXCEPT ![budget'.window_start].admissions = @ + 1]
  /\ events' = [events EXCEPT ![e] = Replayed(events[e], clock)]
  /\ UNCHANGED <<clock, attempts, sent, local, sessions, sandbox, cleaning>>

-----------------------------------------------------------------------------
(***************************************************************************)
(* Cleanup.                                                                *)
(***************************************************************************)

\* Mutant: leases are not looked at.
Deletable_Leased(e) ==
  /\ sandbox[e] # NULL
  /\ events[e].state # "absent"
  /\ sessions[sandbox[e].session].expires_at <= clock

\* Mutant: rows with an expired lease are left to a worker.
Deletable_Unclaimed(e) ==
  /\ sandbox[e] # NULL
  /\ events[e].state # "absent"
  /\ sessions[sandbox[e].session].expires_at <= clock
  /\ events[e].lease_expires_at = NULL

\* An event of an expired session that no lease protects.
Deletable(e) ==
  /\ sandbox[e] # NULL
  /\ events[e].state # "absent"
  /\ sessions[sandbox[e].session].expires_at <= clock
  /\ events[e].lease_expires_at = NULL \/ events[e].lease_expires_at <= clock

\* Mutant: the rows are selected without FOR UPDATE.
CleaningLocks_None == {}

\* The events that the running Cleanup has locked.
CleaningLocks == IF cleaning = NULL THEN {} ELSE cleaning.ids

\* At most CleanupLimit members of a set, and all if they are no more.
Batches(set) ==
  {b \in SUBSET set : /\ Cardinality(b) <= CleanupLimit
                      /\ b = set \/ Cardinality(b) = CleanupLimit}

\* SELECT ... FOR UPDATE OF e SKIP LOCKED LIMIT 100.  Rows locked by a Record
\* transaction are passed over, and so are those of a running Claim (skipped).
CleanupSelect(skipped) ==
  /\ cleaning = NULL
  /\ \E ids \in Batches({e \in EventIds \ (LockedRows \cup skipped) : Deletable(e)}) :
       cleaning' = [stage |-> "selected", ids |-> ids, gone |-> {}]
  /\ UNCHANGED <<vars, sessions, sandbox, budget, granted>>

\* DELETE FROM delivery_attempts: the attempts committed by now.
CleanupAttempts ==
  /\ cleaning # NULL
  /\ cleaning.stage = "selected"
  /\ cleaning' = [cleaning EXCEPT !.stage = "attempts_deleted",
                    !.gone = {a \in attempts : a.key.event_id \in cleaning.ids}]
  /\ UNCHANGED <<vars, sessions, sandbox, budget, granted>>

\* Mutant: expired sessions go even if events of theirs remain.
Emptied_Expired(ids) == {s \in Stored : sessions[s].expires_at <= clock}

\* The expired sessions without events once ids are deleted.
Emptied(ids) ==
  {s \in Stored : sessions[s].expires_at <= clock /\ SandboxEvents(s) \subseteq ids}

\* ON DELETE RESTRICT lets the events go.
Unreferenced ==
  \A a \in attempts \ cleaning.gone : a.key.event_id \notin cleaning.ids

\* DELETE FROM events, DELETE FROM sandbox_sessions LIMIT 100, commit.
CleanupCommit ==
  /\ cleaning # NULL
  /\ cleaning.stage = "attempts_deleted"
  /\ Unreferenced
  /\ \E ended \in Batches(Emptied(cleaning.ids)) :
       sessions' = [s \in SessionIds |->
                      IF s \in ended THEN [sessions[s] EXCEPT !.status = "deleted"]
                      ELSE sessions[s]]
  /\ events' = [e \in EventIds |-> IF e \in cleaning.ids THEN NoRow ELSE events[e]]
  /\ attempts' = attempts \ cleaning.gone
  /\ \E t \in WallClock : budget' = admission(budget, t)
  /\ cleaning' = NULL
  /\ UNCHANGED <<clock, sent, local, sandbox, granted>>

\* The transaction fails or times out and is rolled back.
CleanupAbort ==
  /\ Faults
  /\ cleaning # NULL
  /\ cleaning' = NULL
  /\ UNCHANGED <<vars, sessions, sandbox, budget, granted>>

-----------------------------------------------------------------------------
(***************************************************************************)
(* The workers, beside the sandbox.                                        *)
(***************************************************************************)

\* Mutant: expired sessions are served until they are deleted.
LiveEvents_Stored(t) ==
  {e \in EventIds : sandbox[e] # NULL =>
                      sessions[sandbox[e].session].status = "stored"}

\* The events that Claim accepts as candidates at time t.
LiveEvents(t) ==
  {e \in EventIds : sandbox[e] # NULL => Active(sandbox[e].session, t)}

SandboxClaim(w) ==
  /\ \E skipped \in Skippable(w) :
       ClaimStatement(w, EventIds \ (skipped \cup LockedRows \cup CleaningLocks),
                      LiveEvents(now[w]))
  /\ UNCHANGED sandboxVars

\* A sandbox event is answered in process, by its scenario.
SandboxSend(w) ==
  /\ pc[w] = "claimed"
  /\ sandbox[claimed[w].event_id] # NULL
  /\ LET status == sandbox_attempt(sandbox[claimed[w].event_id].scenario,
                                   claimed[w].attempt_number)
     IN  Finish(w, status, HTTPOutcome(status))
  /\ UNCHANGED <<sent, sandboxVars>>

\* Any other event goes over the network.
NetworkSend(w) ==
  /\ claimed[w] # NULL
  /\ sandbox[claimed[w].event_id] = NULL
  /\ SendRefused(w) \/ StartSend(w) \/ \E r \in Responses : Respond(w, r)
  /\ UNCHANGED sandboxVars

\* Record's UPDATE waits for a Cleanup that has the row locked.
SandboxRecord(w) ==
  /\ claimed[w] # NULL
  /\ \/ claimed[w].event_id \notin CleaningLocks /\ (BeginRecord(w) \/ RecordStale(w))
     \/ CommitRecord(w) \/ RecordRejected(w)
  /\ UNCHANGED sandboxVars

SandboxAttend(w) ==
  \/ (BeginRunOnce(w) \/ Abandon(w)) /\ UNCHANGED sandboxVars
  \/ SandboxClaim(w) \/ SandboxSend(w) \/ NetworkSend(w) \/ SandboxRecord(w)

\* The operator's receipt and replay do not touch the sandbox's events.
Operator(e) ==
  /\ sandbox[e] = NULL
  /\ Accept(e) \/ Replay(e)
  /\ UNCHANGED sandboxVars

Visit(s) ==
  \/ Create(s)
  \/ \E e \in EventIds :
       SandboxReplay(s, e) \/ \E scenario \in Scenarios : Submit(s, e, scenario)

\* Rows that a Claim statement may have locked when Cleanup selects.
ClaimLocks ==
  IF \E w \in Workers : pc[w] = "claiming" THEN SUBSET EventIds ELSE {{}}

Cleanup ==
  \/ \E skipped \in ClaimLocks : CleanupSelect(skipped)
  \/ CleanupAttempts \/ CleanupCommit

SandboxNext ==
  \/ Tick /\ UNCHANGED sandboxVars
  \/ \E e \in EventIds : Operator(e)
  \/ \E s \in SessionIds : Visit(s)
  \/ Cleanup \/ CleanupAbort
  \/ \E w \in Workers : SandboxAttend(w)

SandboxSpec == SandboxInit /\ [][SandboxNext]_allVars

\* The worker runs Cleanup every minute: not each time during a Claim
\* statement that holds the same rows, and it does not fail each time that it
\* has, or has no, events to delete.
SandboxFairness ==
  /\ WF_allVars(Tick /\ UNCHANGED sandboxVars)
  /\ SF_allVars(CleanupSelect({}))
  /\ \A empty \in BOOLEAN :
       /\ SF_allVars(CleanupAttempts /\ empty = (cleaning.ids = {}))
       /\ SF_allVars(CleanupCommit /\ empty = (cleaning.ids = {}))
  /\ \A w \in Workers : WF_allVars(pc[w] # "idle" /\ SandboxAttend(w))

SandboxFairSpec == SandboxSpec /\ SandboxFairness

-----------------------------------------------------------------------------
(***************************************************************************)
(* Properties.                                                             *)
(***************************************************************************)

\* The hourly quotas hold in every window, however often the database's
\* clock crosses the boundary: a window once left is never counted afresh.
QuotaPerWindow ==
  \A h \in Windows :
    /\ granted[h].sessions <= SessionsPerWindow
    /\ granted[h].admissions <= AdmissionsPerWindow

\* The foreign keys: every attempt has its event and every sandbox event its
\* session, across all interleavings of Cleanup with the workers.
ReferencesHold ==
  /\ \A a \in attempts : events[a.key.event_id].state # "absent"
  /\ \A e \in EventIds :
       events[e].state # "absent" /\ sandbox[e] # NULL =>
         sessions[sandbox[e].session].status = "stored"

\* ON DELETE RESTRICT never aborts Cleanup: no worker records an attempt
\* between the deletion of the attempts and that of their events.
CleanupUnobstructed ==
  cleaning # NULL /\ cleaning.stage = "attempts_deleted" => Unreferenced

\* An attempt for a visitor's event is made at most AttemptTimeout after its
\* session expired: Claim compared the expiry with a `now` read earlier.
VisitBounded ==
  [][\A w \in Workers :
       /\ pc[w] = "claimed" /\ pc'[w] = "recording"
       /\ clock < deadline[w]
       /\ sandbox[claimed[w].event_id] # NULL
       => clock + ClockOffset[w] <
            sessions[sandbox[claimed[w].event_id].session].expires_at
              + AttemptTimeout]_allVars

\* Every session that has expired is deleted in the end, with its events.
ExpiredSessionsVanish ==
  \A s \in SessionIds :
    s \in Stored /\ sessions[s].expires_at <= clock ~> sessions[s].status = "deleted"
=============================================================================
