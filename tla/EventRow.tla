------------------------------ MODULE EventRow ------------------------------
(***************************************************************************)
(* One row of p3_relay.events and the compare-and-set transitions that the *)
(* SQL statements of the stores apply to it.  Every operator takes a row   *)
(* and returns a row (or tests one): which row, in which transaction and   *)
(* when, is the business of the modules that extend this one.              *)
(*                                                                         *)
(* A row that does not exist is in state "absent".  The columns that no    *)
(* transition reads back (body, digest, destination, delivered_at) are     *)
(* left out.  Times are numbers of the database's clock.                   *)
(***************************************************************************)
EXTENDS Policy

CONSTANTS
  NULL,         \* SQL's NULL
  ClaimIds,     \* the random UUIDs a worker can draw for its claims
  MaxReplays,   \* 16 in the operator's store
  MaxAge,       \* 24 hours, the automatic-delivery window
  Lease         \* lease_length, 30 seconds

ASSUME RowAssumption ==
  /\ MaxReplays \in Nat
  /\ MaxAge \in Nat \ {0}
  /\ Lease \in Nat \ {0}
  /\ NULL \notin ClaimIds
  /\ NULL \notin Int

States == {"absent", "pending", "delivering", "delivered",
           "retry_scheduled", "dead_lettered"}

\* The columns' types, with the CHECKs on the two counters.
Rows ==
  [state            : States,
   attempt_count    : 0..MaxAttempts,
   replay_count     : 0..MaxReplays,
   next_attempt_at  : Int,
   lease_expires_at : Int \cup {NULL},
   claim_id         : ClaimIds \cup {NULL},
   created_at       : Int]

NoRow ==
  [state |-> "absent", attempt_count |-> 0, replay_count |-> 0,
   next_attempt_at |-> 0, lease_expires_at |-> NULL, claim_id |-> NULL,
   created_at |-> 0]

\* The INSERTs of Accept and Submit; both timestamps default to
\* clock_timestamp().
NewRow(t) ==
  [state |-> "pending", attempt_count |-> 0, replay_count |-> 0,
   next_attempt_at |-> t, lease_expires_at |-> NULL, claim_id |-> NULL,
   created_at |-> t]

-----------------------------------------------------------------------------
(***************************************************************************)
(* Claim: which rows its two sub-selects see, and what it writes.  t is    *)
(* the caller's $1.                                                        *)
(***************************************************************************)
Waiting(row) == row.state \in {"pending", "retry_scheduled"}

\* Mutant: recovery takes a row that is being delivered without looking at
\* its lease.
LeaseExpired_Ignored(row, t) == row.state = "delivering"

LeaseExpired(row, t) == row.state = "delivering" /\ row.lease_expires_at <= t

\* Mutant: the age is counted from the row's last change.
TooOld_SinceDue(row, t) == row.next_attempt_at <= t - MaxAge

TooOld(row, t) == row.created_at <= t - MaxAge

\* Mutant: rows abandoned by a worker are left out of the expired ones.
Retirable_WaitingOnly(row, t) == TooOld(row, t) /\ Waiting(row)

Retirable(row, t) == TooOld(row, t) /\ (Waiting(row) \/ LeaseExpired(row, t))

Due(row, t) ==
  /\ \/ Waiting(row) /\ row.next_attempt_at <= t
     \/ LeaseExpired(row, t)
  /\ ~TooOld(row, t)

\* ORDER BY next_attempt_at, created_at: row a comes strictly before row b.
Before(a, b) ==
  \/ a.next_attempt_at < b.next_attempt_at
  \/ a.next_attempt_at = b.next_attempt_at /\ a.created_at < b.created_at

Retired(row) ==
  [row EXCEPT !.state = "dead_lettered", !.lease_expires_at = NULL,
              !.claim_id = NULL]

\* Mutant: recovering an expired lease counts as a new attempt.
Claimed_CountsRecovery(row, t, c) ==
  [row EXCEPT !.state = "delivering", !.attempt_count = @ + 1,
              !.lease_expires_at = t + Lease, !.claim_id = c]

\* Mutant: recovering an expired lease keeps the claim of the lost worker.
Claimed_KeepsClaim(row, t, c) ==
  [row EXCEPT !.state = "delivering",
              !.attempt_count = IF row.state = "delivering" THEN @ ELSE @ + 1,
              !.lease_expires_at = t + Lease,
              !.claim_id = IF row.state = "delivering" THEN @ ELSE c]

Claimed(row, t, c) ==
  [row EXCEPT !.state = "delivering",
              !.attempt_count = IF row.state = "delivering" THEN @ ELSE @ + 1,
              !.lease_expires_at = t + Lease, !.claim_id = c]

-----------------------------------------------------------------------------
(***************************************************************************)
(* Record and the two replays.                                             *)
(***************************************************************************)
CanRetryAt(attempt, created_at, t) ==
  CanRetry(attempt) /\ t - created_at < MaxAge

record_state(attempt_number, created_at, outcome, finished_at) ==
  CASE outcome = "delivered" -> "delivered"
    [] outcome = "terminal_http" -> "dead_lettered"
    [] OTHER -> IF CanRetryAt(attempt_number, created_at, finished_at)
                THEN "retry_scheduled" ELSE "dead_lettered"

\* Mutant: a stale worker overwrites whatever the row has become.
OwnedBy_StateOnly(row, c) == row.state = "delivering"

\* The WHERE of Record's UPDATE, its compare-and-set.
OwnedBy(row, c) == row.state = "delivering" /\ row.claim_id = c

Recorded(row, state, next) ==
  [row EXCEPT !.state = state, !.next_attempt_at = next,
              !.lease_expires_at = NULL, !.claim_id = NULL]

\* Mutant: a delivered event may be replayed too.
Replayable_Delivered(row, limit) ==
  row.state \in {"delivered", "dead_lettered"} /\ row.replay_count < limit

\* Mutant: the replays of an event are not limited.
Replayable_Unlimited(row, limit) == row.state = "dead_lettered"

Replayable(row, limit) == row.state = "dead_lettered" /\ row.replay_count < limit

\* Mutant: a replay forgets to open a new generation.
Replayed_SameGeneration(row, t) ==
  [row EXCEPT !.state = "pending", !.attempt_count = 0,
              !.next_attempt_at = t, !.lease_expires_at = NULL,
              !.claim_id = NULL]

\* Mutant: a replay forgets to reset the attempt budget.
Replayed_SameBudget(row, t) ==
  [row EXCEPT !.state = "pending", !.replay_count = @ + 1,
              !.next_attempt_at = t, !.lease_expires_at = NULL,
              !.claim_id = NULL]

Replayed(row, t) ==
  [row EXCEPT !.state = "pending", !.attempt_count = 0,
              !.replay_count = @ + 1, !.next_attempt_at = t,
              !.lease_expires_at = NULL, !.claim_id = NULL]
=============================================================================
