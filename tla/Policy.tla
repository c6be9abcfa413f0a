------------------------------- MODULE Policy -------------------------------
(***************************************************************************)
(* The pure decisions of the delivery worker: how an HTTP status is        *)
(* classified, whether an attempt may be followed by another, how long to  *)
(* wait before it, and the three receivers that simulate a destination.    *)
(* These operators keep the numbers of the source: status codes, seconds   *)
(* and per mille.                                                          *)
(***************************************************************************)
EXTENDS Integers, Sequences

CONSTANT MaxAttempts    \* maximum_attempts, 8 in the code

ASSUME MaxAttemptsAssumption == MaxAttempts \in Nat \ {0}

\* The status of an attempt that produced no HTTP response: StatusCode is nil
\* and ErrorCode is set.
NoResponse == -1

Outcomes == {"delivered", "retryable_http", "terminal_http", "network_error"}

-----------------------------------------------------------------------------
(***************************************************************************)
(* Classification and attempt budget.                                      *)
(***************************************************************************)

HTTPOutcome(status_code) ==
  CASE status_code \in 200..299 -> "delivered"
    [] status_code \in {408, 429} \cup 500..599 -> "retryable_http"
    [] OTHER -> "terminal_http"

\* Mutant: the last attempt of the budget is retried once more.
CanRetry_OneMore(attempt_count) == attempt_count <= MaxAttempts

CanRetry(attempt_count) == attempt_count < MaxAttempts

\* The delivery_attempts row a response leads to satisfies the CHECK on
\* status_code: either no response, or a status between 100 and 599.
StatusCheck(status) == status = NoResponse \/ status \in 100..599

-----------------------------------------------------------------------------
(***************************************************************************)
(* The retry schedule.  delays[n] seconds pass after attempt n, shifted by *)
(* per_mille thousandths of themselves; the shift is a hash of the event   *)
(* and the attempt, here any value it can take.  Durations are in          *)
(* milliseconds, in which the code's nanosecond arithmetic is exact.       *)
(***************************************************************************)
delays == <<5, 30, 120, 600, 1800, 7200, 21600>>

PerMille == -200..200

\* Mutant: the comparison that clamps the index is inverted.
DelayIndex_Longest(attempt) ==
  IF attempt < Len(delays) THEN Len(delays) ELSE attempt - 1

\* The index the code clamps to the length of its table.
DelayIndex(attempt) ==
  IF attempt > Len(delays) THEN Len(delays) ELSE attempt

RetryDelay(attempt, per_mille) ==
  delays[DelayIndex(attempt)] * (1000 + per_mille)

-----------------------------------------------------------------------------
(***************************************************************************)
(* The three simulated destinations: the worker's in-process sandbox, the  *)
(* deployed demonstration receiver and the local fixture.  Each was        *)
(* written separately; the attempt number is all they know of history.     *)
(***************************************************************************)
Scenarios == {"success", "temporary_failure", "permanent_failure"}

ValidScenario(value) == value \in Scenarios

\* Mutant: the sandbox fails once too often.
sandbox_attempt_OneMore(scenario, attempt) ==
  CASE scenario = "success" -> 204
    [] scenario = "temporary_failure" -> IF attempt <= 3 THEN 503 ELSE 204
    [] OTHER -> 422

\* internal/delivery/sandbox.go
sandbox_attempt(scenario, attempt) ==
  CASE scenario = "success" -> 204
    [] scenario = "temporary_failure" -> IF attempt < 3 THEN 503 ELSE 204
    [] OTHER -> 422

\* internal/demoreceiver, after the request was authenticated
scenarioStatus(scenario, attempt) ==
  CASE scenario = "success" -> 204
    [] scenario = "temporary_failure" -> IF attempt \in {1, 2} THEN 503 ELSE 204
    [] scenario = "permanent_failure" -> 422
    [] OTHER -> 400

\* cmd/receiver, for a well-formed request
events_post(scenario, attempt) ==
  CASE scenario = "temporary_failure" /\ attempt < 3 -> 503
    [] scenario = "permanent_failure" -> 422
    [] OTHER -> 204
=============================================================================
