-------------------------- MODULE MCRetrySchedule ---------------------------
(***************************************************************************)
(* RetrySchedule with the extremes of the jitter.                          *)
(***************************************************************************)
EXTENDS RetrySchedule

CONSTANTS n1, n2

ExtremeJitters ==
  [r \in Receivers |-> IF r = "demo" THEN {200} ELSE {-200, 0, 200}]
=============================================================================
