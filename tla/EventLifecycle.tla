--------------------------- MODULE EventLifecycle ---------------------------
(***************************************************************************)
(* What the delivery contract promises of an event, without clocks,        *)
(* workers, leases or claims: the transitions its state may take, the      *)
(* attempt budget of a generation and the bound on replays.  Several       *)
(* events may move in one step, because one Claim statement retires up to  *)
(* ten rows and claims another.                                            *)
(***************************************************************************)
EXTENDS Naturals

CONSTANTS EventIds, MaxAttempts, MaxReplays

\* life[e] is the public life of event e: its state, the number of replays
\* and the number of attempts started in the current generation.
VARIABLE life

Lives ==
  [state      : {"absent", "pending", "delivering", "delivered",
                 "retry_scheduled", "dead_lettered"},
   generation : 0..MaxReplays,
   tries      : 0..MaxAttempts]

Init == life = [e \in EventIds |->
                  [state |-> "absent", generation |-> 0, tries |-> 0]]

-----------------------------------------------------------------------------
(***************************************************************************)
(* The transitions of the contract's "State contract", from life a to b.   *)
(***************************************************************************)
Receive(a, b) ==
  /\ a.state = "absent"
  /\ b = [state |-> "pending", generation |-> 0, tries |-> 0]

StartAttempt(a, b) ==
  /\ a.state \in {"pending", "retry_scheduled"}
  /\ a.tries < MaxAttempts
  /\ b = [a EXCEPT !.state = "delivering", !.tries = @ + 1]

Deliver(a, b) ==
  /\ a.state = "delivering"
  /\ b = [a EXCEPT !.state = "delivered"]

ScheduleRetry(a, b) ==
  /\ a.state = "delivering"
  /\ a.tries < MaxAttempts
  /\ b = [a EXCEPT !.state = "retry_scheduled"]

DeadLetter(a, b) ==
  /\ a.state \in {"pending", "retry_scheduled", "delivering"}
  /\ b = [a EXCEPT !.state = "dead_lettered"]

Replay(a, b) ==
  /\ a.state = "dead_lettered"
  /\ a.generation < MaxReplays
  /\ b = [state |-> "pending", generation |-> a.generation + 1, tries |-> 0]

Move(a, b) ==
  \/ Receive(a, b) \/ StartAttempt(a, b) \/ Deliver(a, b)
  \/ ScheduleRetry(a, b) \/ DeadLetter(a, b) \/ Replay(a, b)

Next ==
  /\ life' \in [EventIds -> Lives]
  /\ \A e \in EventIds : life'[e] = life[e] \/ Move(life[e], life'[e])

Spec == Init /\ [][Next]_life
=============================================================================
