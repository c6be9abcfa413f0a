----------------------------- MODULE WorkerLoop -----------------------------
(***************************************************************************)
(* The worker's main loop and the notification queue: main_cycles runs     *)
(* Cleanup once a minute and one Cycle after another; a Cycle receives a   *)
(* batch of hints, calls RunOnce up to BatchSize times whatever the hints  *)
(* say, and acknowledges the batch if nothing failed.  SQS is modelled by  *)
(* what the code relies on: visibility timeouts, receive counts, redrive   *)
(* and loss.  RunOnce is the claim and the end of an attempt; DeliveryQueue*)
(* has the rest.                                                           *)
(*                                                                         *)
(* Time is kept as the time left until each deadline, and Tick lets one    *)
(* unit pass for all of them.  A call returns by the time its context      *)
(* expires: no time passes while a worker is in a call with none left.     *)
(***************************************************************************)
EXTENDS Integers, Sequences, FiniteSets, SequencesExt

CONSTANTS
  NULL,
  Workers,          \* worker processes, old and new during a deployment
  Events,           \* events that fall due
  Hints,            \* messages that may reach the queue
  EventOf,          \* the event each hint names
  Poison,           \* the hints that validMessage rejects
  BatchSize,        \* 10
  ReceiveTimeout,   \* 12 seconds
  AttemptTimeout,   \* 20 seconds
  AckTimeout,       \* 3 seconds
  CycleTimeout,     \* 220 seconds
  Visibility,       \* 300 seconds
  MaxReceives,      \* 5
  PollInterval,     \* 1 second
  CleanupTimeout,   \* 5 seconds
  CleanupPeriod,    \* one minute
  Faults,           \* whether calls fail and processes stop
  MaxClaims         \* bound: how often one event falls due

ASSUME LoopAssumption ==
  /\ {BatchSize, ReceiveTimeout, AttemptTimeout, AckTimeout, CycleTimeout, Visibility,
      MaxReceives, PollInterval, CleanupTimeout, CleanupPeriod, MaxClaims}
        \subseteq Nat \ {0}
  /\ EventOf \in [Hints -> Events]
  /\ Poison \subseteq Hints
  /\ Faults \in BOOLEAN
  /\ NULL \notin Events

\* The bounds that the constants of the code satisfy: 12 + 10 * 20 + 3 is at
\* most 220, 220 is less than 300, and a cleanup is over before the next is due.
ASSUME BoundsAssumption ==
  /\ ReceiveTimeout + BatchSize * AttemptTimeout + AckTimeout <= CycleTimeout
  /\ CycleTimeout < Visibility
  /\ CleanupTimeout <= CleanupPeriod

VARIABLES
  due,       \* the due rows, in the order in which Claim takes them
  claims,    \* history: how often each event was claimed
  msgs,      \* the messages of the notification queue
  loop       \* the state of each worker's loop

vars == <<due, claims, msgs, loop>>

-----------------------------------------------------------------------------
Places == {"stopped", "waiting", "cleaning", "receiving", "looping", "running",
           "acking"}

\* A receipt handle is the hint and the number of the receive that issued it.
\* History: how often the hint's event will have been claimed at least, when the
\* table has been worked off once after that receive.
Handles == [hint : Hints, receive : 1..MaxReceives, owed : Nat]

Loops ==
  [pc : Places, left : Nat, cycleLeft : 0..CycleTimeout, index : 0..BatchSize,
   received : BOOLEAN, batch : SUBSET Handles, holding : Events \cup {NULL},
   ended : {"no", "full", "empty", "skipped"}, nextCleanup : Int]

Messages ==
  [status : {"unsent", "queued", "deleted", "dead", "lost"}, hidden : 0..Visibility,
   receives : 0..MaxReceives]

TypeOK ==
  /\ due \in Seq(Events) /\ IsInjective(due)
  /\ claims \in [Events -> 0..MaxClaims]
  /\ msgs \in [Hints -> Messages]
  /\ loop \in [Workers -> Loops]

\* A worker that has started: the ticker runs and a cleanup is due.
Started ==
  [pc |-> "waiting", left |-> PollInterval, cycleLeft |-> 0, index |-> 0,
   received |-> FALSE, batch |-> {}, holding |-> NULL, ended |-> "no",
   nextCleanup |-> 0]

Stopped == [Started EXCEPT !.pc = "stopped"]

Init ==
  /\ due = <<>>
  /\ claims = [e \in Events |-> 0]
  /\ msgs = [h \in Hints |-> [status |-> "unsent", hidden |-> 0, receives |-> 0]]
  /\ loop = [w \in Workers |-> Started]

Least(a, b) == IF a < b THEN a ELSE b

Less(t) == IF t > 0 THEN t - 1 ELSE 0

\* The loop of a running worker, one unit of time later.
Later(l) ==
  IF l.pc = "stopped" THEN l
  ELSE [l EXCEPT !.left = Less(@), !.cycleLeft = Less(@), !.nextCleanup = @ - 1]

Tick ==
  /\ \A w \in Workers : loop[w].pc # "stopped" => loop[w].left > 0
  /\ loop' = [w \in Workers |-> Later(loop[w])]
  /\ msgs' = [h \in Hints |-> [msgs[h] EXCEPT !.hidden = Less(@)]]
  /\ UNCHANGED <<due, claims>>

-----------------------------------------------------------------------------
(***************************************************************************)
(* The database and the queue, as this loop sees them.                     *)
(***************************************************************************)
Committed(e) == claims[e] > 0 \/ e \in ToSet(due)

\* A receipt or a replay commits.
Commit(e) ==
  /\ ~Committed(e)
  /\ due' = Append(due, e)
  /\ UNCHANGED <<claims, msgs, loop>>

\* A retry, or a lease that expired, makes an event due again.
FallDue(e) ==
  /\ e \notin ToSet(due)
  /\ claims[e] > 0 /\ claims[e] < MaxClaims
  /\ \A w \in Workers : loop[w].holding # e
  /\ due' = Append(due, e)
  /\ UNCHANGED <<claims, msgs, loop>>

\* AfterCommit's message arrives; it may also never arrive.
Publish(h) ==
  /\ msgs[h].status = "unsent"
  /\ Committed(EventOf[h])
  /\ msgs' = [msgs EXCEPT ![h].status = "queued"]
  /\ UNCHANGED <<due, claims, loop>>

Visible(h) == msgs[h].status = "queued" /\ msgs[h].hidden = 0

\* A message that has left the queue.
Gone(m, why) == [m EXCEPT !.status = why, !.hidden = 0]

\* The queue moves a message that was received too often to the DLQ.
Redrive(h) ==
  /\ Visible(h)
  /\ msgs[h].receives = MaxReceives
  /\ msgs' = [msgs EXCEPT ![h] = Gone(@, "dead")]
  /\ UNCHANGED <<due, claims, loop>>

\* The queue loses a message, or its retention ends.
Lose(h) ==
  /\ Faults
  /\ msgs[h].status = "queued"
  /\ msgs' = [msgs EXCEPT ![h] = Gone(@, "lost")]
  /\ UNCHANGED <<due, claims, loop>>

-----------------------------------------------------------------------------
(***************************************************************************)
(* main_cycles.                                                            *)
(***************************************************************************)
\* Cycle begins: its context, and the call of Receive.
Receiving(l) ==
  [l EXCEPT !.pc = "receiving", !.left = ReceiveTimeout,
            !.cycleLeft = CycleTimeout, !.index = 0, !.ended = "no"]

\* Cycle returns, with or without an error; the loop waits for the ticker.
Returned(l) ==
  [l EXCEPT !.pc = "waiting", !.left = PollInterval, !.cycleLeft = 0,
            !.index = 0, !.received = FALSE, !.batch = {}, !.holding = NULL,
            !.ended = "no"]

\* Mutant: the next cleanup is counted from the end of a cycle.
CleanupDue_AfterCycle(l) == l.nextCleanup + CycleTimeout <= 0

\* now.Before(nextCleanup) == false.
CleanupDue(l) == l.nextCleanup <= 0

\* The ticker fires: Cleanup if a minute has passed, then Cycle.
Wake(w) ==
  /\ loop[w].pc = "waiting"
  /\ IF CleanupDue(loop[w])
     THEN loop' = [loop EXCEPT ![w] =
            [@ EXCEPT !.pc = "cleaning", !.left = CleanupTimeout,
                      !.nextCleanup = CleanupPeriod]]
     ELSE loop' = [loop EXCEPT ![w] = Receiving(@)]
  /\ UNCHANGED <<due, claims, msgs>>

\* Cleanup returns; a failure is only logged.
CleanupDone(w) ==
  /\ loop[w].pc = "cleaning"
  /\ loop' = [loop EXCEPT ![w] = Receiving(@)]
  /\ UNCHANGED <<due, claims, msgs>>

\* SIGTERM, or the process dies.
Stop(w) ==
  /\ Faults
  /\ loop[w].pc # "stopped"
  /\ loop' = [loop EXCEPT ![w] = Stopped]
  /\ UNCHANGED <<due, claims, msgs>>

Start(w) ==
  /\ loop[w].pc = "stopped"
  /\ loop' = [loop EXCEPT ![w] = Started]
  /\ UNCHANGED <<due, claims, msgs>>

-----------------------------------------------------------------------------
(***************************************************************************)
(* Cycle.                                                                  *)
(***************************************************************************)

\* Mutant: the messages stay invisible for one attempt, not for a cycle.
Hiding_Attempt == AttemptTimeout

\* VisibilityTimeout of ReceiveMessage.
Hiding == Visibility

\* What ReceiveMessage may return.
Receivable ==
  {s \in SUBSET {h \in Hints : Visible(h) /\ msgs[h].receives < MaxReceives} :
     Cardinality(s) <= BatchSize}

\* SQS hides the messages of s and counts the receive.
Hide(s) ==
  msgs' = [h \in Hints |->
             IF h \in s THEN [msgs[h] EXCEPT !.hidden = Hiding,
                                         !.receives = @ + 1]
             ELSE msgs[h]]

\* The messages that validMessage accepts.
Accepted(s) == s \ Poison

\* The claims of an event until now, and the one that it waits for if it is due.
Owed(e) == claims[e] + (IF e \in ToSet(due) THEN 1 ELSE 0)

\* The receipt handle that this receive issues for h.
Handle(h) ==
  [hint |-> h, receive |-> msgs[h].receives + 1, owed |-> Owed(EventOf[h])]

\* Receive returns a batch, empty after a long poll.
Receive(w) ==
  /\ loop[w].pc = "receiving"
  /\ \E s \in Receivable :
       /\ Hide(s)
       /\ loop' = [loop EXCEPT ![w] =
            [@ EXCEPT !.pc = "looping", !.left = 0, !.received = TRUE,
                      !.batch = {Handle(h) : h \in Accepted(s)}]]
  /\ UNCHANGED <<due, claims>>

\* Mutant: without a batch there is nothing to do.
Unreceived_Return(l) == Returned(l)

\* The error is only remembered: the database is reconciled all the same.
Unreceived(l) == [l EXCEPT !.pc = "looping", !.left = 0]

\* Receive fails, perhaps after SQS has executed it.
ReceiveFailed(w) ==
  /\ Faults
  /\ loop[w].pc = "receiving"
  /\ \E s \in Receivable : Hide(s)
  /\ loop' = [loop EXCEPT ![w] = Unreceived(@)]
  /\ UNCHANGED <<due, claims>>

\* Mutant: one index too many.
MoreWork_OneMore(l) == l.index <= BatchSize

\* index < BatchSize.
MoreWork(l) == l.index < BatchSize

\* The head of the loop: the context of the cycle, then one more RunOnce.
BeginRun(w) ==
  /\ loop[w].pc = "looping"
  /\ MoreWork(loop[w])
  /\ IF loop[w].cycleLeft = 0
     THEN loop' = [loop EXCEPT ![w] = Returned(@)]
     ELSE loop' = [loop EXCEPT ![w] =
            [@ EXCEPT !.pc = "running",
                      !.left = Least(AttemptTimeout, loop[w].cycleLeft)]]
  /\ UNCHANGED <<due, claims, msgs>>

\* After the loop: Acknowledge unless Receive failed.
Finish(l, why) ==
  IF l.received
  THEN [l EXCEPT !.pc = "acking", !.ended = why,
                 !.left = Least(AckTimeout, l.cycleLeft)]
  ELSE Returned(l)

EndLoop(w) ==
  /\ loop[w].pc = "looping"
  /\ ~MoreWork(loop[w])
  /\ loop' = [loop EXCEPT ![w] = Finish(@, "full")]
  /\ UNCHANGED <<due, claims, msgs>>

\* RunOnce claims the first due event.
RunClaim(w) ==
  /\ loop[w].pc = "running"
  /\ loop[w].holding = NULL
  /\ due # <<>>
  /\ due' = Tail(due)
  /\ claims' = [claims EXCEPT ![Head(due)] = @ + 1]
  /\ loop' = [loop EXCEPT ![w].holding = Head(due)]
  /\ UNCHANGED <<msgs>>

\* Another Claim statement is running and has rows locked.
Contended(w) ==
  \E v \in Workers \ {w} : loop[v].pc = "running" /\ loop[v].holding = NULL

\* RunOnce finds no due event, or passes over those that are locked.
RunEmpty(w) ==
  /\ loop[w].pc = "running"
  /\ loop[w].holding = NULL
  /\ due = <<>> \/ Contended(w)
  /\ loop' = [loop EXCEPT ![w] =
                Finish(@, IF due = <<>> THEN "empty" ELSE "skipped")]
  /\ UNCHANGED <<due, claims, msgs>>

\* RunOnce has recorded its attempt.
RunDone(w) ==
  /\ loop[w].pc = "running"
  /\ loop[w].holding # NULL
  /\ loop' = [loop EXCEPT ![w] =
       [@ EXCEPT !.pc = "looping", !.left = 0, !.index = loop[w].index + 1,
                 !.holding = NULL]]
  /\ UNCHANGED <<due, claims, msgs>>

\* Mutant: the error ends the loop only.
Failed_Break(l) == Finish(l, "empty")

\* An error of RunOnce ends the cycle and keeps the handles.
Failed(l) == Returned(l)

\* RunOnce fails, or its context expires.
RunFailed(w) ==
  /\ loop[w].pc = "running"
  /\ Faults \/ loop[w].left = 0
  /\ loop' = [loop EXCEPT ![w] = Failed(@)]
  /\ UNCHANGED <<due, claims, msgs>>

\* SQS deletes the messages of the handles in d.
Delete(d) ==
  msgs' = [h \in Hints |->
             IF \E x \in d : x.hint = h /\ msgs[h].status = "queued"
             THEN Gone(msgs[h], "deleted") ELSE msgs[h]]

\* DeleteMessageBatch deletes all of the batch; with an empty batch it is not
\* called.
Acknowledge(w) ==
  /\ loop[w].pc = "acking"
  /\ Delete(loop[w].batch)
  /\ loop' = [loop EXCEPT ![w] = Returned(@)]
  /\ UNCHANGED <<due, claims>>

\* It fails, for all of the batch, for a part, or after it was executed.
AcknowledgeFailed(w) ==
  /\ Faults
  /\ loop[w].pc = "acking"
  /\ \E d \in SUBSET loop[w].batch : Delete(d)
  /\ loop' = [loop EXCEPT ![w] = Returned(@)]
  /\ UNCHANGED <<due, claims>>

-----------------------------------------------------------------------------
Step(w) ==
  \/ Wake(w) \/ CleanupDone(w) \/ Receive(w) \/ ReceiveFailed(w)
  \/ BeginRun(w) \/ EndLoop(w)
  \/ RunClaim(w) \/ RunEmpty(w) \/ RunDone(w) \/ RunFailed(w)
  \/ Acknowledge(w) \/ AcknowledgeFailed(w)

Next ==
  \/ Tick
  \/ \E e \in Events : Commit(e) \/ FallDue(e)
  \/ \E h \in Hints : Publish(h) \/ Redrive(h) \/ Lose(h)
  \/ \E w \in Workers : Step(w) \/ Stop(w) \/ Start(w)

Spec == Init /\ [][Next]_vars

\* A stopped worker is started again, and not every cycle is cut short on its
\* way to the first Claim statement.  No hint need ever be published, and every
\* call of Receive may fail.
Fairness ==
  /\ WF_vars(Tick)
  /\ \A w \in Workers :
       /\ WF_vars(Step(w))
       /\ WF_vars(Start(w))
       /\ SF_vars(Wake(w))
       /\ SF_vars(CleanupDone(w))
       /\ SF_vars(Receive(w) \/ ReceiveFailed(w))
       /\ SF_vars(BeginRun(w))
       /\ SF_vars(RunClaim(w))

FairSpec == Spec /\ Fairness

-----------------------------------------------------------------------------
(***************************************************************************)
(* Properties.                                                             *)
(***************************************************************************)

\* The handles that a worker is about to delete are the latest of their
\* messages: no message of a batch becomes visible, is received by another
\* worker or is redriven while its cycle works, up to ten attempts long.
HandlesCurrent ==
  \A w \in Workers :
    loop[w].pc = "acking" =>
      \A x \in loop[w].batch :
        /\ msgs[x.hint].receives = x.receive
        /\ ~Visible(x.hint)
        /\ msgs[x.hint].status # "dead"

\* The cycle's own context never cuts off a cycle whose calls all respect
\* theirs: each RunOnce has its full time and Acknowledge too.
CycleFits ==
  \A w \in Workers :
    /\ loop[w].pc = "running" => loop[w].left + AckTimeout <= loop[w].cycleLeft
    /\ loop[w].pc = "looping" => AckTimeout <= loop[w].cycleLeft

\* A hint is deleted only when it was considered: if its event was due when the
\* hint was received, for the first time, for a retry or for a replay, it has
\* been claimed after that receive, or the cycle took a full batch of other
\* events, or another worker had rows locked.  A failed cycle deletes nothing, and
\* a message that validMessage rejects is left to redrive.
DeletedIsConsidered ==
  [][\A h \in Hints :
       msgs[h].status = "queued" /\ msgs'[h].status = "deleted" =>
         \E w \in Workers :
           /\ loop[w].pc = "acking" /\ h \notin Poison
           /\ \E x \in loop[w].batch :
                /\ x.hint = h
                /\ \/ x.owed <= claims[EventOf[h]]
                   \/ loop[w].ended \in {"full", "skipped"}]_vars

\* A slow batch defers Cleanup by one bounded cycle at most.
CleanupPunctual ==
  \A w \in Workers :
    loop[w].pc # "stopped" =>
      -loop[w].nextCleanup <= CycleTimeout + PollInterval

\* Every committed event is claimed in the end, although every hint may be
\* lost, every receive may fail and workers are stopped again and again.
EventuallyClaimed == \A e \in Events : Committed(e) ~> claims[e] > 0
=============================================================================
