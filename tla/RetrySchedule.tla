--------------------------- MODULE RetrySchedule ----------------------------
(***************************************************************************)
(* One event, delivered by one worker at the earliest instant each time,   *)
(* with the numbers of the source: eight attempts, the delay table, its    *)
(* jitter, the 24-hour window and the HTTP client's timeout, in            *)
(* milliseconds.  It asks whether the constants of six files fit together, *)
(* whichever destination answers.  The deployed demonstration receiver     *)
(* (DemoReceiver) may be occupied by the requests of others.               *)
(***************************************************************************)
EXTENDS DemoReceiver

CONSTANTS
  Jitters,        \* the sample of PerMille that is tried with each destination
  SendTimeout,    \* the timeout of the worker's HTTP client, 10 s
  Durations,      \* how long a request takes, up to that timeout
  UnstableStatus  \* what an unstable destination answers with

Receivers == {"sandbox", "demo", "fixture", "unstable"}

ASSUME ScheduleAssumption ==
  /\ Jitters \in [Receivers -> SUBSET PerMille]
  /\ SendTimeout \in Nat
  /\ Durations \subseteq 0..SendTimeout
  /\ UnstableStatus \subseteq 100..599

\* The numbers of the source, in milliseconds; the clock's step is short enough to
\* fall between the client's timeout and the server's.
ASSUME SourceNumbers ==
  /\ MaxAttempts = 8 /\ MaxAge = 24 * 60 * 60 * 1000
  /\ SendTimeout = 10000 /\ ReadTimeout = 15000
  /\ SendTimeout + Pace <= ReadTimeout

VARIABLES
  receiver,   \* who answers: one of the simulators, or an unstable host
  scenario,
  state,      \* the event's state
  tries,      \* attempts made
  status,     \* the last status
  elapsed,    \* the age of the event when the next attempt is due
  disturbed   \* history: the receiver was full, or did not answer, once

vars == <<receiver, scenario, state, tries, status, elapsed, disturbed, receiverVars>>

TypeOK ==
  /\ receiver \in Receivers
  /\ scenario \in Scenarios
  /\ state \in States
  /\ tries \in 0..MaxAttempts
  /\ status \in -1..999
  /\ elapsed \in Nat
  /\ disturbed \in BOOLEAN
  /\ ReceiverTypeOK

Init ==
  /\ receiver \in Receivers
  /\ scenario \in Scenarios
  /\ state = "pending"
  /\ tries = 0
  /\ status = 0
  /\ elapsed = 0
  /\ disturbed = FALSE
  /\ ReceiverInit

\* The statuses another destination may answer attempt n with.
Answers(n) ==
  CASE receiver = "sandbox" -> {sandbox_attempt(scenario, n)}
    [] receiver = "fixture" -> {events_post(scenario, n)}
    [] OTHER -> UnstableStatus

\* An attempt is due.
AttemptDue == state \in {"pending", "retry_scheduled"} /\ elapsed < MaxAge

\* It ends, took milliseconds after it began: its classification and the next due time.
Settle(s, took) ==
  LET outcome == IF s = NoResponse THEN "network_error" ELSE HTTPOutcome(s)
  IN  /\ tries' = tries + 1
      /\ status' = s
      /\ state' = record_state(tries + 1, 0, outcome, elapsed + took)
      /\ \E j \in Jitters[receiver] :
           elapsed' = IF state' = "retry_scheduled"
                      THEN elapsed + took + RetryDelay(tries + 1, j) ELSE elapsed
      /\ UNCHANGED <<receiver, scenario>>

Attempt ==
  /\ receiver # "demo"
  /\ AttemptDue
  /\ \E s \in Answers(tries + 1), took \in Durations : Settle(s, took)
  /\ UNCHANGED <<receiverVars, disturbed>>

-----------------------------------------------------------------------------
(***************************************************************************)
(* The demonstration receiver: a request of the worker among others.       *)
(***************************************************************************)
scheduleVars == <<receiver, scenario, state, tries, status, elapsed, disturbed>>

\* Send opens a connection.
SendDemo(c) ==
  /\ receiver = "demo" /\ mine = NULL
  /\ AttemptDue
  /\ Open(c)
  /\ mine' = c
  /\ UNCHANGED scheduleVars

\* The worker's request has no flaw, as long as its clock and the receiver's
\* are within timestampWindow.
SendArrives ==
  /\ mine # NULL
  /\ Admit(mine) \/ BodyRead(mine, "none", scenarioStatus(scenario, tries + 1))
  /\ UNCHANGED <<scheduleVars, mine>>

\* The answer is read, or the connection was closed.
SendAnswered ==
  /\ mine # NULL
  /\ conn[mine].pc = "answered"
  /\ LET s == conn[mine].status
     IN  /\ Settle(IF s = 0 THEN NoResponse ELSE s, conn[mine].age)
         /\ disturbed' = (disturbed \/ s # scenarioStatus(scenario, tries + 1))
  /\ conn' = [conn EXCEPT ![mine] = Idle]
  /\ mine' = NULL
  /\ UNCHANGED slots

\* The request fails, at the latest after the client's timeout.
SendFails ==
  /\ mine # NULL
  /\ Leave(mine)
  /\ Settle(NoResponse, conn[mine].age)
  /\ disturbed' = TRUE
  /\ mine' = NULL

\* The client's timeout is acted on.
PassDemo ==
  /\ receiver = "demo"
  /\ Pass
  /\ mine # NULL => conn[mine].pc # "answered" /\ conn[mine].age < SendTimeout
  /\ UNCHANGED scheduleVars

ServeDemo(c) == Serve(c) /\ UNCHANGED <<scheduleVars, mine>>

Next ==
  \/ Attempt
  \/ SendArrives \/ SendAnswered \/ SendFails \/ PassDemo
  \/ \E c \in Conns :
       \/ SendDemo(c) \/ ServeDemo(c)
       \/ receiver = "demo" /\ Guest(c) /\ UNCHANGED scheduleVars

Spec == Init /\ [][Next]_vars

\* Time passes, however many requests come and go at one instant, and the server
\* and the worker act on their timeouts.
FairSpec ==
  /\ Spec
  /\ SF_vars(PassDemo) /\ WF_vars(SendAnswered \/ SendFails)
  /\ \A c \in Conns : WF_vars(ServeDemo(c))

-----------------------------------------------------------------------------
\* The attempt limit, and not the age limit, ends an event whose destination
\* keeps failing: with every delay stretched to the full and every request
\* at its timeout, the eighth attempt is still due inside the window that
\* CanRetryAt and Claim enforce.
BudgetFitsWindow == elapsed < MaxAge

\* No event is given up early: a dead-lettered event has had all its attempts,
\* unless its destination meant it.  A demonstration receiver that is full, or a
\* request that it reads too slowly, is no reason: its own 400 comes too late
\* for the worker, which has given up and tries again.
DeadLetterEarned ==
  state = "dead_lettered" =>
    \/ tries = MaxAttempts
    \/ IF receiver = "unstable" THEN status \notin {408, 429} \cup 500..599
       ELSE scenario = "permanent_failure"

\* The simulators implement the same scenarios, so that what a visitor sees
\* in the sandbox is what the deployed demonstration, undisturbed, does: success
\* at once, success at the third attempt, or dead letter at once.
ScenariosEnd ==
  receiver # "unstable" /\ ~disturbed =>
    CASE scenario = "success" -> state = "delivered" \/ tries = 0
      [] scenario = "temporary_failure" -> state = "delivered" <=> tries = 3
      [] scenario = "permanent_failure" -> state = "dead_lettered" \/ tries = 0
=============================================================================
