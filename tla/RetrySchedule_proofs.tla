------------------------ MODULE RetrySchedule_proofs ------------------------
(***************************************************************************)
(* The retry schedule with the numbers of the source, for every jitter,    *)
(* every duration of a request up to the client's timeout, every status of *)
(* an unstable destination, and a demonstration receiver with any number   *)
(* of slots and of other clients.                                          *)
(***************************************************************************)
EXTENDS RetrySchedule, FiniteSetTheorems, TLAPS

-----------------------------------------------------------------------------
(***************************************************************************)
(* The inductive invariant.                                                *)
(***************************************************************************)
Unsettled == {"pending", "retry_scheduled"}

\* The first n delays, each stretched by the full jitter, in milliseconds.
Stretched(n) ==
  CASE n = 0 -> 0
    [] n = 1 -> 6000
    [] n = 2 -> 42000
    [] n = 3 -> 186000
    [] n = 4 -> 906000
    [] n = 5 -> 3066000
    [] n = 6 -> 11706000
    [] OTHER -> 37626000

\* The latest instant at which the attempt after n others can be due.
LatestDue(n) == Stretched(n) + n * ReadTimeout

Statuses == 0..599

Links ==
  [pc : {"idle", "header", "body", "answered"}, age : Nat, gone : BOOLEAN,
   status : Statuses]

Shape ==
  /\ receiver \in Receivers /\ scenario \in Scenarios
  /\ state \in Unsettled \cup {"delivered", "dead_lettered"}
  /\ tries \in 0..8 /\ status \in Int /\ elapsed \in Nat /\ disturbed \in BOOLEAN
  /\ conn \in [Conns -> Links] /\ mine \in Conns \cup {NULL} /\ slots \in Int

\* How far the event has come.
ProgressOK ==
  /\ state = "pending" => tries = 0
  /\ state = "retry_scheduled" => tries \in 1..7
  /\ elapsed <= LatestDue(tries)

\* A scenario that nothing disturbs is at one of its stages.
StagesOK ==
  receiver # "unstable" /\ ~disturbed =>
    \/ tries = 0 /\ state = "pending"
    \/ scenario = "success" /\ tries = 1 /\ state = "delivered"
    \/ scenario = "permanent_failure" /\ tries = 1 /\ state = "dead_lettered"
    \/ /\ scenario = "temporary_failure"
       /\ \/ tries \in {1, 2} /\ state = "retry_scheduled"
          \/ tries = 3 /\ state = "delivered"

\* The worker's request: the client has not given up, so the server's deadline has
\* not passed, and it is answered by the scenario, with 503 or not at all.
MineOK ==
  mine # NULL =>
    /\ receiver = "demo" /\ state \in Unsettled
    /\ ~conn[mine].gone /\ conn[mine].age < ReadTimeout
    /\ conn[mine].pc = "answered" =>
         conn[mine].status \in {0, 503, scenarioStatus(scenario, tries + 1)}

ScheduleInv == Shape /\ ProgressOK /\ DeadLetterEarned /\ StagesOK /\ MineOK

\* A slot is taken exactly for each body that is being read.
Reading == {c \in Conns : conn[c].pc = "body"}

SlotsOK == slots \in 0..Slots /\ IsFiniteSet(Reading) /\ Cardinality(Reading) = slots

-----------------------------------------------------------------------------
(***************************************************************************)
(* The numbers of the source and the decisions taken from them.            *)
(***************************************************************************)

\* The constants, one by one.
LEMMA Numbers ==
  /\ MaxAttempts = 8 /\ MaxAge = 86400000 /\ SendTimeout = 10000
  /\ ReadTimeout = 15000 /\ HeaderTimeout \in Nat
  /\ Pace \in Nat /\ Pace <= 5000
  /\ Slots \in Nat /\ Slots > 0
  /\ NULL \notin Conns
BY SourceNumbers, ReceiverAssumption

\* retry_delay stays within its table entry, stretched by the jitter of a fifth.
LEMMA RetryDelayBound ==
  ASSUME NEW n \in 1..7, NEW j \in PerMille
  PROVE  /\ RetryDelay(n, j) \in Nat
         /\ Stretched(n - 1) + RetryDelay(n, j) <= Stretched(n)
<1>1. j \in Int /\ -200 <= j /\ j <= 200
  BY DEF PerMille
<1>2. RetryDelay(n, j) = delays[n] * (1000 + j)
  BY DEF RetryDelay, DelayIndex, delays
<1>3. CASE n = 1
  BY <1>1, <1>2, <1>3 DEF Stretched, delays
<1>4. CASE n = 2
  BY <1>1, <1>2, <1>4 DEF Stretched, delays
<1>5. CASE n = 3
  BY <1>1, <1>2, <1>5 DEF Stretched, delays
<1>6. CASE n = 4
  BY <1>1, <1>2, <1>6 DEF Stretched, delays
<1>7. CASE n = 5
  BY <1>1, <1>2, <1>7 DEF Stretched, delays
<1>8. CASE n = 6
  BY <1>1, <1>2, <1>8 DEF Stretched, delays
<1>9. CASE n = 7
  BY <1>1, <1>2, <1>9 DEF Stretched, delays
<1> QED
  BY <1>3, <1>4, <1>5, <1>6, <1>7, <1>8, <1>9

\* The latest due times grow with the attempts and all lie inside the window, with
\* room for one more request.
LEMMA LatestDueFacts ==
  ASSUME NEW n \in 0..8
  PROVE  /\ Stretched(n) \in Nat /\ LatestDue(n) \in Nat
         /\ LatestDue(n) = Stretched(n) + n * 15000
         /\ LatestDue(n) + 15000 < MaxAge
         /\ n < 8 => Stretched(n) <= Stretched(n + 1)
BY Numbers DEF Stretched, LatestDue

\* What record writes after an attempt inside the window: only the last attempt of
\* the budget and a terminal answer end the event without a delivery.
LEMMA RecordState ==
  ASSUME NEW n \in 1..8, NEW out \in Outcomes, NEW age \in Nat, age < MaxAge
  PROVE  record_state(n, 0, out, age) =
           IF out = "delivered" THEN "delivered"
           ELSE IF out # "terminal_http" /\ n < 8 THEN "retry_scheduled"
           ELSE "dead_lettered"
BY Numbers DEF record_state, CanRetryAt, CanRetry, Outcomes


\* The outcome that deliver reports for a status, or for no response.
Outcome(s) == IF s = NoResponse THEN "network_error" ELSE HTTPOutcome(s)

\* Which outcomes the statuses of the simulators have, and that only an unforeseen
\* status is terminal.
LEMMA OutcomeFacts ==
  ASSUME NEW s \in Int
  PROVE  /\ Outcome(s) \in Outcomes
         /\ s = 204 => Outcome(s) = "delivered"
         /\ s = 422 => Outcome(s) = "terminal_http"
         /\ s \in {503, NoResponse} => Outcome(s) \notin {"delivered", "terminal_http"}
         /\ Outcome(s) = "terminal_http" => s \notin {408, 429} \cup 500..599
BY DEF Outcome, HTTPOutcome, Outcomes, NoResponse

\* The three simulators, written separately (sandbox.attempt, scenarioStatus and the
\* fixture's events_post), answer every attempt of every scenario alike.
THEOREM SimulatorsAgree ==
  ASSUME NEW sc \in Scenarios, NEW n \in Nat, n > 0
  PROVE  /\ sandbox_attempt(sc, n) = scenarioStatus(sc, n)
         /\ events_post(sc, n) = scenarioStatus(sc, n)
BY DEF Scenarios, sandbox_attempt, events_post, scenarioStatus

\* The answers of a scenario: 204, 503 twice and then 204, or 422.
LEMMA ScenarioAnswers ==
  ASSUME NEW sc \in Scenarios, NEW n \in Nat, n > 0
  PROVE  /\ scenarioStatus(sc, n) \in {204, 503, 422}
         /\ sc = "success" => scenarioStatus(sc, n) = 204
         /\ sc = "temporary_failure" =>
              scenarioStatus(sc, n) = IF n \in {1, 2} THEN 503 ELSE 204
         /\ sc = "permanent_failure" => scenarioStatus(sc, n) = 422
BY DEF Scenarios, scenarioStatus

-----------------------------------------------------------------------------
(***************************************************************************)
(* The end of an attempt.                                                  *)
(***************************************************************************)

\* Where the event stands after an attempt that began in time and took less than
\* the server's read timeout: within its budget and due in time.
LEMMA SettleFacts ==
  ASSUME Shape, ProgressOK, state \in Unsettled,
         NEW s \in Int, NEW took \in Nat, took < 15000, Settle(s, took)
  PROVE  /\ receiver' = receiver /\ scenario' = scenario
         /\ tries' = tries + 1 /\ tries' \in 1..8
         /\ status' = s /\ elapsed' \in Nat
         /\ state' = IF Outcome(s) = "delivered" THEN "delivered"
                     ELSE IF Outcome(s) # "terminal_http" /\ tries' < 8
                     THEN "retry_scheduled" ELSE "dead_lettered"
         /\ elapsed' <= LatestDue(tries')
<1>1. tries \in 0..7 /\ elapsed \in Nat /\ elapsed <= LatestDue(tries)
  BY DEF Shape, ProgressOK, Unsettled
<1>2. /\ tries' = tries + 1 /\ status' = s
      /\ receiver' = receiver /\ scenario' = scenario
      /\ state' = record_state(tries + 1, 0, Outcome(s), elapsed + took)
  BY DEF Settle, Outcome
<1>3. LatestDue(tries) + 15000 < MaxAge /\ LatestDue(tries) \in Nat /\ MaxAge \in Nat
  BY <1>1, LatestDueFacts, Numbers
<1>4. elapsed + took \in Nat /\ elapsed + took < MaxAge
  BY <1>1, <1>3
<1>5. tries + 1 \in 1..8
  BY <1>1
<1>6. Outcome(s) \in Outcomes
  BY OutcomeFacts
<1>7. record_state(tries + 1, 0, Outcome(s), elapsed + took) =
        IF Outcome(s) = "delivered" THEN "delivered"
        ELSE IF Outcome(s) # "terminal_http" /\ tries + 1 < 8 THEN "retry_scheduled"
        ELSE "dead_lettered"
  BY <1>4, <1>5, <1>6, RecordState
<1>8. state' = IF Outcome(s) = "delivered" THEN "delivered"
               ELSE IF Outcome(s) # "terminal_http" /\ tries + 1 < 8
               THEN "retry_scheduled" ELSE "dead_lettered"
  BY <1>2, <1>7
<1>9. state' = "retry_scheduled" => tries + 1 \in 1..7
  BY <1>5, <1>8
<1>10. PICK j \in Jitters[receiver] :
         elapsed' = IF state' = "retry_scheduled"
                    THEN elapsed + took + RetryDelay(tries + 1, j) ELSE elapsed
  BY DEF Settle
<1>11. j \in PerMille
  BY <1>10, ScheduleAssumption DEF Shape
<1>12. elapsed' \in Nat /\ elapsed' <= LatestDue(tries + 1)
  <2>1. CASE state' = "retry_scheduled"
    <3>1. PICK d : d = RetryDelay(tries + 1, j)
      OBVIOUS
    <3>2. PICK m : m = tries + 1 /\ m \in 1..7 /\ m - 1 = tries
      BY <1>1, <1>9, <2>1
    <3>3. d \in Nat /\ Stretched(m - 1) + d <= Stretched(m)
      BY <1>11, <3>1, <3>2, RetryDelayBound
    <3>4. d \in Nat /\ Stretched(tries) + d <= Stretched(tries + 1)
      BY <3>2, <3>3
    <3>5. elapsed' = elapsed + took + d
      BY <1>10, <2>1, <3>1
    <3>6. elapsed + took + d <= LatestDue(tries + 1)
      <4>1. PICK S, T, L, M : /\ S = Stretched(tries) /\ T = Stretched(tries + 1)
                              /\ L = LatestDue(tries) /\ M = LatestDue(tries + 1)
        OBVIOUS
      <4>2. /\ S \in Nat /\ T \in Nat
            /\ L = S + tries * 15000 /\ M = T + (tries + 1) * 15000
        BY <1>1, <4>1, LatestDueFacts
      <4>3. S + d <= T /\ elapsed <= L
        BY <1>1, <3>4, <4>1
      <4> QED
        BY <1>1, <3>4, <4>1, <4>2, <4>3
    <3> QED
      BY <1>1, <3>4, <3>5, <3>6
  <2>2. CASE state' # "retry_scheduled"
    <3>1. elapsed' = elapsed
      BY <1>10, <2>2
    <3>2. elapsed <= LatestDue(tries + 1)
      <4>1. PICK S, T, L, M : /\ S = Stretched(tries) /\ T = Stretched(tries + 1)
                              /\ L = LatestDue(tries) /\ M = LatestDue(tries + 1)
        OBVIOUS
      <4>2. /\ S \in Nat /\ T \in Nat /\ S <= T
            /\ L = S + tries * 15000 /\ M = T + (tries + 1) * 15000
        BY <1>1, <4>1, LatestDueFacts
      <4> QED
        BY <1>1, <4>1, <4>2
    <3> QED
      BY <1>1, <3>1, <3>2
  <2> QED
    BY <2>1, <2>2
<1> QED
  BY <1>2, <1>5, <1>8, <1>12

\* The parts of the invariant that the end of an attempt decides, if the answer was
\* one that this destination can give and disturbed remembers any other than its
\* scenario's.
LEMMA SettleInv ==
  ASSUME Shape, ProgressOK, StagesOK, state \in Unsettled,
         NEW s \in Int, NEW took \in Nat, took < 15000, Settle(s, took),
         receiver # "unstable" =>
           s \in {NoResponse, 503, scenarioStatus(scenario, tries + 1)},
         disturbed' \in BOOLEAN, disturbed => disturbed',
         receiver # "unstable" /\ ~disturbed' => s = scenarioStatus(scenario, tries + 1),
         conn' \in [Conns -> Links], mine' \in Conns \cup {NULL}, slots' \in Int
  PROVE  Shape' /\ ProgressOK' /\ DeadLetterEarned' /\ StagesOK'
<1> DEFINE answer == scenarioStatus(scenario, tries + 1)
<1>1. /\ receiver' = receiver /\ scenario' = scenario
      /\ tries' = tries + 1 /\ tries' \in 1..8
      /\ status' = s /\ elapsed' \in Nat
      /\ state' = IF Outcome(s) = "delivered" THEN "delivered"
                  ELSE IF Outcome(s) # "terminal_http" /\ tries' < 8
                  THEN "retry_scheduled" ELSE "dead_lettered"
      /\ elapsed' <= LatestDue(tries')
  BY SettleFacts
<1>2. /\ receiver \in Receivers /\ scenario \in Scenarios /\ tries \in 0..8
      /\ state \in Unsettled \cup {"delivered", "dead_lettered"}
  BY DEF Shape
<1>3. tries + 1 \in Nat /\ tries + 1 > 0
  BY <1>2
<1>4. /\ answer \in {204, 503, 422}
      /\ scenario = "success" => answer = 204
      /\ scenario = "temporary_failure" =>
           answer = IF tries + 1 \in {1, 2} THEN 503 ELSE 204
      /\ scenario = "permanent_failure" => answer = 422
  BY <1>2, <1>3, ScenarioAnswers
<1>5. /\ Outcome(s) \in Outcomes
      /\ s = 204 => Outcome(s) = "delivered"
      /\ s = 422 => Outcome(s) = "terminal_http"
      /\ s \in {503, NoResponse} => Outcome(s) \notin {"delivered", "terminal_http"}
      /\ Outcome(s) = "terminal_http" => s \notin {408, 429} \cup 500..599
  BY OutcomeFacts
<1>6. PICK o : o = Outcome(s)
  OBVIOUS
<1>7. PICK a : a = answer
  OBVIOUS
<1> HIDE DEF answer
<1>8. Shape'
  BY <1>1, <1>2 DEF Shape, Unsettled
<1>9. ProgressOK'
  BY <1>1 DEF ProgressOK
<1>10. DeadLetterEarned'
  <2>1. SUFFICES ASSUME state' = "dead_lettered", tries' # 8
                 PROVE  IF receiver' = "unstable" THEN status' \notin {408, 429} \cup 500..599
                        ELSE scenario' = "permanent_failure"
    BY Numbers DEF DeadLetterEarned
  <2>2. tries' < 8
    BY <1>1, <2>1
  <2>3. o = "terminal_http"
    BY <1>1, <1>6, <2>1, <2>2
  <2>4. CASE receiver = "unstable"
    BY <1>1, <1>5, <1>6, <2>3, <2>4
  <2>5. CASE receiver # "unstable"
    <3>1. s \in {NoResponse, 503, a}
      BY <1>7, <2>5 DEF answer
    <3>2. s = a /\ a = 422
      BY <1>4, <1>5, <1>6, <1>7, <2>3, <3>1
    <3>3. scenario = "permanent_failure"
      BY <1>2, <1>4, <1>7, <3>2 DEF Scenarios
    <3> QED
      BY <1>1, <2>5, <3>3
  <2> QED
    BY <2>4, <2>5
<1>11. StagesOK'
  <2>1. SUFFICES ASSUME receiver # "unstable", ~disturbed'
                 PROVE  \/ tries' = 0 /\ state' = "pending"
                        \/ scenario = "success" /\ tries' = 1 /\ state' = "delivered"
                        \/ scenario = "permanent_failure" /\ tries' = 1
                             /\ state' = "dead_lettered"
                        \/ /\ scenario = "temporary_failure"
                           /\ \/ tries' \in {1, 2} /\ state' = "retry_scheduled"
                              \/ tries' = 3 /\ state' = "delivered"
    BY <1>1 DEF StagesOK
  <2>2. ~disturbed /\ s = a
    BY <1>7, <2>1 DEF answer
  <2>3. \/ tries = 0
        \/ scenario = "temporary_failure" /\ tries \in {1, 2}
    BY <2>1, <2>2 DEF StagesOK, Unsettled
  <2>4. CASE scenario = "success"
    <3>1. o = "delivered"
      BY <1>4, <1>5, <1>6, <1>7, <2>2, <2>4
    <3> QED
      BY <1>1, <1>6, <2>3, <2>4, <3>1
  <2>5. CASE scenario = "permanent_failure"
    <3>1. o = "terminal_http"
      BY <1>4, <1>5, <1>6, <1>7, <2>2, <2>5
    <3> QED
      BY <1>1, <1>6, <2>3, <2>5, <3>1
  <2>6. CASE scenario = "temporary_failure"
    <3>1. tries \in {0, 1} => o \notin {"delivered", "terminal_http"}
      BY <1>4, <1>5, <1>6, <1>7, <2>2, <2>6
    <3>2. tries = 2 => o = "delivered"
      BY <1>4, <1>5, <1>6, <1>7, <2>2, <2>6
    <3> QED
      BY <1>1, <1>6, <2>3, <2>6, <3>1, <3>2
  <2> QED
    BY <1>2, <2>4, <2>5, <2>6 DEF Scenarios
<1> QED
  BY <1>8, <1>9, <1>10, <1>11

-----------------------------------------------------------------------------
(***************************************************************************)
(* The connections of the demonstration receiver.                          *)
(***************************************************************************)

\* The statuses that the receiver answers with; 0 is none.
LEMMA StatusValues ==
  /\ 0 \in Statuses /\ 204 \in Statuses /\ 400 \in Statuses /\ 401 \in Statuses
  /\ 405 \in Statuses /\ 413 \in Statuses /\ 422 \in Statuses /\ 503 \in Statuses
BY SMT DEF Statuses

\* A connection that is replaced by a well-formed one.
LEMMA LinkUpdate ==
  ASSUME conn \in [Conns -> Links], NEW c \in Conns, NEW l \in Links,
         conn' = [conn EXCEPT ![c] = l]
  PROVE  /\ conn' \in [Conns -> Links]
         /\ conn'[c] = l
         /\ \A x \in Conns : x # c => conn'[x] = conn[x]
OBVIOUS

\* A free connection, and one that was just opened.
LEMMA LinkNew ==
  /\ Idle \in Links /\ Idle.pc = "idle"
  /\ [Idle EXCEPT !.pc = "header"] \in Links
  /\ [Idle EXCEPT !.pc = "header"].pc = "header"
  /\ [Idle EXCEPT !.pc = "header"].age = 0
  /\ [Idle EXCEPT !.pc = "header"].gone = FALSE
<1>1. Idle \in Links
  BY StatusValues, SMT DEF Links, Idle
<1>2. PICK i \in Links : i = Idle
  BY <1>1
<1>3. i.pc = "idle" /\ i.age = 0 /\ i.gone = FALSE
  BY <1>2 DEF Idle
<1>4. /\ [i EXCEPT !.pc = "header"] \in Links
      /\ [i EXCEPT !.pc = "header"].pc = "header"
      /\ [i EXCEPT !.pc = "header"].age = 0
      /\ [i EXCEPT !.pc = "header"].gone = FALSE
  BY <1>3 DEF Links
<1> QED
  BY <1>2, <1>3, <1>4

\* Its body is being read, or its client has gone.
LEMMA LinkServed ==
  ASSUME NEW l \in Links
  PROVE  /\ [l EXCEPT !.pc = "body"] \in Links
         /\ [l EXCEPT !.pc = "body"].pc = "body"
         /\ [l EXCEPT !.pc = "body"].age = l.age
         /\ [l EXCEPT !.pc = "body"].gone = l.gone
         /\ [l EXCEPT !.gone = TRUE] \in Links
         /\ [l EXCEPT !.gone = TRUE].pc = l.pc
BY DEF Links

\* It has been answered.
LEMMA LinkAnswered ==
  ASSUME NEW l \in Links, NEW s \in Statuses
  PROVE  /\ [l EXCEPT !.pc = "answered", !.status = s] \in Links
         /\ [l EXCEPT !.pc = "answered", !.status = s].pc = "answered"
         /\ [l EXCEPT !.pc = "answered", !.status = s].age = l.age
         /\ [l EXCEPT !.pc = "answered", !.status = s].gone = l.gone
         /\ [l EXCEPT !.pc = "answered", !.status = s].status = s
BY DEF Links

\* A new connection waits for its headers.
LEMMA OpenFacts ==
  ASSUME conn \in [Conns -> Links], NEW c \in Conns, Open(c)
  PROVE  /\ conn' \in [Conns -> Links] /\ slots' = slots
         /\ conn[c].pc = "idle"
         /\ conn'[c].pc = "header" /\ conn'[c].age = 0 /\ conn'[c].gone = FALSE
         /\ \A x \in Conns : x # c => conn'[x] = conn[x]
<1>1. PICK l : l = [Idle EXCEPT !.pc = "header"]
  OBVIOUS
<1>2. l \in Links /\ l.pc = "header" /\ l.age = 0 /\ l.gone = FALSE
  BY <1>1, LinkNew
<1>3. conn' = [conn EXCEPT ![c] = l] /\ slots' = slots /\ conn[c].pc = "idle"
  BY <1>1 DEF Open
<1> QED
  BY <1>2, <1>3, LinkUpdate

\* An answer is kept for the worker; another client's connection is free again.
LEMMA ReplyFacts ==
  ASSUME conn \in [Conns -> Links], NEW c \in Conns, NEW s \in Statuses, Reply(c, s)
  PROVE  /\ conn' \in [Conns -> Links]
         /\ conn'[c].pc \in {"idle", "answered"}
         /\ c = mine => /\ conn'[c].age = conn[c].age /\ conn'[c].gone = conn[c].gone
                        /\ conn'[c].status = s
         /\ \A x \in Conns : x # c => conn'[x] = conn[x]
<1>1. PICK k : k = [conn[c] EXCEPT !.pc = "answered", !.status = s]
  OBVIOUS
<1>2. /\ k \in Links /\ k.pc = "answered" /\ k.age = conn[c].age
      /\ k.gone = conn[c].gone /\ k.status = s
  <2>1. PICK l \in Links : l = conn[c]
    OBVIOUS
  <2>2. k = [l EXCEPT !.pc = "answered", !.status = s]
    BY <1>1, <2>1
  <2>3. /\ k \in Links /\ k.pc = "answered" /\ k.age = l.age
        /\ k.gone = l.gone /\ k.status = s
    BY <2>2, LinkAnswered
  <2> QED
    BY <2>1, <2>3
<1>3. PICK l \in Links : l = (IF c = mine THEN k ELSE Idle) /\ (c # mine => l.pc = "idle")
  BY <1>2, LinkNew
<1>4. conn' = [conn EXCEPT ![c] = l]
  BY <1>1, <1>3 DEF Reply
<1>5. /\ conn' \in [Conns -> Links] /\ conn'[c] = l
      /\ \A x \in Conns : x # c => conn'[x] = conn[x]
  BY <1>4, LinkUpdate
<1> QED
  BY <1>2, <1>3, <1>5

\* A request is admitted to a free slot, or answered with 503.
LEMMA AdmitFacts ==
  ASSUME conn \in [Conns -> Links], NEW c \in Conns, Admit(c)
  PROVE  /\ conn[c].pc = "header"
         /\ \/ /\ slots < Slots /\ slots' = slots + 1
               /\ conn' \in [Conns -> Links]
               /\ conn'[c].pc = "body"
               /\ conn'[c].age = conn[c].age /\ conn'[c].gone = conn[c].gone
               /\ \A x \in Conns : x # c => conn'[x] = conn[x]
            \/ Reply(c, 503) /\ slots' = slots
<1>1. conn[c].pc = "header"
  BY DEF Admit
<1>2. CASE slots < Slots
  <2>1. PICK l : l = [conn[c] EXCEPT !.pc = "body"]
    OBVIOUS
  <2>2. l \in Links /\ l.pc = "body" /\ l.age = conn[c].age /\ l.gone = conn[c].gone
    <3>1. conn[c] \in Links
      OBVIOUS
    <3> QED
      BY <2>1, <3>1, LinkServed
  <2>3. conn' = [conn EXCEPT ![c] = l] /\ slots' = slots + 1
    BY <1>2, <2>1 DEF Admit
  <2> QED
    BY <1>1, <1>2, <2>2, <2>3, LinkUpdate
<1>3. CASE ~(slots < Slots)
  BY <1>1, <1>3 DEF Admit
<1> QED
  BY <1>2, <1>3

\* A client that leaves changes nothing else; its own request was not answered.
LEMMA LeaveFacts ==
  ASSUME conn \in [Conns -> Links], NEW c \in Conns, Leave(c)
  PROVE  /\ conn' \in [Conns -> Links] /\ slots' = slots
         /\ conn'[c].pc = conn[c].pc
         /\ \A x \in Conns : x # c => conn'[x] = conn[x]
<1>1. PICK l : l = [conn[c] EXCEPT !.gone = TRUE]
  OBVIOUS
<1>2. l \in Links /\ l.pc = conn[c].pc
  <2>1. conn[c] \in Links
    OBVIOUS
  <2> QED
    BY <1>1, <2>1, LinkServed
<1>3. conn' = [conn EXCEPT ![c] = l] /\ slots' = slots
  BY <1>1 DEF Leave
<1> QED
  BY <1>2, <1>3, LinkUpdate

\* Time passes: connections grow older by at most a step of the clock.
LEMMA PassFacts ==
  ASSUME conn \in [Conns -> Links], Pass
  PROVE  /\ conn' \in [Conns -> Links] /\ slots' = slots /\ mine' = mine
         /\ \A x \in Conns :
              /\ conn'[x].pc = conn[x].pc /\ conn'[x].gone = conn[x].gone
              /\ conn'[x].status = conn[x].status
              /\ conn'[x].age \in {conn[x].age, conn[x].age + Pace}
<1>1. Pace \in Nat
  BY Numbers
<1>2. ASSUME NEW l \in Links
      PROVE  /\ [l EXCEPT !.age = @ + Pace] \in Links
             /\ [l EXCEPT !.age = @ + Pace].pc = l.pc
             /\ [l EXCEPT !.age = @ + Pace].gone = l.gone
             /\ [l EXCEPT !.age = @ + Pace].status = l.status
             /\ [l EXCEPT !.age = @ + Pace].age = l.age + Pace
  BY <1>1 DEF Links
<1>3. /\ conn' = [x \in Conns |->
                    IF x \in Unserved /\ conn[x].age < ReadTimeout
                    THEN [conn[x] EXCEPT !.age = @ + Pace] ELSE conn[x]]
      /\ slots' = slots /\ mine' = mine
  BY DEF Pass
<1>4. ASSUME NEW x \in Conns
      PROVE  /\ conn'[x] \in Links
             /\ conn'[x].pc = conn[x].pc /\ conn'[x].gone = conn[x].gone
             /\ conn'[x].status = conn[x].status
             /\ conn'[x].age \in {conn[x].age, conn[x].age + Pace}
  <2>1. conn[x] \in Links
    OBVIOUS
  <2>2. conn'[x] = [conn[x] EXCEPT !.age = @ + Pace] \/ conn'[x] = conn[x]
    BY <1>3
  <2>3. CASE conn'[x] = conn[x]
    BY <2>1, <2>3
  <2>4. CASE conn'[x] = [conn[x] EXCEPT !.age = @ + Pace]
    BY <1>2, <2>1, <2>4
  <2> QED
    BY <2>2, <2>3, <2>4
<1>5. conn' = [x \in Conns |-> conn'[x]]
  BY <1>3
<1> QED
  BY <1>3, <1>4, <1>5

-----------------------------------------------------------------------------
(***************************************************************************)
(* The steps preserve the invariant.                                       *)
(***************************************************************************)

\* A worker's request of which all is well.
MineLink(l) ==
  /\ ~l.gone /\ l.age < ReadTimeout
  /\ l.pc = "answered" => l.status \in {0, 503, scenarioStatus(scenario, tries + 1)}

\* A step of the receiver alone: what it does to the worker's request is all that
\* matters.
LEMMA ReceiverStep ==
  ASSUME ScheduleInv, UNCHANGED scheduleVars,
         conn' \in [Conns -> Links], mine' \in Conns \cup {NULL}, slots' \in Int,
         mine' # NULL =>
           receiver = "demo" /\ state \in Unsettled /\ MineLink(conn'[mine'])
  PROVE  ScheduleInv'
<1>1. /\ receiver' = receiver /\ scenario' = scenario /\ state' = state
      /\ tries' = tries /\ status' = status /\ elapsed' = elapsed
      /\ disturbed' = disturbed
  BY DEF scheduleVars
<1>2. Shape'
  BY <1>1 DEF ScheduleInv, Shape
<1>3. ProgressOK'
  BY <1>1 DEF ScheduleInv, ProgressOK
<1>4. DeadLetterEarned' /\ StagesOK'
  BY <1>1 DEF ScheduleInv, DeadLetterEarned, StagesOK
<1>5. MineOK'
  BY <1>1 DEF MineOK, MineLink, scenarioStatus
<1> QED
  BY <1>2, <1>3, <1>4, <1>5 DEF ScheduleInv

\* The types that the steps of the receiver start from.
LEMMA ReceiverTypes ==
  ASSUME ScheduleInv
  PROVE  /\ conn \in [Conns -> Links] /\ mine \in Conns \cup {NULL} /\ slots \in Int
         /\ scenario \in Scenarios /\ tries \in 0..8
         /\ tries + 1 \in Nat /\ tries + 1 > 0
         /\ mine # NULL =>
              /\ mine \in Conns /\ conn[mine] \in Links /\ MineLink(conn[mine])
              /\ receiver = "demo" /\ state \in Unsettled
BY DEF ScheduleInv, Shape, MineOK, MineLink

\* An answer to somebody else, or to the worker if it is one of those that its
\* scenario and the slots allow.
LEMMA ReplyStep ==
  ASSUME ScheduleInv, UNCHANGED scheduleVars, mine' = mine, slots' \in Int,
         NEW c \in Conns, NEW s \in Statuses, Reply(c, s),
         c = mine => s \in {0, 503, scenarioStatus(scenario, tries + 1)}
  PROVE  ScheduleInv'
<1>1. /\ conn \in [Conns -> Links] /\ mine \in Conns \cup {NULL}
      /\ mine # NULL => /\ mine \in Conns /\ MineLink(conn[mine])
                        /\ receiver = "demo" /\ state \in Unsettled
  BY ReceiverTypes
<1>2. /\ conn' \in [Conns -> Links]
      /\ conn'[c].pc \in {"idle", "answered"}
      /\ c = mine => /\ conn'[c].age = conn[c].age /\ conn'[c].gone = conn[c].gone
                     /\ conn'[c].status = s
      /\ \A x \in Conns : x # c => conn'[x] = conn[x]
  <2>1. conn \in [Conns -> Links] /\ Reply(c, s)
    BY <1>1
  <2> QED
    BY <2>1, ReplyFacts
<1>3. mine # NULL => MineLink(conn'[mine])
  <2>1. CASE c = mine
    BY <1>1, <1>2, <2>1 DEF MineLink
  <2>2. CASE c # mine
    BY <1>1, <1>2, <2>2
  <2> QED
    BY <2>1, <2>2
<1> QED
  BY <1>1, <1>2, <1>3, ReceiverStep

\* The headers of a request are complete: it gets a slot or 503.
LEMMA AdmitStep ==
  ASSUME ScheduleInv, UNCHANGED scheduleVars, mine' = mine, NEW c \in Conns, Admit(c)
  PROVE  ScheduleInv'
<1>1. /\ conn \in [Conns -> Links] /\ mine \in Conns \cup {NULL} /\ slots \in Int
      /\ mine # NULL => /\ mine \in Conns /\ MineLink(conn[mine])
                        /\ receiver = "demo" /\ state \in Unsettled
  BY ReceiverTypes
<1>2. \/ /\ slots' = slots + 1
         /\ conn' \in [Conns -> Links]
         /\ conn'[c].pc = "body"
         /\ conn'[c].age = conn[c].age /\ conn'[c].gone = conn[c].gone
         /\ \A x \in Conns : x # c => conn'[x] = conn[x]
      \/ Reply(c, 503) /\ slots' = slots
  BY <1>1, AdmitFacts
<1>3. CASE Reply(c, 503) /\ slots' = slots
  <2>1. 503 \in Statuses /\ slots' \in Int
    BY <1>1, <1>3, StatusValues
  <2> QED
    BY <1>3, <2>1, ReplyStep
<1>4. CASE /\ slots' = slots + 1
           /\ conn' \in [Conns -> Links]
           /\ conn'[c].pc = "body"
           /\ conn'[c].age = conn[c].age /\ conn'[c].gone = conn[c].gone
           /\ \A x \in Conns : x # c => conn'[x] = conn[x]
  <2>1. mine # NULL => MineLink(conn'[mine])
    <3>1. CASE c = mine
      BY <1>1, <1>4, <3>1 DEF MineLink
    <3>2. CASE c # mine
      BY <1>1, <1>4, <3>2
    <3> QED
      BY <3>1, <3>2
  <2>2. slots' \in Int
    BY <1>1, <1>4
  <2> QED
    BY <1>1, <1>4, <2>1, <2>2, ReceiverStep
<1> QED
  BY <1>2, <1>3, <1>4

\* The handler of a request returns.
LEMMA ReturnStep ==
  ASSUME ScheduleInv, UNCHANGED scheduleVars, mine' = mine,
         NEW c \in Conns, NEW s \in Statuses, Return(c, s),
         c = mine => s = scenarioStatus(scenario, tries + 1)
  PROVE  ScheduleInv'
<1>1. Reply(c, s) /\ slots' = slots - 1
  BY DEF Return, Released
<1>2. slots \in Int
  BY ReceiverTypes
<1>3. slots' \in Int
  BY <1>1, <1>2
<1> QED
  BY <1>1, <1>3, ReplyStep

\* The worker's request reaches the receiver.
LEMMA SendArrivesStep ==
  ASSUME ScheduleInv, SendArrives
  PROVE  ScheduleInv'
<1>1. mine \in Conns /\ scenario \in Scenarios /\ tries + 1 \in Nat /\ tries + 1 > 0
  BY ReceiverTypes DEF SendArrives
<1>2. UNCHANGED scheduleVars /\ mine' = mine
  BY DEF SendArrives
<1>3. CASE Admit(mine)
  BY <1>1, <1>2, <1>3, AdmitStep
<1>4. CASE BodyRead(mine, "none", scenarioStatus(scenario, tries + 1))
  <2>1. PICK s : s = scenarioStatus(scenario, tries + 1)
    OBVIOUS
  <2>2. s \in Statuses
    <3>1. s \in {204, 503, 422}
      BY <1>1, <2>1, ScenarioAnswers
    <3> QED
      BY <3>1, StatusValues
  <2>3. Return(mine, s)
    BY <1>4, <2>1 DEF BodyRead
  <2> QED
    BY <1>1, <1>2, <2>1, <2>2, <2>3, ReturnStep
<1> QED
  BY <1>3, <1>4 DEF SendArrives

\* The worker sends a request.
LEMMA SendDemoStep ==
  ASSUME ScheduleInv, NEW c \in Conns, SendDemo(c)
  PROVE  ScheduleInv'
<1>1. conn \in [Conns -> Links] /\ slots \in Int
  BY ReceiverTypes
<1>2. /\ receiver = "demo" /\ state \in Unsettled /\ Open(c) /\ mine' = c
      /\ UNCHANGED scheduleVars
  BY DEF SendDemo, AttemptDue, Unsettled
<1>3. /\ conn' \in [Conns -> Links] /\ slots' = slots
      /\ conn'[c].pc = "header" /\ conn'[c].age = 0 /\ conn'[c].gone = FALSE
  BY <1>1, <1>2, OpenFacts
<1>4. MineLink(conn'[c])
  BY <1>3, Numbers, SMT DEF MineLink
<1>5. mine' \in Conns \cup {NULL} /\ slots' \in Int
  BY <1>1, <1>2, <1>3
<1> QED
  BY <1>2, <1>3, <1>4, <1>5, ReceiverStep

\* Time passes, but not beyond the client's timeout while its request is under way.
LEMMA PassDemoStep ==
  ASSUME ScheduleInv, PassDemo
  PROVE  ScheduleInv'
<1>1. /\ conn \in [Conns -> Links] /\ mine \in Conns \cup {NULL} /\ slots \in Int
      /\ mine # NULL =>
           /\ mine \in Conns /\ conn[mine] \in Links /\ MineLink(conn[mine])
           /\ receiver = "demo" /\ state \in Unsettled
  BY ReceiverTypes
<1>2. /\ Pass /\ UNCHANGED scheduleVars
      /\ mine # NULL => conn[mine].pc # "answered" /\ conn[mine].age < 10000
  BY Numbers, SMT DEF PassDemo
<1>3. /\ conn' \in [Conns -> Links] /\ slots' = slots /\ mine' = mine
      /\ \A x \in Conns :
           /\ conn'[x].pc = conn[x].pc /\ conn'[x].gone = conn[x].gone
           /\ conn'[x].age \in {conn[x].age, conn[x].age + Pace}
  BY <1>1, <1>2, PassFacts
<1>4. ASSUME mine # NULL
      PROVE  MineLink(conn'[mine'])
  <2>1. PICK a : a = conn[mine].age
    OBVIOUS
  <2>2. a \in Nat /\ a < 10000 /\ Pace \in Nat /\ Pace <= 5000 /\ ReadTimeout = 15000
    BY <1>1, <1>2, <1>4, <2>1, Numbers, SMT DEF Links
  <2>3. conn'[mine].age \in {a, a + Pace}
    BY <1>1, <1>3, <1>4, <2>1
  <2>4. conn'[mine].age < ReadTimeout
    BY <2>2, <2>3, SMT
  <2>5. conn'[mine].pc # "answered" /\ ~conn'[mine].gone
    BY <1>1, <1>2, <1>3, <1>4 DEF MineLink
  <2> QED
    BY <1>3, <2>4, <2>5 DEF MineLink
<1>5. mine' \in Conns \cup {NULL} /\ slots' \in Int
  BY <1>1, <1>3
<1> QED
  BY <1>1, <1>2, <1>3, <1>4, <1>5, ReceiverStep

\* The server's deadlines: they never end the worker's request with the 400 of an
\* unreadable body, because the worker gives up first.
LEMMA ServeDemoStep ==
  ASSUME ScheduleInv, NEW c \in Conns, ServeDemo(c)
  PROVE  ScheduleInv'
<1>1. /\ slots \in Int
      /\ mine # NULL => conn[mine] \in Links /\ MineLink(conn[mine])
  BY ReceiverTypes
<1>2. UNCHANGED scheduleVars /\ mine' = mine
  BY DEF ServeDemo
<1>3. 400 \in Statuses /\ 0 \in Statuses
  BY StatusValues
<1>4. CASE ReadFails(c)
  <2>1. ASSUME c = mine
        PROVE  FALSE
    <3>1. conn[c] \in Links /\ ~conn[c].gone /\ conn[c].age < ReadTimeout
      BY <1>1, <2>1, Numbers DEF MineLink
    <3>2. conn[c].age >= ReadTimeout \/ conn[c].gone
      BY <1>4 DEF ReadFails, Overdue
    <3> QED
      BY <3>1, <3>2, Numbers, SMT DEF Links
  <2>2. Return(c, 400)
    BY <1>4 DEF ReadFails
  <2> QED
    BY <1>2, <1>3, <2>1, <2>2, ReturnStep
<1>5. CASE HeaderFails(c)
  <2>1. Reply(c, 0) /\ slots' \in Int
    BY <1>1, <1>5 DEF HeaderFails
  <2> QED
    BY <1>2, <1>3, <2>1, ReplyStep
<1> QED
  BY <1>4, <1>5 DEF ServeDemo, Serve


\* The requests of other clients, with whatever flaws, leave the worker's alone.
LEMMA GuestStep ==
  ASSUME ScheduleInv, NEW c \in Conns, Guest(c), UNCHANGED scheduleVars
  PROVE  ScheduleInv'
<1>1. c # mine /\ mine' = mine
  BY DEF Guest
<1>2. /\ conn \in [Conns -> Links] /\ mine \in Conns \cup {NULL} /\ slots \in Int
      /\ mine # NULL => /\ mine \in Conns /\ MineLink(conn[mine])
                        /\ receiver = "demo" /\ state \in Unsettled
  BY ReceiverTypes
<1>3. CASE Open(c)
  <2>1. /\ conn' \in [Conns -> Links] /\ slots' = slots
        /\ \A x \in Conns : x # c => conn'[x] = conn[x]
    BY <1>2, <1>3, OpenFacts
  <2> QED
    BY <1>1, <1>2, <2>1, ReceiverStep
<1>4. CASE Leave(c)
  <2>1. /\ conn' \in [Conns -> Links] /\ slots' = slots
        /\ \A x \in Conns : x # c => conn'[x] = conn[x]
    BY <1>2, <1>4, LeaveFacts
  <2> QED
    BY <1>1, <1>2, <2>1, ReceiverStep
<1>5. CASE Admit(c)
  BY <1>1, <1>5, AdmitStep
<1>6. ASSUME NEW flaw \in EarlyFlaws, Reject(c, flaw)
      PROVE  ScheduleInv'
  <2>1. PICK s : s = Rejection(flaw)
    OBVIOUS
  <2>2. s \in Statuses
    BY <2>1, StatusValues DEF EarlyFlaws, Rejection
  <2>3. Reply(c, s) /\ slots' \in Int
    BY <1>2, <1>6, <2>1 DEF Reject
  <2> QED
    BY <1>1, <2>2, <2>3, ReplyStep
<1>7. ASSUME NEW flaw \in LateFlaws, BodyRead(c, flaw, 204)
      PROVE  ScheduleInv'
  <2>1. PICK s \in {413, 401, 204} : Return(c, s)
    BY <1>7 DEF BodyRead
  <2>2. s \in Statuses
    BY <2>1, StatusValues
  <2> QED
    BY <1>1, <2>1, <2>2, ReturnStep
<1> QED
  BY <1>3, <1>4, <1>5, <1>6, <1>7 DEF Guest, Arrives

\* An attempt at another destination.
LEMMA AttemptStep ==
  ASSUME ScheduleInv, Attempt
  PROVE  ScheduleInv'
<1>1. /\ Shape /\ ProgressOK /\ StagesOK /\ state \in Unsettled
      /\ receiver # "demo" /\ mine = NULL
  BY DEF ScheduleInv, MineOK, Attempt, AttemptDue, Unsettled
<1>2. conn' = conn /\ mine' = mine /\ slots' = slots /\ disturbed' = disturbed
  BY DEF Attempt, receiverVars
<1>3. PICK s \in Answers(tries + 1), took \in Durations : Settle(s, took)
  BY DEF Attempt
<1>4. /\ receiver \in Receivers /\ scenario \in Scenarios /\ tries \in 0..8
      /\ disturbed \in BOOLEAN
      /\ conn \in [Conns -> Links] /\ mine \in Conns \cup {NULL} /\ slots \in Int
  BY <1>1 DEF Shape
<1>5. tries + 1 \in Nat /\ tries + 1 > 0
  BY <1>4
<1>6. took \in Nat /\ took < 15000
  <2>1. took \in 0..10000
    BY <1>3, ScheduleAssumption, Numbers, SMT
  <2> QED
    BY <2>1, SMT
<1>7. PICK a : a = scenarioStatus(scenario, tries + 1)
  OBVIOUS
<1>8. /\ a \in {204, 503, 422}
      /\ sandbox_attempt(scenario, tries + 1) = a
      /\ events_post(scenario, tries + 1) = a
  BY <1>4, <1>5, <1>7, ScenarioAnswers, SimulatorsAgree
<1>9. CASE receiver = "unstable"
  <2>1. s \in UnstableStatus
    BY <1>3, <1>9 DEF Answers
  <2>2. s \in Int
    BY <2>1, ScheduleAssumption
  <2>3. Shape' /\ ProgressOK' /\ DeadLetterEarned' /\ StagesOK'
    BY <1>1, <1>2, <1>3, <1>4, <1>6, <1>9, <2>2, SettleInv
  <2>4. MineOK'
    BY <1>1, <1>2 DEF MineOK
  <2> QED
    BY <2>3, <2>4 DEF ScheduleInv
<1>10. CASE receiver # "unstable"
  <2>1. s = a
    BY <1>1, <1>3, <1>4, <1>8, <1>10 DEF Answers, Receivers
  <2>2. s \in Int
    BY <1>8, <2>1
  <2>3. Shape' /\ ProgressOK' /\ DeadLetterEarned' /\ StagesOK'
    BY <1>1, <1>2, <1>3, <1>4, <1>6, <1>7, <2>1, <2>2, SettleInv
  <2>4. MineOK'
    BY <1>1, <1>2 DEF MineOK
  <2> QED
    BY <2>3, <2>4 DEF ScheduleInv
<1> QED
  BY <1>9, <1>10

\* The demonstration receiver's answer, or its closing of the connection, is read.
LEMMA SendAnsweredStep ==
  ASSUME ScheduleInv, SendAnswered
  PROVE  ScheduleInv'
<1>1. /\ conn \in [Conns -> Links] /\ slots \in Int
      /\ scenario \in Scenarios /\ tries + 1 \in Nat /\ tries + 1 > 0
      /\ mine \in Conns /\ conn[mine] \in Links /\ MineLink(conn[mine])
      /\ receiver = "demo" /\ state \in Unsettled
  BY ReceiverTypes DEF SendAnswered
<1>2. Shape /\ ProgressOK /\ StagesOK
  BY DEF ScheduleInv
<1>3. PICK r, took, a : /\ r = conn[mine].status /\ took = conn[mine].age
                        /\ a = scenarioStatus(scenario, tries + 1)
  OBVIOUS
<1>4. PICK s : s = IF r = 0 THEN NoResponse ELSE r
  OBVIOUS
<1>5. /\ Settle(s, took)
      /\ disturbed' = (disturbed \/ r # a)
      /\ conn' = [conn EXCEPT ![mine] = Idle]
      /\ mine' = NULL /\ slots' = slots
      /\ conn[mine].pc = "answered"
  BY <1>3, <1>4 DEF SendAnswered
<1>6. r \in Statuses /\ took \in Nat /\ took < ReadTimeout
  BY <1>1, <1>3 DEF Links, MineLink
<1>7. took < 15000
  BY <1>6, Numbers, SMT
<1>8. r \in {0, 503, a} /\ a \in {204, 503, 422}
  BY <1>1, <1>3, <1>5, ScenarioAnswers DEF MineLink
<1>9. s \in Int /\ s \in {NoResponse, 503, a} /\ (r = a => s = a)
  BY <1>4, <1>6, <1>8 DEF NoResponse, Statuses
<1>10. disturbed' \in BOOLEAN /\ (disturbed => disturbed') /\ (~disturbed' => r = a)
  BY <1>2, <1>5 DEF Shape
<1>11. conn' \in [Conns -> Links]
  <2>1. PICK l \in Links : l = Idle
    BY LinkNew
  <2> QED
    BY <1>1, <1>5, <2>1, LinkUpdate
<1>12. Shape' /\ ProgressOK' /\ DeadLetterEarned' /\ StagesOK'
  <2>1. receiver # "unstable" => s \in {NoResponse, 503, scenarioStatus(scenario, tries + 1)}
    BY <1>3, <1>9
  <2>2. receiver # "unstable" /\ ~disturbed' => s = scenarioStatus(scenario, tries + 1)
    BY <1>3, <1>9, <1>10
  <2>3. mine' \in Conns \cup {NULL} /\ slots' \in Int
    BY <1>1, <1>5
  <2> QED
    BY <1>1, <1>2, <1>5, <1>6, <1>7, <1>9, <1>10, <1>11, <2>1, <2>2, <2>3, SettleInv
<1>13. MineOK'
  BY <1>5 DEF MineOK
<1> QED
  BY <1>12, <1>13 DEF ScheduleInv

\* The client's timeout, or a broken connection.
LEMMA SendFailsStep ==
  ASSUME ScheduleInv, SendFails
  PROVE  ScheduleInv'
<1>1. /\ conn \in [Conns -> Links] /\ slots \in Int
      /\ mine \in Conns /\ conn[mine] \in Links /\ MineLink(conn[mine])
      /\ receiver = "demo" /\ state \in Unsettled
  BY ReceiverTypes DEF SendFails
<1>2. Shape /\ ProgressOK /\ StagesOK
  BY DEF ScheduleInv
<1>3. PICK took : took = conn[mine].age
  OBVIOUS
<1>4. Leave(mine) /\ Settle(NoResponse, took) /\ disturbed' = TRUE /\ mine' = NULL
  BY <1>3 DEF SendFails
<1>5. took \in Nat /\ took < ReadTimeout
  BY <1>1, <1>3 DEF Links, MineLink
<1>6. took < 15000
  BY <1>5, Numbers, SMT
<1>7. conn' \in [Conns -> Links] /\ slots' = slots
  BY <1>1, <1>4, LeaveFacts
<1>8. NoResponse \in Int
  BY DEF NoResponse
<1>9. Shape' /\ ProgressOK' /\ DeadLetterEarned' /\ StagesOK'
  BY <1>1, <1>2, <1>4, <1>5, <1>6, <1>7, <1>8, SettleInv
<1>10. MineOK'
  BY <1>4 DEF MineOK
<1> QED
  BY <1>9, <1>10 DEF ScheduleInv

-----------------------------------------------------------------------------
(***************************************************************************)
(* The theorems.                                                           *)
(***************************************************************************)

\* An event begins at age zero and the receiver with no connection.
LEMMA ScheduleInit == Init => ScheduleInv
<1> SUFFICES ASSUME Init
             PROVE  ScheduleInv
  OBVIOUS
<1>1. Shape
  <2>1. conn = [c \in Conns |-> Idle] /\ mine = NULL /\ slots = 0
    BY DEF Init, ReceiverInit
  <2>2. conn \in [Conns -> Links]
    BY <2>1, LinkNew
  <2>3. mine \in Conns \cup {NULL} /\ slots \in Int
    BY <2>1
  <2>4. /\ receiver \in Receivers /\ scenario \in Scenarios /\ state = "pending"
        /\ tries = 0 /\ status = 0 /\ elapsed = 0 /\ disturbed = FALSE
    BY DEF Init
  <2>5. tries \in 0..8 /\ status \in Int /\ elapsed \in Nat
    BY <2>4
  <2>6. disturbed \in BOOLEAN /\ state \in Unsettled \cup {"delivered", "dead_lettered"}
    BY <2>4 DEF Unsettled
  <2> QED
    BY <2>2, <2>3, <2>4, <2>5, <2>6 DEF Shape
<1>2. ProgressOK
  <2>1. LatestDue(0) \in Nat
    BY LatestDueFacts
  <2>2. PICK L \in Nat : L = LatestDue(0)
    BY <2>1
  <2>3. tries = 0 /\ elapsed = 0 /\ state = "pending"
    BY DEF Init
  <2>4. LatestDue(tries) = L
    BY <2>2, <2>3
  <2>5. elapsed <= LatestDue(tries)
    BY <2>2, <2>3, <2>4
  <2> QED
    BY <2>3, <2>5 DEF ProgressOK
<1>3. DeadLetterEarned /\ StagesOK
  BY DEF Init, DeadLetterEarned, StagesOK
<1>4. MineOK
  BY DEF Init, ReceiverInit, MineOK
<1> QED
  BY <1>1, <1>2, <1>3, <1>4 DEF ScheduleInv

\* Every step of the worker, the receiver and its clients preserves the invariant.
LEMMA ScheduleStep == ScheduleInv /\ [Next]_vars => ScheduleInv'
<1> SUFFICES ASSUME ScheduleInv, [Next]_vars
             PROVE  ScheduleInv'
  OBVIOUS
<1>1. CASE Attempt
  BY <1>1, AttemptStep
<1>2. CASE SendArrives
  BY <1>2, SendArrivesStep
<1>3. CASE SendAnswered
  BY <1>3, SendAnsweredStep
<1>4. CASE SendFails
  BY <1>4, SendFailsStep
<1>5. CASE PassDemo
  BY <1>5, PassDemoStep
<1>6. ASSUME NEW c \in Conns, SendDemo(c)
      PROVE  ScheduleInv'
  BY <1>6, SendDemoStep
<1>7. ASSUME NEW c \in Conns, ServeDemo(c)
      PROVE  ScheduleInv'
  BY <1>7, ServeDemoStep
<1>8. ASSUME NEW c \in Conns, Guest(c), UNCHANGED scheduleVars
      PROVE  ScheduleInv'
  BY <1>8, GuestStep
<1>9. CASE UNCHANGED vars
  <2>1. UNCHANGED scheduleVars /\ conn' = conn /\ mine' = mine /\ slots' = slots
    BY <1>9 DEF vars, scheduleVars, receiverVars
  <2>2. /\ conn \in [Conns -> Links] /\ mine \in Conns \cup {NULL} /\ slots \in Int
        /\ mine # NULL => /\ MineLink(conn[mine])
                          /\ receiver = "demo" /\ state \in Unsettled
    BY ReceiverTypes
  <2> QED
    BY <2>1, <2>2, ReceiverStep
<1> QED
  BY <1>1, <1>2, <1>3, <1>4, <1>5, <1>6, <1>7, <1>8, <1>9 DEF Next

\* The inductive invariant holds: every attempt is due by LatestDue, no event is given
\* up early, undisturbed scenarios are at one of their stages, and the worker's request
\* is not older than the server's read timeout.
THEOREM ScheduleInvHolds == Spec => []ScheduleInv
BY ScheduleInit, ScheduleStep, PTL DEF Spec

\* The eighth attempt is due inside the 24-hour window, whatever the jitter and however
\* long the requests take (CanRetryAt, Claim and retry_delay).
THEOREM WindowTheorem == Spec => []BudgetFitsWindow
<1>1. ScheduleInv => BudgetFitsWindow
  <2> SUFFICES ASSUME ScheduleInv
               PROVE  elapsed < MaxAge
    BY DEF BudgetFitsWindow
  <2>1. tries \in 0..8 /\ elapsed \in Nat /\ elapsed <= LatestDue(tries)
    BY DEF ScheduleInv, Shape, ProgressOK
  <2>2. PICK L, W : L = LatestDue(tries) /\ W = MaxAge
    OBVIOUS
  <2>3. L \in Nat /\ W \in Nat /\ L + 15000 < W
    BY <2>1, <2>2, LatestDueFacts, Numbers, SMT
  <2> QED
    BY <2>1, <2>2, <2>3, SMT
<1> QED
  BY <1>1, ScheduleInvHolds, PTL

\* A dead-lettered event has had its eight attempts, unless its destination meant it:
\* neither a full receiver nor the server's own 400 ends it (record, HTTPOutcome).
THEOREM EarnedTheorem == Spec => []DeadLetterEarned
<1>1. ScheduleInv => DeadLetterEarned
  BY DEF ScheduleInv
<1> QED
  BY <1>1, ScheduleInvHolds, PTL

\* The sandbox, the fixture and the undisturbed demonstration receiver take every
\* scenario to the same end after the same number of attempts.
THEOREM ScenariosTheorem == Spec => []ScenariosEnd
<1>1. ScheduleInv => ScenariosEnd
  <2> SUFFICES ASSUME ScheduleInv, receiver # "unstable", ~disturbed
               PROVE  CASE scenario = "success" -> state = "delivered" \/ tries = 0
                        [] scenario = "temporary_failure" -> state = "delivered" <=> tries = 3
                        [] scenario = "permanent_failure" ->
                             state = "dead_lettered" \/ tries = 0
    BY DEF ScenariosEnd
  <2>1. \/ tries = 0 /\ state = "pending"
        \/ scenario = "success" /\ tries = 1 /\ state = "delivered"
        \/ scenario = "permanent_failure" /\ tries = 1 /\ state = "dead_lettered"
        \/ /\ scenario = "temporary_failure"
           /\ \/ tries \in {1, 2} /\ state = "retry_scheduled"
              \/ tries = 3 /\ state = "delivered"
    BY DEF ScheduleInv, StagesOK
  <2>2. scenario \in Scenarios
    BY DEF ScheduleInv, Shape
  <2>3. CASE scenario = "success"
    BY <2>1, <2>3
  <2>4. CASE scenario = "temporary_failure"
    <3>1. state = "delivered" <=> tries = 3
      BY <2>1, <2>4
    <3> QED
      BY <2>4, <3>1
  <2>5. CASE scenario = "permanent_failure"
    BY <2>1, <2>5
  <2> QED
    BY <2>2, <2>3, <2>4, <2>5 DEF Scenarios
<1> QED
  BY <1>1, ScheduleInvHolds, PTL

-----------------------------------------------------------------------------
(***************************************************************************)
(* The slots of the demonstration receiver.                                *)
(***************************************************************************)

\* No body begins or ends.
LEMMA SlotsSame ==
  ASSUME SlotsOK, slots' = slots,
         \A x \in Conns : conn'[x].pc = "body" <=> conn[x].pc = "body"
  PROVE  SlotsOK'
<1>1. Reading' = Reading
  BY DEF Reading
<1> QED
  BY <1>1 DEF SlotsOK

\* A body begins and a slot is taken.
LEMMA SlotTaken ==
  ASSUME SlotsOK, NEW c \in Conns, slots < Slots, slots' = slots + 1,
         conn[c].pc # "body", conn'[c].pc = "body",
         \A x \in Conns : x # c => conn'[x] = conn[x]
  PROVE  SlotsOK'
<1>1. Reading' = Reading \cup {c} /\ c \notin Reading
  BY DEF Reading
<1>2. IsFiniteSet(Reading) /\ Cardinality(Reading) = slots /\ slots \in 0..Slots
  BY DEF SlotsOK
<1>3. IsFiniteSet(Reading \cup {c}) /\ Cardinality(Reading \cup {c}) = Cardinality(Reading) + 1
  BY <1>1, <1>2, FS_AddElement
<1>4. slots' \in 0..Slots
  BY <1>2, Numbers, SMT
<1>5. IsFiniteSet(Reading') /\ Cardinality(Reading') = slots'
  BY <1>1, <1>2, <1>3
<1> QED
  BY <1>4, <1>5 DEF SlotsOK

\* A body ends and its slot is given back: there is one to give back.
LEMMA SlotReturned ==
  ASSUME SlotsOK, NEW c \in Conns, slots' = slots - 1,
         conn[c].pc = "body", conn'[c].pc # "body",
         \A x \in Conns : x # c => conn'[x] = conn[x]
  PROVE  SlotsOK'
<1>1. Reading' = Reading \ {c} /\ c \in Reading
  BY DEF Reading
<1>2. IsFiniteSet(Reading) /\ Cardinality(Reading) = slots /\ slots \in 0..Slots
  BY DEF SlotsOK
<1>3. /\ IsFiniteSet(Reading \ {c})
      /\ Cardinality(Reading \ {c}) = Cardinality(Reading) - 1
  BY <1>1, <1>2, FS_RemoveElement
<1>4. Cardinality(Reading \ {c}) \in Nat
  BY <1>3, FS_CardinalityType
<1>5. slots' \in 0..Slots
  BY <1>2, <1>3, <1>4, Numbers, SMT
<1>6. IsFiniteSet(Reading') /\ Cardinality(Reading') = slots'
  BY <1>1, <1>2, <1>3
<1> QED
  BY <1>5, <1>6 DEF SlotsOK

\* An answer before the body leaves the slots alone.
LEMMA ReplySlots ==
  ASSUME conn \in [Conns -> Links], SlotsOK, NEW c \in Conns, NEW s \in Statuses,
         conn[c].pc = "header", Reply(c, s), slots' = slots
  PROVE  SlotsOK'
<1>1. /\ conn' \in [Conns -> Links]
      /\ conn'[c].pc \in {"idle", "answered"}
      /\ c = mine => /\ conn'[c].age = conn[c].age /\ conn'[c].gone = conn[c].gone
                     /\ conn'[c].status = s
      /\ \A x \in Conns : x # c => conn'[x] = conn[x]
  BY ReplyFacts
<1>2. ASSUME NEW x \in Conns
      PROVE  conn'[x].pc = "body" <=> conn[x].pc = "body"
  BY <1>1
<1> QED
  BY <1>2, SlotsSame

\* Every return of the handler gives its slot back.
LEMMA ReturnSlots ==
  ASSUME conn \in [Conns -> Links], SlotsOK, NEW c \in Conns, NEW s \in Statuses,
         Return(c, s)
  PROVE  SlotsOK'
<1>1. conn[c].pc = "body" /\ slots' = slots - 1 /\ Reply(c, s)
  BY DEF Return, Released
<1>2. /\ conn' \in [Conns -> Links]
      /\ conn'[c].pc \in {"idle", "answered"}
      /\ c = mine => /\ conn'[c].age = conn[c].age /\ conn'[c].gone = conn[c].gone
                     /\ conn'[c].status = s
      /\ \A x \in Conns : x # c => conn'[x] = conn[x]
  BY <1>1, ReplyFacts
<1>3. conn'[c].pc # "body"
  BY <1>2
<1> QED
  BY <1>1, <1>2, <1>3, SlotReturned

\* A request is admitted only to a free slot.
LEMMA AdmitSlots ==
  ASSUME conn \in [Conns -> Links], SlotsOK, NEW c \in Conns, Admit(c)
  PROVE  SlotsOK'
<1>1. /\ conn[c].pc = "header"
      /\ \/ /\ slots < Slots /\ slots' = slots + 1
            /\ conn'[c].pc = "body"
            /\ \A x \in Conns : x # c => conn'[x] = conn[x]
         \/ Reply(c, 503) /\ slots' = slots
  BY AdmitFacts
<1>2. CASE Reply(c, 503) /\ slots' = slots
  <2>1. 503 \in Statuses
    BY StatusValues
  <2> QED
    BY <1>1, <1>2, <2>1, ReplySlots
<1>3. CASE /\ slots < Slots /\ slots' = slots + 1
           /\ conn'[c].pc = "body"
           /\ \A x \in Conns : x # c => conn'[x] = conn[x]
  <2>1. conn[c].pc # "body"
    BY <1>1
  <2> QED
    BY <1>3, <2>1, SlotTaken
<1> QED
  BY <1>1, <1>2, <1>3

\* Connections that open, or whose clients leave, take and give back no slot.
LEMMA ClientSlots ==
  ASSUME conn \in [Conns -> Links], SlotsOK, NEW c \in Conns, Open(c) \/ Leave(c)
  PROVE  SlotsOK'
<1>1. /\ slots' = slots
      /\ conn'[c].pc = "body" <=> conn[c].pc = "body"
      /\ \A x \in Conns : x # c => conn'[x] = conn[x]
  <2>1. CASE Open(c)
    BY <2>1, OpenFacts
  <2>2. CASE Leave(c)
    BY <2>2, LeaveFacts
  <2> QED
    BY <2>1, <2>2
<1>2. ASSUME NEW x \in Conns
      PROVE  conn'[x].pc = "body" <=> conn[x].pc = "body"
  BY <1>1
<1> QED
  BY <1>1, <1>2, SlotsSame

\* Every step keeps the account of the slots.
LEMMA SlotsStep == ScheduleInv /\ SlotsOK /\ [Next]_vars => SlotsOK'
<1> SUFFICES ASSUME ScheduleInv, SlotsOK, [Next]_vars
             PROVE  SlotsOK'
  OBVIOUS
<1>1. /\ conn \in [Conns -> Links]
      /\ scenario \in Scenarios /\ tries + 1 \in Nat /\ tries + 1 > 0
      /\ mine # NULL => mine \in Conns
  BY ReceiverTypes
<1>2. CASE conn' = conn /\ slots' = slots
  BY <1>2, SlotsSame
<1>3. CASE Attempt
  BY <1>2, <1>3 DEF Attempt, receiverVars
<1>4. CASE SendArrives
  <2>1. mine \in Conns
    BY <1>1, <1>4 DEF SendArrives
  <2>2. CASE Admit(mine)
    BY <1>1, <2>1, <2>2, AdmitSlots
  <2>3. CASE BodyRead(mine, "none", scenarioStatus(scenario, tries + 1))
    <3>1. PICK s : s = scenarioStatus(scenario, tries + 1)
      OBVIOUS
    <3>2. s \in {204, 503, 422}
      BY <1>1, <3>1, ScenarioAnswers
    <3>3. s \in Statuses /\ Return(mine, s)
      BY <2>3, <3>1, <3>2, StatusValues DEF BodyRead
    <3> QED
      BY <1>1, <2>1, <3>3, ReturnSlots
  <2> QED
    BY <1>4, <2>2, <2>3 DEF SendArrives
<1>5. CASE SendAnswered
  <2>1. /\ mine \in Conns /\ conn[mine].pc = "answered" /\ slots' = slots
        /\ conn' = [conn EXCEPT ![mine] = Idle]
    BY <1>1, <1>5 DEF SendAnswered
  <2>2. PICK l \in Links : l = Idle /\ l.pc = "idle"
    BY LinkNew
  <2>3. conn'[mine] = l /\ \A x \in Conns : x # mine => conn'[x] = conn[x]
    BY <1>1, <2>1, <2>2, LinkUpdate
  <2>4. ASSUME NEW x \in Conns
        PROVE  conn'[x].pc = "body" <=> conn[x].pc = "body"
    BY <2>1, <2>2, <2>3
  <2> QED
    BY <2>1, <2>4, SlotsSame
<1>6. CASE SendFails
  BY <1>1, <1>6, ClientSlots DEF SendFails
<1>7. CASE PassDemo
  <2>1. slots' = slots /\ \A x \in Conns : conn'[x].pc = conn[x].pc
    BY <1>1, <1>7, PassFacts DEF PassDemo
  <2> QED
    BY <2>1, SlotsSame
<1>8. ASSUME NEW c \in Conns, SendDemo(c)
      PROVE  SlotsOK'
  BY <1>1, <1>8, ClientSlots DEF SendDemo
<1>9. ASSUME NEW c \in Conns, ServeDemo(c)
      PROVE  SlotsOK'
  <2>1. 400 \in Statuses /\ 0 \in Statuses
    BY StatusValues
  <2>2. CASE ReadFails(c)
    BY <1>1, <2>1, <2>2, ReturnSlots DEF ReadFails
  <2>3. CASE HeaderFails(c)
    BY <1>1, <2>1, <2>3, ReplySlots DEF HeaderFails
  <2> QED
    BY <1>9, <2>2, <2>3 DEF ServeDemo, Serve
<1>10. ASSUME NEW c \in Conns, Guest(c)
       PROVE  SlotsOK'
  <2>1. CASE Open(c) \/ Leave(c)
    BY <1>1, <2>1, ClientSlots
  <2>2. CASE Admit(c)
    BY <1>1, <2>2, AdmitSlots
  <2>3. ASSUME NEW flaw \in EarlyFlaws, Reject(c, flaw)
        PROVE  SlotsOK'
    <3>1. PICK s : s = Rejection(flaw)
      OBVIOUS
    <3>2. s \in Statuses
      BY <3>1, StatusValues DEF EarlyFlaws, Rejection
    <3>3. Reply(c, s) /\ slots' = slots /\ conn[c].pc = "header"
      BY <2>3, <3>1 DEF Reject
    <3> QED
      BY <1>1, <3>2, <3>3, ReplySlots
  <2>4. ASSUME NEW flaw \in LateFlaws, BodyRead(c, flaw, 204)
        PROVE  SlotsOK'
    <3>1. PICK s \in {413, 401, 204} : Return(c, s)
      BY <2>4 DEF BodyRead
    <3>2. s \in Statuses
      BY <3>1, StatusValues
    <3> QED
      BY <1>1, <3>1, <3>2, ReturnSlots
  <2> QED
    BY <1>10, <2>1, <2>2, <2>3, <2>4 DEF Guest, Arrives
<1>11. CASE UNCHANGED vars
  BY <1>2, <1>11 DEF vars, receiverVars
<1> QED
  BY <1>3, <1>4, <1>5, <1>6, <1>7, <1>8, <1>9, <1>10, <1>11 DEF Next

\* The slots of the demonstration receiver never exceed bodyBytesInFlightMax and none is
\* lost: exactly the bodies that are being read hold one, whichever way ServeHTTP returns.
THEOREM SlotsTheorem == Spec => []SlotsOK
<1>1. Init => SlotsOK
  <2> SUFFICES ASSUME Init
               PROVE  SlotsOK
    OBVIOUS
  <2>1. slots = 0 /\ conn = [c \in Conns |-> Idle]
    BY DEF Init, ReceiverInit
  <2>2. Idle.pc = "idle"
    BY LinkNew
  <2>3. Reading = {}
    BY <2>1, <2>2 DEF Reading
  <2>4. IsFiniteSet(Reading) /\ Cardinality(Reading) = 0
    BY <2>3, FS_EmptySet
  <2>5. 0 \in 0..Slots
    BY Numbers, SMT
  <2> QED
    BY <2>1, <2>4, <2>5 DEF SlotsOK
<1>2. ScheduleInv /\ SlotsOK /\ [Next]_vars => SlotsOK'
  BY SlotsStep
<1> QED
  BY <1>1, <1>2, ScheduleInvHolds, PTL DEF Spec
=============================================================================
