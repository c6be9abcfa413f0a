--------------------------- MODULE Receipt_proofs ---------------------------
(***************************************************************************)
(* Proofs about Receipt, for any number of requests, keys and bodies and   *)
(* any budgets: what a 202 and a 409 promise, that a dead-lettering is     *)
(* replayed once at most, and that a detail shows the history of its row.  *)
(***************************************************************************)
EXTENDS Receipt, FiniteSetTheorems, TLAPS

-----------------------------------------------------------------------------
(***************************************************************************)
(* The inductive invariant.                                                *)
(***************************************************************************)
Places == {"unsent", "writing", "reading", "detail_attempts", "publishing",
           "answered", "dead"}

Inputs == Receipts \cup Operations

RequestStates ==
  [pc : Places, input : Inputs \cup {NULL}, read : SUBSET Row,
   answer : Answers \cup {NULL}]

Shape ==
  /\ events \in [Keys -> Row \cup {NULL}]
  /\ attempts \subseteq Attempts
  /\ request \in [Requests -> RequestStates]
  /\ deaths \in [Ids -> Nat]

\* Which handler is where.
PlaceOK(r) ==
  /\ request[r].pc \in {"unsent", "dead"} => request[r].input = NULL
  /\ request[r].pc \in {"writing", "publishing"} =>
       request[r].input # NULL /\ request[r].input.kind \in {"receipt", "replay"}
  /\ request[r].pc = "reading" => request[r].input # NULL
  /\ request[r].pc = "detail_attempts" =>
       request[r].input # NULL /\ request[r].input.kind = "detail"

\* The receipt of r is durable once it is to be published or was answered, and
\* a conflict is one.
ReceiptOK(r) ==
  request[r].input # NULL /\ request[r].input.kind = "receipt" =>
    LET row == events[request[r].input.key]
    IN  /\ request[r].pc = "publishing" =>
             row # NULL /\ row.id = r /\ row.body = request[r].input.body
        /\ request[r].pc = "answered" /\ request[r].answer.status = 202 =>
             /\ row # NULL
             /\ row.id = request[r].answer.id
             /\ row.body = request[r].input.body
        /\ request[r].pc = "answered" /\ request[r].answer.status = 409 =>
             row # NULL /\ row.body # request[r].input.body

\* The attempts that the counters and the state of a row speak of are in S.
RowHistory(row, S) ==
  LET shown(n, outcome) ==
        \E a \in S : /\ a.event_id = row.id /\ a.replay_number = row.replay_count
                     /\ a.attempt_number = n /\ a.outcome = outcome
  IN  /\ \A n \in 1..(row.attempt_count - 1) : shown(n, "retryable_http")
      /\ row.state = "delivered" => shown(row.attempt_count, "delivered")
      /\ row.state = "retry_scheduled" => shown(row.attempt_count, "retryable_http")

\* A detail has read a row whose history is stored by now, and shows it.
DetailOK(r) ==
  /\ request[r].pc = "detail_attempts" =>
       \A row \in request[r].read :
         row.id = request[r].input.id /\ RowHistory(row, attempts)
  /\ /\ request[r].pc = "answered" /\ request[r].input # NULL
     /\ request[r].input.kind = "detail" /\ request[r].answer.status = 200
     => \A row \in request[r].answer.detail.row :
          RowHistory(row, request[r].answer.detail.attempts)

\* An accepted replay is of the event that was asked for.
ReplayOK(r) ==
  /\ request[r].pc = "answered" /\ request[r].input # NULL
  /\ request[r].input.kind = "replay" /\ request[r].answer.status = 202
  => request[r].answer.id = request[r].input.id

RequestsOK == \A r \in Requests : PlaceOK(r) /\ ReceiptOK(r) /\ DetailOK(r) /\ ReplayOK(r)

\* An id names one row, that of the request it is named after.
IdsOK ==
  /\ \A k \in Stored : request[events[k].id].pc \notin {"unsent", "writing"}
  /\ \A k, l \in Stored : events[k].id = events[l].id => k = l

\* The budget of a generation and its history.
RowOK(row, S) ==
  /\ row.state = "pending" => row.attempt_count = 0
  /\ row.state = "retry_scheduled" => row.attempt_count < MaxAttempts
  /\ row.state = "delivering" => row.attempt_count >= 1
  /\ RowHistory(row, S)

RowsOK == \A k \in Stored : RowOK(events[k], attempts)

\* The replays of event i that have committed and can be, or were, answered.
Replays(i) ==
  {r \in Requests :
     /\ request[r].input # NULL /\ request[r].input.kind = "replay"
     /\ request[r].input.id = i
     /\ \/ request[r].pc = "publishing"
        \/ request[r].pc = "answered" /\ request[r].answer.status = 202}

\* Every replay of a row had a dead-lettering of its own, and is at most one
\* request's.
DeathsOK ==
  /\ \A k \in Stored :
       /\ deaths[events[k].id] = events[k].replay_count
                                   + (IF events[k].state = "dead_lettered" THEN 1 ELSE 0)
       /\ Cardinality(Replays(events[k].id)) <= events[k].replay_count
  /\ \A i \in Ids : KeyOfId(i) = {} => deaths[i] = 0 /\ Replays(i) = {}

\* The inductive invariant.
ReceiptInv == Shape /\ RequestsOK /\ IdsOK /\ RowsOK /\ DeathsOK

-----------------------------------------------------------------------------
(***************************************************************************)
(* Requests.                                                               *)
(***************************************************************************)

\* Every answer of a handler is well-formed.
LEMMA ErrorType ==
  /\ \A status \in {400, 401, 404, 409, 413, 415, 503} :
       Error(status) \in Answers /\ Error(status).status = status
  /\ \A flaw \in AllFlaws : Error(Refusal(flaw)) \in Answers
  /\ [status |-> 200] \in Answers
BY DEF Error, Answers, Refusal, AllFlaws, ReceiptFlaws, OperatorFlaws

\* So is a 202.
LEMMA AcceptedType ==
  ASSUME NEW i \in Ids, NEW duplicate \in BOOLEAN
  PROVE  /\ Accepted(i, duplicate) \in Answers
         /\ Accepted(i, duplicate).status = 202
         /\ Accepted(i, duplicate).id = i
BY DEF Accepted, Answers

\* Answering changes the place and the answer of one request.
LEMMA AnswerFacts ==
  ASSUME Shape, NEW r \in Requests, NEW a \in Answers, Answer(r, a)
  PROVE  /\ request' \in [Requests -> RequestStates]
         /\ \A q \in Requests \ {r} : request'[q] = request[q]
         /\ request'[r].pc = "answered"
         /\ request'[r].input = request[r].input
         /\ request'[r].answer = a
<1>1. request[r] \in RequestStates
  BY DEF Shape
<1>2. [request[r] EXCEPT !.pc = "answered", !.answer = a] \in RequestStates
  BY <1>1 DEF RequestStates, Places
<1>3. request' = [request EXCEPT ![r] = [request[r] EXCEPT !.pc = "answered", !.answer = a]]
  BY DEF Answer, Shape
<1>4. request'[r] = [request[r] EXCEPT !.pc = "answered", !.answer = a]
  BY <1>3 DEF Shape
<1>5. /\ request' \in [Requests -> RequestStates]
      /\ \A q \in Requests \ {r} : request'[q] = request[q]
  BY <1>2, <1>3 DEF Shape
<1>6. /\ request'[r].pc = "answered"
      /\ request'[r].input = request[r].input
      /\ request'[r].answer = a
  BY <1>1, <1>4 DEF RequestStates
<1>. QED  BY <1>5, <1>6

\* Going on changes the place of one request.
LEMMA GotoFacts ==
  ASSUME Shape, NEW r \in Requests, NEW place \in Places, Goto(r, place)
  PROVE  /\ request' \in [Requests -> RequestStates]
         /\ \A q \in Requests \ {r} : request'[q] = request[q]
         /\ request'[r].pc = place
         /\ request'[r].input = request[r].input
<1>1. request[r] \in RequestStates
  BY DEF Shape
<1>2. [request[r] EXCEPT !.pc = place] \in RequestStates
  BY <1>1 DEF RequestStates
<1>3. request' = [request EXCEPT ![r] = [request[r] EXCEPT !.pc = place]]
  BY DEF Goto, Shape
<1>4. request'[r] = [request[r] EXCEPT !.pc = place]
  BY <1>3 DEF Shape
<1>5. /\ request' \in [Requests -> RequestStates]
      /\ \A q \in Requests \ {r} : request'[q] = request[q]
  BY <1>2, <1>3 DEF Shape
<1>6. request'[r].pc = place /\ request'[r].input = request[r].input
  BY <1>1, <1>4 DEF RequestStates
<1>. QED  BY <1>5, <1>6

\* A handler begins.
LEMMA BeginFacts ==
  ASSUME Shape, NEW r \in Requests, NEW input \in Inputs, NEW place \in Places,
         Begin(r, input, place)
  PROVE  /\ request' \in [Requests -> RequestStates]
         /\ \A q \in Requests \ {r} : request'[q] = request[q]
         /\ request'[r].pc = place
         /\ request'[r].input = input
<1>1. request[r] \in RequestStates
  BY DEF Shape
<1>2. [request[r] EXCEPT !.pc = place, !.input = input] \in RequestStates
  BY <1>1 DEF RequestStates
<1>3. request' = [request EXCEPT ![r] = [request[r] EXCEPT !.pc = place, !.input = input]]
  BY DEF Begin, Shape
<1>4. request'[r] = [request[r] EXCEPT !.pc = place, !.input = input]
  BY <1>3 DEF Shape
<1>5. /\ request' \in [Requests -> RequestStates]
      /\ \A q \in Requests \ {r} : request'[q] = request[q]
  BY <1>2, <1>3 DEF Shape
<1>6. request'[r].pc = place /\ request'[r].input = input
  BY <1>1, <1>4 DEF RequestStates
<1>. QED  BY <1>5, <1>6

\* What an input is.
LEMMA InputType ==
  ASSUME NEW input \in Inputs
  PROVE  /\ input # NULL
         /\ input.kind = "receipt" => input.key \in Keys /\ input.body \in Bodies
         /\ input.kind \in {"replay", "detail"} => input.id \in Ids
         /\ input \in Receipts => input.kind = "receipt"
         /\ input \in Operations => input.kind # "receipt"
         /\ input.flaw \in AllFlaws \cup {NULL}
<1>1. input # NULL
  BY NilAssumption DEF Inputs
<1>2. CASE input \in Receipts
  <2>1. input.kind = "receipt" /\ input.key \in Keys /\ input.body \in Bodies
    BY <1>2 DEF Receipts
  <2>2. input.flaw \in AllFlaws \cup {NULL}
    BY <1>2 DEF Receipts, AllFlaws
  <2>3. input \notin Operations
    BY <2>1 DEF Operations
  <2>. QED  BY <1>1, <1>2, <2>1, <2>2, <2>3
<1>3. CASE input \in Operations
  <2>1. /\ input.kind # "receipt"
        /\ input.kind \in {"replay", "detail"} => input.id \in Ids
    BY <1>3 DEF Operations
  <2>2. input.flaw \in AllFlaws \cup {NULL}
    BY <1>3 DEF Operations, AllFlaws, OperatorFlaws
  <2>3. input \notin Receipts
    BY <2>1 DEF Receipts
  <2>. QED  BY <1>1, <1>3, <2>1, <2>2, <2>3
<1>. QED  BY <1>2, <1>3 DEF Inputs

\* The rows that are stored.
LEMMA StoredType ==
  ASSUME Shape
  PROVE  \A k \in Stored :
           /\ k \in Keys /\ events[k] # NULL /\ events[k] \in Row
           /\ events[k].id \in Ids /\ events[k].id \in Requests
           /\ events[k].attempt_count \in Nat /\ events[k].replay_count \in Nat
           /\ events[k].attempt_count <= MaxAttempts
           /\ events[k].replay_count <= MaxReplays
BY ReceiptAssumption DEF Shape, Stored, Row, Ids

-----------------------------------------------------------------------------
(***************************************************************************)
(* A step of a handler that leaves the tables as they are.                 *)
(***************************************************************************)

\* The committed replays of an event do not grow in number when no request
\* joins them.
LEMMA ReplaysShrink ==
  ASSUME NEW i, Replays(i)' \subseteq Replays(i)
  PROVE  /\ Cardinality(Replays(i)') <= Cardinality(Replays(i))
         /\ Cardinality(Replays(i)) \in Nat /\ Cardinality(Replays(i)') \in Nat
<1>1. IsFiniteSet(Replays(i))
  BY FS_Subset, ReceiptAssumption DEF Replays
<1>2. IsFiniteSet(Replays(i)')
  BY <1>1, FS_Subset
<1>. QED  BY <1>1, <1>2, FS_Subset, FS_CardinalityType

\* It is enough to look at the request that moves.
LEMMA QuietStep ==
  ASSUME ReceiptInv, NEW r \in Requests, UNCHANGED <<events, attempts, deaths>>,
         request' \in [Requests -> RequestStates],
         \A q \in Requests \ {r} : request'[q] = request[q],
         PlaceOK(r)', ReceiptOK(r)', DetailOK(r)', ReplayOK(r)',
         request'[r].pc \in {"unsent", "writing"} => request[r].pc \in {"unsent", "writing"},
         \A i \in Ids : r \in Replays(i)' => r \in Replays(i)
  PROVE  ReceiptInv'
<1>. USE DEF ReceiptInv
<1>1. Shape'
  BY DEF Shape
<1>2. Stored' = Stored
  BY DEF Stored
<1>3. RequestsOK'
  <2>. SUFFICES ASSUME NEW q \in Requests, q # r
                PROVE  PlaceOK(q)' /\ ReceiptOK(q)' /\ DetailOK(q)' /\ ReplayOK(q)'
    BY DEF RequestsOK
  <2>1. request'[q] = request[q]
    OBVIOUS
  <2>. QED  BY <2>1 DEF RequestsOK, PlaceOK, ReceiptOK, DetailOK, ReplayOK
<1>4. IdsOK'
  BY <1>2, StoredType DEF IdsOK
<1>5. RowsOK'
  BY <1>2 DEF RowsOK, RowOK
<1>6. \A i \in Ids : Replays(i)' \subseteq Replays(i)
  BY DEF Replays
<1>7. \A i \in Ids : KeyOfId(i)' = KeyOfId(i)
  BY DEF KeyOfId, Stored
<1>8. DeathsOK'
  <2>1. ASSUME NEW k \in Stored
        PROVE  (Cardinality(Replays(events[k].id)) <= events[k].replay_count)'
    <3>1. PICK i \in Ids : i = events[k].id
      BY StoredType
    <3>2. Cardinality(Replays(i)) <= events[k].replay_count /\ events[k].replay_count \in Nat
      BY <3>1, StoredType DEF DeathsOK
    <3>3. /\ Cardinality(Replays(i)') <= Cardinality(Replays(i))
          /\ Cardinality(Replays(i)) \in Nat /\ Cardinality(Replays(i)') \in Nat
      BY <3>1, <1>6, ReplaysShrink
    <3>4. Cardinality(Replays(i)') <= events[k].replay_count
      BY <3>2, <3>3
    <3>5. events'[k].id = i /\ events'[k].replay_count = events[k].replay_count
      BY <3>1
    <3>. QED  BY <3>4, <3>5
  <2>. QED  BY <1>2, <1>6, <1>7, <2>1 DEF DeathsOK
<1>. QED  BY <1>1, <1>3, <1>4, <1>5, <1>8

\* An answer that promises nothing of the tables.
LEMMA PlainAnswer ==
  ASSUME ReceiptInv, NEW r \in Requests, NEW a \in Answers, Answer(r, a),
         UNCHANGED <<events, attempts, deaths>>,
         \/ request[r].input = NULL
         \/ a.status \notin {200, 202, 409}
         \/ a.status = 409 /\ request[r].input.kind = "replay"
         \/ a.status = 200 /\ request[r].input.kind \in {"overview", "list"}
  PROVE  ReceiptInv'
<1>1. /\ request' \in [Requests -> RequestStates]
      /\ \A q \in Requests \ {r} : request'[q] = request[q]
      /\ request'[r].pc = "answered"
      /\ request'[r].input = request[r].input
      /\ request'[r].answer = a
  BY AnswerFacts DEF ReceiptInv
<1>2. PlaceOK(r)' /\ ReceiptOK(r)' /\ DetailOK(r)' /\ ReplayOK(r)'
  BY <1>1 DEF PlaceOK, ReceiptOK, DetailOK, ReplayOK
<1>3. \A i \in Ids : r \notin Replays(i)'
  BY <1>1 DEF Replays
<1>. QED  BY <1>1, <1>2, <1>3, QuietStep

\* A handler goes on to a place where nothing is promised yet.
LEMMA PlainGoto ==
  ASSUME ReceiptInv, NEW r \in Requests, Goto(r, "reading"),
         request[r].input # NULL, UNCHANGED <<events, attempts, deaths>>
  PROVE  ReceiptInv'
<1>1. /\ request' \in [Requests -> RequestStates]
      /\ \A q \in Requests \ {r} : request'[q] = request[q]
      /\ request'[r].pc = "reading"
      /\ request'[r].input = request[r].input
  BY GotoFacts DEF ReceiptInv, Places
<1>2. PlaceOK(r)' /\ ReceiptOK(r)' /\ DetailOK(r)' /\ ReplayOK(r)'
  BY <1>1 DEF PlaceOK, ReceiptOK, DetailOK, ReplayOK
<1>3. \A i \in Ids : r \notin Replays(i)'
  BY <1>1 DEF Replays
<1>. QED  BY <1>1, <1>2, <1>3, QuietStep

\* A well-formed request is taken up.
LEMMA PlainBegin ==
  ASSUME ReceiptInv, NEW r \in Requests, request[r].pc = "unsent",
         NEW input \in Inputs, NEW place \in {"writing", "reading"},
         place = "writing" => input.kind \in {"receipt", "replay"},
         Begin(r, input, place), UNCHANGED <<events, attempts, deaths>>
  PROVE  ReceiptInv'
<1>1. /\ request' \in [Requests -> RequestStates]
      /\ \A q \in Requests \ {r} : request'[q] = request[q]
      /\ request'[r].pc = place
      /\ request'[r].input = input
  BY BeginFacts DEF ReceiptInv, Places
<1>2. PlaceOK(r)' /\ ReceiptOK(r)' /\ DetailOK(r)' /\ ReplayOK(r)'
  BY <1>1, InputType DEF PlaceOK, ReceiptOK, DetailOK, ReplayOK
<1>3. \A i \in Ids : r \notin Replays(i)'
  BY <1>1 DEF Replays
<1>. QED  BY <1>1, <1>2, <1>3, QuietStep

\* Validation: a request is refused, answered at once, or taken up.
LEMMA ArriveInv ==
  ASSUME ReceiptInv, NEW r \in Requests,
         \/ \E input \in Receipts : PostEvent(r, input)
         \/ \E input \in Operations : PostReplay(r, input) \/ Get(r, input)
  PROVE  ReceiptInv'
<1>1. PICK input \in Inputs :
        /\ request[r].pc = "unsent"
        /\ \/ input.flaw # NULL /\ Answer(r, Error(Refusal(input.flaw)))
           \/ input.kind \in {"receipt", "replay"} /\ Begin(r, input, "writing")
           \/ Answer(r, [status |-> 200])
           \/ Begin(r, input, "reading")
        /\ UNCHANGED <<events, attempts, deaths>>
  <2>1. CASE \E input \in Receipts : PostEvent(r, input)
    <3>1. PICK input \in Receipts : PostEvent(r, input)
      BY <2>1
    <3>2. input \in Inputs /\ input.kind = "receipt"
      BY InputType DEF Inputs
    <3>. QED  BY <3>1, <3>2 DEF PostEvent
  <2>2. CASE \E input \in Operations : PostReplay(r, input) \/ Get(r, input)
    <3>1. PICK input \in Operations : PostReplay(r, input) \/ Get(r, input)
      BY <2>2
    <3>2. input \in Inputs
      BY DEF Inputs
    <3>3. CASE PostReplay(r, input)
      BY <3>2, <3>3 DEF PostReplay
    <3>4. CASE Get(r, input)
      BY <3>2, <3>4 DEF Get
    <3>. QED  BY <3>1, <3>3, <3>4
  <2>. QED  BY <2>1, <2>2
<1>2. request[r].input = NULL
  BY <1>1 DEF ReceiptInv, RequestsOK, PlaceOK
<1>3. CASE input.flaw # NULL /\ Answer(r, Error(Refusal(input.flaw)))
  <2>1. Error(Refusal(input.flaw)) \in Answers
    BY <1>3, InputType, ErrorType
  <2>. QED  BY <1>1, <1>2, <1>3, <2>1, PlainAnswer
<1>4. CASE Answer(r, [status |-> 200])
  BY <1>1, <1>2, <1>4, ErrorType, PlainAnswer
<1>. QED  BY <1>1, <1>3, <1>4, PlainBegin

\* accept_existing answers for the row it has read.
LEMMA ReadExistingInv ==
  ASSUME ReceiptInv, NEW r \in Requests, ReadExisting(r) PROVE ReceiptInv'
<1>. DEFINE input == request[r].input
            row == events[input.key]
            a == accept_existing(r, row)
<1>1. request[r].pc = "reading" /\ input.kind = "receipt" /\ input # NULL
  BY DEF ReadExisting, Reading, ReceiptInv, RequestsOK, PlaceOK
<1>2. input \in Inputs /\ input.key \in Keys
  BY <1>1, InputType DEF ReceiptInv, Shape, RequestStates
<1>3. row = NULL \/ (row \in Row /\ row.id \in Ids)
  BY <1>2 DEF ReceiptInv, Shape, Row
<1>4. /\ a \in Answers
      /\ a.status \in {202, 409, 503}
      /\ a.status = 202 => row # NULL /\ a.id = row.id /\ row.body = input.body
      /\ a.status = 409 => row # NULL /\ row.body # input.body
  <2>1. CASE row = NULL
    BY <2>1, ErrorType DEF accept_existing
  <2>2. CASE row # NULL /\ row.body = input.body
    <3>1. a = Accepted(row.id, TRUE) /\ row.id \in Ids
      BY <1>3, <2>2 DEF accept_existing, SameDigest
    <3>2. PICK i \in Ids : i = row.id
      BY <3>1
    <3>3. Accepted(i, TRUE) \in Answers /\ Accepted(i, TRUE).status = 202
          /\ Accepted(i, TRUE).id = i
      BY AcceptedType
    <3>4. a = Accepted(i, TRUE)
      BY <3>1, <3>2
    <3>. HIDE DEF a
    <3>5. a \in Answers /\ a.status = 202 /\ a.id = i
      BY <3>3, <3>4
    <3>. HIDE DEF row, input
    <3>. QED  BY <2>2, <3>2, <3>5
  <2>3. CASE row # NULL /\ row.body # input.body
    BY <2>3, ErrorType DEF accept_existing, SameDigest
  <2>. QED  BY <2>1, <2>2, <2>3
<1>5. Answer(r, a) /\ UNCHANGED <<events, attempts, deaths>>
  BY DEF ReadExisting
<1>. HIDE DEF a
<1>6. /\ request' \in [Requests -> RequestStates]
      /\ \A q \in Requests \ {r} : request'[q] = request[q]
      /\ request'[r].pc = "answered"
      /\ request'[r].input = input
      /\ request'[r].answer = a
  BY <1>4, <1>5, AnswerFacts DEF ReceiptInv
<1>7. PlaceOK(r)' /\ DetailOK(r)' /\ ReplayOK(r)'
  BY <1>1, <1>6 DEF PlaceOK, DetailOK, ReplayOK
<1>8. ReceiptOK(r)'
  BY <1>4, <1>5, <1>6 DEF ReceiptOK
<1>9. \A i \in Ids : r \notin Replays(i)'
  BY <1>1, <1>6 DEF Replays
<1>. QED  BY <1>5, <1>6, <1>7, <1>8, <1>9, QuietStep

\* The answer of a receipt or a replay that has committed.
LEMMA PublishInv ==
  ASSUME ReceiptInv, NEW r \in Requests, Publish(r) PROVE ReceiptInv'
<1>. DEFINE input == request[r].input
            a == Accepted(CommittedId(r), input.kind = "replay")
<1>1. request[r].pc = "publishing" /\ input.kind \in {"receipt", "replay"} /\ input # NULL
  BY DEF Publish, ReceiptInv, RequestsOK, PlaceOK
<1>2. input \in Inputs
  BY <1>1 DEF ReceiptInv, Shape, RequestStates
<1>3. CommittedId(r) \in Ids
  BY <1>1, <1>2, InputType DEF CommittedId, Ids
<1>4. a \in Answers /\ a.status = 202 /\ a.id = CommittedId(r)
  BY <1>3, AcceptedType
<1>5. Answer(r, a) /\ UNCHANGED <<events, attempts, deaths>>
  BY DEF Publish
<1>. HIDE DEF a
<1>6. /\ request' \in [Requests -> RequestStates]
      /\ \A q \in Requests \ {r} : request'[q] = request[q]
      /\ request'[r].pc = "answered"
      /\ request'[r].input = input
      /\ request'[r].answer = a
  BY <1>4, <1>5, AnswerFacts DEF ReceiptInv
<1>7. PlaceOK(r)' /\ DetailOK(r)' /\ ReplayOK(r)'
  BY <1>1, <1>4, <1>6 DEF PlaceOK, DetailOK, ReplayOK, CommittedId
<1>8. ReceiptOK(r)'
  <2>1. ReceiptOK(r)
    BY DEF ReceiptInv, RequestsOK
  <2>. QED  BY <2>1, <1>1, <1>4, <1>5, <1>6 DEF ReceiptOK, CommittedId
<1>9. \A i \in Ids : r \in Replays(i)' => r \in Replays(i)
  BY <1>1, <1>6 DEF Replays
<1>. QED  BY <1>5, <1>6, <1>7, <1>8, <1>9, QuietStep

\* The first statement of a detail: the row, whose history is stored.
LEMMA DetailFirstInv ==
  ASSUME ReceiptInv, NEW r \in Requests, DetailFirst(r) PROVE ReceiptInv'
<1>. DEFINE input == request[r].input
            i == input.id
            found == {events[k] : k \in KeyOfId(i)}
<1>1. request[r].pc = "reading" /\ input.kind = "detail" /\ input # NULL
  BY DEF DetailFirst, Reading, ReceiptInv, RequestsOK, PlaceOK
<1>2. CASE KeyOfId(i) = {}
  <2>1. Answer(r, Error(404)) /\ UNCHANGED <<events, attempts, deaths>>
    BY <1>2 DEF DetailFirst
  <2>. QED  BY <2>1, ErrorType, PlainAnswer
<1>3. CASE KeyOfId(i) # {}
  <2>1. /\ request' = [request EXCEPT ![r].pc = "detail_attempts", ![r].read = found]
        /\ UNCHANGED <<events, attempts, deaths>>
    BY <1>3 DEF DetailFirst, Statement, DetailOrder
  <2>2. found \subseteq Row /\ \A row \in found : row.id = i /\ RowHistory(row, attempts)
    BY StoredType DEF KeyOfId, ReceiptInv, RowsOK, RowOK
  <2>. HIDE DEF found
  <2>3. request[r] \in RequestStates
    BY DEF ReceiptInv, Shape
  <2>4. request' = [request EXCEPT ![r] =
                      [request[r] EXCEPT !.pc = "detail_attempts", !.read = found]]
    BY <2>1 DEF ReceiptInv, Shape
  <2>5. [request[r] EXCEPT !.pc = "detail_attempts", !.read = found] \in RequestStates
    BY <2>2, <2>3 DEF RequestStates, Places
  <2>6. request'[r] = [request[r] EXCEPT !.pc = "detail_attempts", !.read = found]
    BY <2>4 DEF ReceiptInv, Shape
  <2>7. request'[r].pc = "detail_attempts" /\ request'[r].read = found /\ request'[r].input = input
    BY <2>3, <2>6 DEF RequestStates
  <2>8. /\ request' \in [Requests -> RequestStates]
        /\ \A q \in Requests \ {r} : request'[q] = request[q]
    BY <2>4, <2>5 DEF ReceiptInv, Shape
  <2>9. PlaceOK(r)' /\ ReceiptOK(r)' /\ ReplayOK(r)'
    BY <1>1, <2>7 DEF PlaceOK, ReceiptOK, ReplayOK
  <2>10. DetailOK(r)'
    BY <2>1, <2>2, <2>7 DEF DetailOK
  <2>11. \A j \in Ids : r \notin Replays(j)'
    BY <1>1, <2>7 DEF Replays
  <2>. QED  BY <2>1, <2>7, <2>8, <2>9, <2>10, <2>11, QuietStep
<1>. QED  BY <1>2, <1>3

\* The second: all attempts of that event, those of the row among them.
LEMMA DetailSecondInv ==
  ASSUME ReceiptInv, NEW r \in Requests, DetailSecond(r) PROVE ReceiptInv'
<1>. DEFINE input == request[r].input
            S == {x \in attempts : x.event_id = input.id}
            d == [row |-> request[r].read, attempts |-> S]
            a == [status |-> 200, detail |-> d]
<1>1. request[r].pc = "detail_attempts" /\ input.kind = "detail" /\ input # NULL
  BY DEF DetailSecond, ReceiptInv, RequestsOK, PlaceOK
<1>2. Answer(r, a) /\ UNCHANGED <<events, attempts, deaths>>
  BY DEF DetailSecond, DetailPart, DetailOrder, Statement
<1>3. request[r].read \subseteq Row /\ S \subseteq Attempts
  BY DEF ReceiptInv, Shape, RequestStates
<1>4. \A row \in request[r].read : RowHistory(row, S)
  BY <1>1 DEF ReceiptInv, RequestsOK, DetailOK, RowHistory
<1>. HIDE DEF S
<1>5. d \in [row : SUBSET Row, attempts : SUBSET Attempts] /\ d.row = request[r].read
      /\ d.attempts = S
  BY <1>3
<1>. HIDE DEF d
<1>6. a \in Answers /\ a.status = 200 /\ a.detail = d
  BY <1>5 DEF Answers
<1>. HIDE DEF a
<1>7. /\ request' \in [Requests -> RequestStates]
      /\ \A q \in Requests \ {r} : request'[q] = request[q]
      /\ request'[r].pc = "answered"
      /\ request'[r].input = input
      /\ request'[r].answer = a
  BY <1>2, <1>6, AnswerFacts DEF ReceiptInv
<1>8. PlaceOK(r)' /\ ReceiptOK(r)' /\ ReplayOK(r)'
  BY <1>1, <1>7 DEF PlaceOK, ReceiptOK, ReplayOK
<1>9. DetailOK(r)'
  BY <1>4, <1>5, <1>6, <1>7 DEF DetailOK
<1>10. \A j \in Ids : r \notin Replays(j)'
  BY <1>1, <1>7 DEF Replays
<1>. QED  BY <1>2, <1>7, <1>8, <1>9, <1>10, QuietStep

\* Nobody sees an answer.
LEMMA DieInv ==
  ASSUME ReceiptInv, NEW r \in Requests, Die(r) PROVE ReceiptInv'
<1>1. Dead \in RequestStates /\ Dead.pc = "dead" /\ Dead.input = NULL
  BY DEF Dead, RequestStates, Places
<1>2. /\ request' \in [Requests -> RequestStates]
      /\ \A q \in Requests \ {r} : request'[q] = request[q]
      /\ request'[r].pc = "dead" /\ request'[r].input = NULL
      /\ UNCHANGED <<events, attempts, deaths>>
  BY <1>1 DEF Die, ReceiptInv, Shape
<1>3. PlaceOK(r)' /\ ReceiptOK(r)' /\ DetailOK(r)' /\ ReplayOK(r)'
  BY <1>2 DEF PlaceOK, ReceiptOK, DetailOK, ReplayOK
<1>4. \A i \in Ids : r \notin Replays(i)'
  BY <1>2 DEF Replays
<1>. QED  BY <1>2, <1>3, <1>4, QuietStep

\* The other steps that leave the tables alone.
LEMMA PlainInv ==
  ASSUME ReceiptInv, NEW r \in Requests,
         \/ InsertConflict(r) \/ ReplayMiss(r) \/ ReadState(r)
         \/ ReadTable(r) \/ Unavailable(r)
  PROVE  ReceiptInv'
<1>0. request[r].pc \in {"writing", "reading", "detail_attempts"} => request[r].input # NULL
  BY DEF ReceiptInv, RequestsOK, PlaceOK
<1>1. CASE InsertConflict(r) \/ ReplayMiss(r)
  BY <1>0, <1>1, PlainGoto DEF InsertConflict, ReplayMiss, Writing
<1>2. CASE ReadState(r)
  <2>1. PICK status \in {404, 409} : Answer(r, Error(status))
    BY <1>2 DEF ReadState
  <2>2. request[r].input.kind = "replay" /\ UNCHANGED <<events, attempts, deaths>>
    BY <1>2 DEF ReadState, Reading
  <2>. QED  BY <2>1, <2>2, ErrorType, PlainAnswer
<1>3. CASE ReadTable(r)
  <2>1. /\ request[r].input.kind \in {"overview", "list"}
        /\ Answer(r, [status |-> 200]) /\ UNCHANGED <<events, attempts, deaths>>
    BY <1>3 DEF ReadTable, Reading
  <2>2. PICK a \in Answers : a = [status |-> 200]
    BY ErrorType
  <2>3. a.status = 200 /\ Answer(r, a)
    BY <2>1, <2>2
  <2>. QED  BY <2>1, <2>3, PlainAnswer
<1>4. CASE Unavailable(r)
  <2>1. Answer(r, Error(503)) /\ UNCHANGED <<events, attempts, deaths>>
    BY <1>4 DEF Unavailable
  <2>. QED  BY <2>1, ErrorType, PlainAnswer
<1>. QED  BY <1>1, <1>2, <1>3, <1>4

-----------------------------------------------------------------------------
(***************************************************************************)
(* A step that writes one row.                                             *)
(***************************************************************************)

\* More attempts show more.
LEMMA HistoryGrows ==
  ASSUME NEW row, NEW S, NEW T, S \subseteq T, RowHistory(row, S)
  PROVE  RowHistory(row, T)
BY DEF RowHistory

\* Row k becomes row; a stored row keeps its id and its body.
Writes(k, row) ==
  /\ events' = [events EXCEPT ![k] = row]
  /\ events[k] # NULL => row.id = events[k].id /\ row.body = events[k].body
  /\ attempts \subseteq attempts'

\* What is stored afterwards.
LEMMA WriteFacts ==
  ASSUME Shape, NEW k \in Keys, NEW row \in Row, Writes(k, row)
  PROVE  /\ events' \in [Keys -> Row \cup {NULL}]
         /\ events'[k] = row /\ row # NULL
         /\ \A l \in Keys \ {k} : events'[l] = events[l]
         /\ Stored' = Stored \cup {k}
BY NilAssumption DEF Shape, Writes, Stored

\* What was promised to a request that does not move remains true.
LEMMA BystanderOK ==
  ASSUME ReceiptInv, NEW k \in Keys, NEW row \in Row, Writes(k, row),
         NEW q \in Requests, request'[q] = request[q]
  PROVE  PlaceOK(q)' /\ ReceiptOK(q)' /\ DetailOK(q)' /\ ReplayOK(q)'
<1>0. Shape /\ PlaceOK(q) /\ ReceiptOK(q) /\ DetailOK(q) /\ ReplayOK(q)
  BY DEF ReceiptInv, RequestsOK
<1>1. PlaceOK(q)' /\ ReplayOK(q)'
  BY <1>0 DEF PlaceOK, ReplayOK
<1>2. ReceiptOK(q)'
  <2>1. request[q].input # NULL /\ request[q].input.kind = "receipt" =>
          request[q].input.key \in Keys
    BY <1>0, InputType DEF Shape, RequestStates
  <2>2. \A l \in Keys : events[l] # NULL =>
          /\ events'[l] # NULL
          /\ events'[l].id = events[l].id /\ events'[l].body = events[l].body
    BY <1>0, WriteFacts DEF Writes
  <2>. QED  BY <1>0, <2>1, <2>2 DEF ReceiptOK
<1>3. DetailOK(q)'
  <2>1. \A x : RowHistory(x, attempts) => RowHistory(x, attempts')
    BY HistoryGrows DEF Writes
  <2>. QED  BY <1>0, <2>1 DEF DetailOK
<1>. QED  BY <1>1, <1>2, <1>3

\* It is enough to look at the row, and at the committed replays of its id.
LEMMA WriteStep ==
  ASSUME ReceiptInv, NEW k \in Keys, NEW row \in Row, Writes(k, row),
         Shape', RequestsOK', RowOK(row, attempts'),
         events[k] = NULL => \A l \in Stored : events[l].id # row.id,
         \A q \in Requests :
           request[q].pc \notin {"unsent", "writing"} => request'[q].pc \notin {"unsent", "writing"},
         request'[row.id].pc \notin {"unsent", "writing"},
         deaths'[row.id] = row.replay_count + (IF row.state = "dead_lettered" THEN 1 ELSE 0),
         Cardinality(Replays(row.id)') <= row.replay_count,
         \A i \in Ids \ {row.id} : deaths'[i] = deaths[i] /\ Replays(i)' \subseteq Replays(i)
  PROVE  ReceiptInv'
<1>0. /\ events'[k] = row /\ row # NULL
      /\ \A l \in Keys \ {k} : events'[l] = events[l]
      /\ Stored' = Stored \cup {k}
  BY WriteFacts DEF ReceiptInv
<1>1. \A l \in Stored : l # k => events[l].id # row.id
  BY DEF Writes, ReceiptInv, IdsOK, Stored
<1>2. IdsOK'
  <2>1. \A l \in Stored' : request'[events'[l].id].pc \notin {"unsent", "writing"}
    BY <1>0, StoredType DEF ReceiptInv, IdsOK
  <2>2. \A l, n \in Stored' : events'[l].id = events'[n].id => l = n
    BY <1>0, <1>1, StoredType DEF ReceiptInv, IdsOK
  <2>. QED  BY <2>1, <2>2 DEF IdsOK
<1>3. RowsOK'
  <2>. SUFFICES ASSUME NEW l \in Stored, l # k PROVE RowOK(events[l], attempts')
    BY <1>0, StoredType DEF RowsOK, ReceiptInv
  <2>1. RowOK(events[l], attempts)
    BY DEF ReceiptInv, RowsOK
  <2>. QED  BY <2>1, HistoryGrows DEF RowOK, Writes
<1>4. DeathsOK'
  <2>1. ASSUME NEW l \in Stored, l # k
        PROVE  /\ deaths'[events[l].id] = events[l].replay_count
                    + (IF events[l].state = "dead_lettered" THEN 1 ELSE 0)
               /\ \A i \in Ids : i = events[l].id => Cardinality(Replays(i)') <= events[l].replay_count
    <3>1. PICK i \in Ids : i = events[l].id
      BY StoredType DEF ReceiptInv
    <3>2. i # row.id
      BY <1>1, <2>1, <3>1
    <3>3. Cardinality(Replays(i)) <= events[l].replay_count /\ events[l].replay_count \in Nat
      BY <3>1, StoredType DEF ReceiptInv, DeathsOK
    <3>4. /\ Cardinality(Replays(i)') <= Cardinality(Replays(i))
          /\ Cardinality(Replays(i)) \in Nat /\ Cardinality(Replays(i)') \in Nat
      BY <3>2, ReplaysShrink
    <3>5. Cardinality(Replays(i)') <= events[l].replay_count
      BY <3>3, <3>4
    <3>6. deaths'[i] = events[l].replay_count
                    + (IF events[l].state = "dead_lettered" THEN 1 ELSE 0)
      BY <3>1, <3>2 DEF ReceiptInv, DeathsOK
    <3>. QED  BY <3>1, <3>5, <3>6
  <2>2. ASSUME NEW l \in Stored'
        PROVE  (/\ deaths[events[l].id] = events[l].replay_count
                     + (IF events[l].state = "dead_lettered" THEN 1 ELSE 0)
                /\ Cardinality(Replays(events[l].id)) <= events[l].replay_count)'
    <3>1. CASE l = k
      <4>1. events'[l] = row
        BY <1>0, <3>1
      <4>. QED  BY <4>1
    <3>2. CASE l # k
      <4>1. l \in Stored /\ events'[l] = events[l]
        BY <1>0, <3>2, StoredType DEF ReceiptInv
      <4>2. PICK i \in Ids : i = events[l].id
        BY <4>1, StoredType DEF ReceiptInv
      <4>3. Cardinality(Replays(i)') <= events[l].replay_count
        BY <2>1, <3>2, <4>1, <4>2
      <4>4. events'[l].id = i
        BY <4>1, <4>2
      <4>. QED  BY <2>1, <3>2, <4>1, <4>2, <4>3, <4>4
    <3>. QED  BY <3>1, <3>2
  <2>3. ASSUME NEW i \in Ids, KeyOfId(i)' = {}
        PROVE  deaths'[i] = 0 /\ Replays(i)' = {}
    <3>1. i # row.id
      BY <1>0, <2>3 DEF KeyOfId
    <3>2. KeyOfId(i) = {}
      BY <1>0, <2>3, StoredType DEF KeyOfId, ReceiptInv, Writes, Stored
    <3>. QED  BY <3>1, <3>2 DEF ReceiptInv, DeathsOK
  <2>. QED  BY <2>2, <2>3 DEF DeathsOK
<1>. QED  BY <1>2, <1>3, <1>4 DEF ReceiptInv

\* A worker's write: the requests do not move.
LEMMA WorkStep ==
  ASSUME ReceiptInv, NEW k \in Stored, NEW row \in Row, Writes(k, row),
         UNCHANGED request, attempts' \subseteq Attempts, deaths' \in [Ids -> Nat],
         row.replay_count = events[k].replay_count, RowOK(row, attempts'),
         deaths'[row.id] = row.replay_count + (IF row.state = "dead_lettered" THEN 1 ELSE 0),
         \A i \in Ids \ {row.id} : deaths'[i] = deaths[i]
  PROVE  ReceiptInv'
<1>1. k \in Keys /\ events[k] # NULL /\ row.id = events[k].id /\ row.id \in Requests
  BY StoredType DEF ReceiptInv, Writes
<1>2. Shape'
  BY <1>1, WriteFacts DEF ReceiptInv, Shape
<1>3. RequestsOK'
  BY <1>1, BystanderOK DEF RequestsOK
<1>4. \A i \in Ids : Replays(i)' = Replays(i)
  BY DEF Replays
<1>5. Cardinality(Replays(row.id)) <= row.replay_count
  BY <1>1 DEF ReceiptInv, DeathsOK
<1>6. request[row.id].pc \notin {"unsent", "writing"}
  BY <1>1 DEF ReceiptInv, IdsOK
<1>7. row.id \in Ids
  BY <1>1 DEF Ids
<1>8. Cardinality(Replays(row.id)') <= row.replay_count
  BY <1>4, <1>5, <1>7
<1>. QED  BY <1>1, <1>2, <1>3, <1>4, <1>6, <1>8, WriteStep

\* The row with another state and other counters.
Rewritten(row, s, n, p) ==
  [row EXCEPT !.state = s, !.attempt_count = n, !.replay_count = p]

\* Claim counts an attempt that the budget allows.
LEMMA ClaimInv ==
  ASSUME ReceiptInv, NEW k \in Keys, Claim(k) PROVE ReceiptInv'
<1>. DEFINE old == events[k]
            new == Rewritten(old, "delivering", old.attempt_count + 1, old.replay_count)
<1>1. k \in Stored /\ old \in Row
  BY DEF Claim, Stored, ReceiptInv, Shape
<1>2. /\ old.state \in {"pending", "retry_scheduled"}
      /\ old.attempt_count \in Nat /\ old.attempt_count < MaxAttempts
      /\ old.replay_count \in 0..MaxReplays
      /\ RowOK(old, attempts)
  BY <1>1, ReceiptAssumption DEF Claim, ReceiptInv, RowsOK, RowOK, Row
<1>3. /\ new.id = old.id /\ new.body = old.body /\ new.state = "delivering"
      /\ new.attempt_count = old.attempt_count + 1 /\ new.replay_count = old.replay_count
      /\ new \in Row
  <2>1. old.attempt_count + 1 \in 0..MaxAttempts
    BY <1>2, ReceiptAssumption
  <2>. HIDE DEF old
  <2>. QED  BY <1>1, <1>2, <2>1 DEF Row, Rewritten
<1>4. events' = [events EXCEPT ![k] = new] /\ UNCHANGED <<attempts, request, deaths>>
  <2>1. new = [old EXCEPT !.state = "delivering", !.attempt_count = old.attempt_count + 1]
    BY <1>1 DEF Row, Rewritten
  <2>. QED  BY <2>1 DEF Claim, ReceiptInv, Shape
<1>. HIDE DEF new
<1>5. RowOK(new, attempts)
  BY <1>2, <1>3 DEF RowOK, RowHistory
<1>6. Writes(k, new)
  BY <1>3, <1>4 DEF Writes
<1>7. deaths'[new.id] = new.replay_count + (IF new.state = "dead_lettered" THEN 1 ELSE 0)
  BY <1>1, <1>2, <1>3, <1>4 DEF ReceiptInv, DeathsOK
<1>. QED  BY <1>1, <1>3, <1>4, <1>5, <1>6, <1>7, WorkStep DEF ReceiptInv, Shape

\* A row that leaves the workers: its dead-lettering is counted, if it is one.
LEMMA SettleFacts ==
  ASSUME ReceiptInv, NEW k \in Stored, events[k].state # "dead_lettered",
         NEW state \in {"delivered", "retry_scheduled", "dead_lettered"}, Settle(k, state)
  PROVE  \E new \in Row :
           /\ events' = [events EXCEPT ![k] = new]
           /\ new.id = events[k].id /\ new.body = events[k].body /\ new.state = state
           /\ new.attempt_count = events[k].attempt_count
           /\ new.replay_count = events[k].replay_count
           /\ deaths' \in [Ids -> Nat]
           /\ deaths'[new.id] = new.replay_count + (IF new.state = "dead_lettered" THEN 1 ELSE 0)
           /\ \A i \in Ids \ {new.id} : deaths'[i] = deaths[i]
<1>. DEFINE old == events[k]
            new == Rewritten(old, state, old.attempt_count, old.replay_count)
<1>1. /\ old \in Row /\ old.id \in Ids
      /\ old.attempt_count \in 0..MaxAttempts /\ old.replay_count \in 0..MaxReplays
  BY StoredType, ReceiptAssumption DEF ReceiptInv
<1>2. /\ new.id = old.id /\ new.body = old.body /\ new.state = state
      /\ new.attempt_count = old.attempt_count /\ new.replay_count = old.replay_count
      /\ new \in Row
  <2>. HIDE DEF old
  <2>. QED  BY <1>1 DEF Row, Rewritten
<1>3. events' = [events EXCEPT ![k] = new]
  <2>1. new = [old EXCEPT !.state = state]
    BY <1>1 DEF Row, Rewritten
  <2>. QED  BY <2>1 DEF Settle, ReceiptInv, Shape
<1>. HIDE DEF new
<1>4. deaths[old.id] = old.replay_count
  BY <1>1 DEF ReceiptInv, DeathsOK
<1>5. /\ deaths' \in [Ids -> Nat]
      /\ deaths'[old.id] = deaths[old.id] + (IF state = "dead_lettered" THEN 1 ELSE 0)
      /\ \A i \in Ids \ {old.id} : deaths'[i] = deaths[i]
  BY <1>1 DEF Settle, ReceiptInv, Shape
<1>. QED  BY <1>2, <1>3, <1>4, <1>5

\* Retire records nothing: a dead-lettered row promises no last attempt.
LEMMA RetireInv ==
  ASSUME ReceiptInv, NEW k \in Keys, Retire(k) PROVE ReceiptInv'
<1>1. k \in Stored /\ events[k].state # "dead_lettered" /\ Settle(k, "dead_lettered")
      /\ UNCHANGED <<attempts, request>>
  BY DEF Retire, Stored
<1>2. PICK new \in Row :
           /\ events' = [events EXCEPT ![k] = new]
           /\ new.id = events[k].id /\ new.body = events[k].body
           /\ new.state = "dead_lettered"
           /\ new.attempt_count = events[k].attempt_count
           /\ new.replay_count = events[k].replay_count
           /\ deaths' \in [Ids -> Nat]
           /\ deaths'[new.id] = new.replay_count + (IF new.state = "dead_lettered" THEN 1 ELSE 0)
           /\ \A i \in Ids \ {new.id} : deaths'[i] = deaths[i]
  BY <1>1, SettleFacts
<1>3. RowOK(new, attempts)
  <2>1. RowOK(events[k], attempts)
    BY <1>1 DEF ReceiptInv, RowsOK
  <2>. QED  BY <1>2, <2>1 DEF RowOK, RowHistory
<1>4. Writes(k, new)
  BY <1>1, <1>2 DEF Writes
<1>. QED  BY <1>1, <1>2, <1>3, <1>4, WorkStep DEF ReceiptInv, Shape

\* Record adds the attempt that the new state of the row speaks of.
LEMMA RecordInv ==
  ASSUME ReceiptInv, NEW k \in Keys,
         NEW outcome \in {"delivered", "retryable_http", "terminal_http"},
         Record(k, outcome)
  PROVE  ReceiptInv'
<1>. DEFINE old == events[k]
            e == [event_id |-> old.id, replay_number |-> old.replay_count,
                  attempt_number |-> old.attempt_count, outcome |-> outcome]
<1>1. /\ k \in Stored /\ old.state = "delivering" /\ UNCHANGED request
      /\ attempts' = attempts \cup {e}
  BY DEF Record, Stored
<1>2. /\ old.id \in Ids
      /\ old.attempt_count \in 1..MaxAttempts /\ old.replay_count \in 0..MaxReplays
      /\ RowOK(old, attempts)
  BY <1>1, StoredType, ReceiptAssumption DEF ReceiptInv, RowsOK, RowOK
<1>3. /\ e \in Attempts /\ e.event_id = old.id /\ e.replay_number = old.replay_count
      /\ e.attempt_number = old.attempt_count /\ e.outcome = outcome
  BY <1>2 DEF Attempts
<1>. HIDE DEF e
<1>4. PICK state : state = RecordState(old, outcome)
  OBVIOUS
<1>5. /\ state \in {"delivered", "retry_scheduled", "dead_lettered"}
      /\ state = "delivered" => outcome = "delivered"
      /\ state = "retry_scheduled" =>
           outcome = "retryable_http" /\ old.attempt_count < MaxAttempts
  BY <1>4 DEF RecordState
<1>6. Settle(k, state)
  BY <1>4 DEF Record
<1>7. PICK new \in Row :
           /\ events' = [events EXCEPT ![k] = new]
           /\ new.id = old.id /\ new.body = old.body /\ new.state = state
           /\ new.attempt_count = old.attempt_count
           /\ new.replay_count = old.replay_count
           /\ deaths' \in [Ids -> Nat]
           /\ deaths'[new.id] = new.replay_count + (IF new.state = "dead_lettered" THEN 1 ELSE 0)
           /\ \A i \in Ids \ {new.id} : deaths'[i] = deaths[i]
  BY <1>1, <1>5, <1>6, SettleFacts
<1>8. RowOK(new, attempts')
  <2>1. \A n \in 1..(new.attempt_count - 1) : \E a \in attempts :
            /\ a.event_id = new.id /\ a.replay_number = new.replay_count
            /\ a.attempt_number = n /\ a.outcome = "retryable_http"
    BY <1>2, <1>7 DEF RowOK, RowHistory
  <2>2. e \in attempts' /\ attempts \subseteq attempts'
    BY <1>1
  <2>3. RowHistory(new, attempts')
    BY <1>3, <1>5, <1>7, <2>1, <2>2 DEF RowHistory
  <2>. QED  BY <1>5, <1>7, <2>3 DEF RowOK
<1>9. Writes(k, new)
  BY <1>1, <1>7 DEF Writes
<1>10. attempts' \subseteq Attempts
  BY <1>1, <1>3 DEF ReceiptInv, Shape
<1>. QED  BY <1>1, <1>7, <1>8, <1>9, <1>10, WorkStep

\* A statement has committed: the handler goes on, or never learns of it.
LEMMA CommitFacts ==
  ASSUME Shape, NEW r \in Requests, Goto(r, "publishing") \/ Answer(r, Error(503))
  PROVE  /\ request' \in [Requests -> RequestStates]
         /\ \A q \in Requests \ {r} : request'[q] = request[q]
         /\ request'[r].input = request[r].input
         /\ \/ request'[r].pc = "publishing"
            \/ request'[r].pc = "answered" /\ request'[r].answer.status = 503
<1>1. CASE Goto(r, "publishing")
  BY <1>1, GotoFacts DEF Places
<1>2. CASE Answer(r, Error(503))
  <2>1. PICK a \in Answers : a = Error(503) /\ a.status = 503
    BY ErrorType
  <2>. QED  BY <1>2, <2>1, AnswerFacts
<1>. QED  BY <1>1, <1>2

\* A new row has the id of the request that inserts it, which no other has.
LEMMA InsertInv ==
  ASSUME ReceiptInv, NEW r \in Requests, Insert(r) PROVE ReceiptInv'
<1>. DEFINE input == request[r].input
            fresh == [id |-> r, body |-> input.body, state |-> "pending",
                      attempt_count |-> 0, replay_count |-> 0]
<1>1. /\ request[r].pc = "writing" /\ input.kind = "receipt" /\ input # NULL
      /\ input \in Inputs /\ input.key \in Keys /\ input.body \in Bodies
  BY InputType DEF Insert, Writing, ReceiptInv, RequestsOK, PlaceOK, Shape, RequestStates
<1>0. PICK k \in Keys : k = input.key
  BY <1>1
<1>2. /\ events[k] = NULL /\ events' = [events EXCEPT ![k] = fresh]
      /\ UNCHANGED <<attempts, deaths>>
      /\ Goto(r, "publishing") \/ Answer(r, Error(503))
  BY <1>0 DEF Insert, Insertable
<1>3. PICK row \in Row :
        /\ row = fresh /\ row.id = r /\ row.body = input.body /\ row.state = "pending"
        /\ row.attempt_count = 0 /\ row.replay_count = 0
  <2>1. /\ fresh \in Row /\ fresh.id = r /\ fresh.body = input.body
        /\ fresh.state = "pending" /\ fresh.attempt_count = 0 /\ fresh.replay_count = 0
    BY <1>1, ReceiptAssumption DEF Row, Ids
  <2>. HIDE DEF fresh
  <2>. QED  BY <2>1
<1>. HIDE DEF fresh
<1>4. /\ request' \in [Requests -> RequestStates]
      /\ \A q \in Requests \ {r} : request'[q] = request[q]
      /\ request'[r].input = input
      /\ \/ request'[r].pc = "publishing"
         \/ request'[r].pc = "answered" /\ request'[r].answer.status = 503
  BY <1>2, CommitFacts DEF ReceiptInv
<1>5. Writes(k, row)
  BY <1>2, <1>3 DEF Writes
<1>6. /\ events' \in [Keys -> Row \cup {NULL}]
      /\ events'[k] = row /\ row # NULL
  BY <1>1, <1>3, <1>5, WriteFacts DEF ReceiptInv
<1>7. Shape'
  BY <1>2, <1>4, <1>6 DEF ReceiptInv, Shape
<1>8. RequestsOK'
  <2>1. PlaceOK(r)' /\ ReceiptOK(r)' /\ DetailOK(r)' /\ ReplayOK(r)'
    BY <1>0, <1>1, <1>3, <1>4, <1>6 DEF PlaceOK, ReceiptOK, DetailOK, ReplayOK
  <2>2. \A q \in Requests \ {r} :
          PlaceOK(q)' /\ ReceiptOK(q)' /\ DetailOK(q)' /\ ReplayOK(q)'
    BY <1>1, <1>3, <1>4, <1>5, BystanderOK
  <2>. QED  BY <2>1, <2>2 DEF RequestsOK
<1>9. RowOK(row, attempts')
  BY <1>3 DEF RowOK, RowHistory
<1>10. \A l \in Stored : events[l].id # r
  BY <1>1 DEF ReceiptInv, IdsOK
<1>11. \A i \in Ids : Replays(i)' \subseteq Replays(i)
  BY <1>1, <1>4 DEF Replays
<1>12. deaths[r] = 0 /\ Replays(r) = {} /\ r \in Ids
  BY <1>10 DEF KeyOfId, ReceiptInv, DeathsOK, Ids
<1>13. Cardinality(Replays(r)') = 0
  <2>1. Replays(r)' = {}
    BY <1>11, <1>12
  <2>. QED  BY <2>1, FS_EmptySet
<1>14. Cardinality(Replays(row.id)') <= row.replay_count
  BY <1>3, <1>13
<1>15. deaths'[row.id] = row.replay_count + (IF row.state = "dead_lettered" THEN 1 ELSE 0)
  BY <1>2, <1>3, <1>12
<1>16. \A q \in Requests :
         request[q].pc \notin {"unsent", "writing"} => request'[q].pc \notin {"unsent", "writing"}
  BY <1>4
<1>17. request'[row.id].pc \notin {"unsent", "writing"}
  BY <1>3, <1>4
<1>18. \A i \in Ids \ {row.id} : deaths'[i] = deaths[i] /\ Replays(i)' \subseteq Replays(i)
  BY <1>2, <1>11
<1>19. \A l \in Stored : events[l].id # row.id
  BY <1>3, <1>10
<1>. QED
  BY <1>1, <1>3, <1>5, <1>7, <1>8, <1>9, <1>14, <1>15, <1>16, <1>17, <1>18, <1>19, WriteStep

\* One request at most joins the committed replays of an event.
LEMMA ReplaysGrow ==
  ASSUME NEW i, NEW r, Replays(i)' \subseteq Replays(i) \cup {r}
  PROVE  /\ Cardinality(Replays(i)') <= Cardinality(Replays(i)) + 1
         /\ Cardinality(Replays(i)) \in Nat /\ Cardinality(Replays(i)') \in Nat
<1>1. IsFiniteSet(Replays(i))
  BY FS_Subset, ReceiptAssumption DEF Replays
<1>2. /\ IsFiniteSet(Replays(i) \cup {r})
      /\ Cardinality(Replays(i) \cup {r}) <= Cardinality(Replays(i)) + 1
      /\ Cardinality(Replays(i)) \in Nat
  BY <1>1, FS_AddElement, FS_CardinalityType
<1>3. /\ IsFiniteSet(Replays(i)')
      /\ Cardinality(Replays(i)') <= Cardinality(Replays(i) \cup {r})
  BY <1>2, FS_Subset
<1>4. Cardinality(Replays(i)') \in Nat /\ Cardinality(Replays(i) \cup {r}) \in Nat
  BY <1>2, <1>3, FS_CardinalityType
<1>. QED  BY <1>2, <1>3, <1>4

\* A replay takes the dead-lettering away that it is counted against.
LEMMA ReplayUpdateInv ==
  ASSUME ReceiptInv, NEW r \in Requests, ReplayUpdate(r) PROVE ReceiptInv'
<1>. DEFINE input == request[r].input
<1>1. /\ request[r].pc = "writing" /\ input.kind = "replay" /\ input # NULL
      /\ UNCHANGED <<attempts, deaths>>
      /\ Goto(r, "publishing") \/ Answer(r, Error(503))
  BY DEF ReplayUpdate, Writing, ReceiptInv, RequestsOK, PlaceOK
<1>2. PICK k \in Replayable(input.id) :
        events' = [events EXCEPT ![k].state = "pending",
                   ![k].attempt_count = 0, ![k].replay_count = @ + 1]
  BY DEF ReplayUpdate
<1>. DEFINE old == events[k]
            renewed == Rewritten(old, "pending", 0, old.replay_count + 1)
<1>3. /\ k \in Stored /\ k \in Keys /\ old # NULL /\ old \in Row /\ old.id = input.id
      /\ old.id \in Requests
      /\ old.state = "dead_lettered" /\ old.replay_count < MaxReplays
      /\ old.replay_count \in Nat
  BY <1>2, StoredType DEF Replayable, KeyOfId, ReceiptInv
<1>4. PICK new \in Row :
        /\ new = renewed
        /\ new.id = old.id /\ new.body = old.body /\ new.state = "pending"
        /\ new.attempt_count = 0 /\ new.replay_count = old.replay_count + 1
  <2>. HIDE DEF old
  <2>1. old.replay_count + 1 \in 0..MaxReplays /\ 0 \in 0..MaxAttempts
    BY <1>3, ReceiptAssumption
  <2>2. /\ renewed \in Row
        /\ renewed.id = old.id /\ renewed.body = old.body /\ renewed.state = "pending"
        /\ renewed.attempt_count = 0 /\ renewed.replay_count = old.replay_count + 1
    BY <1>3, <2>1 DEF Row, Rewritten
  <2>. HIDE DEF renewed
  <2>. QED  BY <2>2
<1>5. events' = [events EXCEPT ![k] = new]
  BY <1>2, <1>3, <1>4 DEF ReceiptInv, Shape, Rewritten
<1>. HIDE DEF renewed
<1>6. Writes(k, new)
  BY <1>1, <1>4, <1>5 DEF Writes
<1>7. /\ request' \in [Requests -> RequestStates]
      /\ \A q \in Requests \ {r} : request'[q] = request[q]
      /\ request'[r].input = input
      /\ \/ request'[r].pc = "publishing"
         \/ request'[r].pc = "answered" /\ request'[r].answer.status = 503
  BY <1>1, CommitFacts DEF ReceiptInv
<1>8. Shape'
  BY <1>1, <1>3, <1>4, <1>6, <1>7, WriteFacts DEF ReceiptInv, Shape
<1>9. RequestsOK'
  <2>1. PlaceOK(r)' /\ ReceiptOK(r)' /\ DetailOK(r)' /\ ReplayOK(r)'
    BY <1>1, <1>7 DEF PlaceOK, ReceiptOK, DetailOK, ReplayOK
  <2>2. \A q \in Requests \ {r} :
          PlaceOK(q)' /\ ReceiptOK(q)' /\ DetailOK(q)' /\ ReplayOK(q)'
    BY <1>3, <1>4, <1>6, <1>7, BystanderOK
  <2>. QED  BY <2>1, <2>2 DEF RequestsOK
<1>10. RowOK(new, attempts')
  BY <1>4 DEF RowOK, RowHistory
<1>11. \A i \in Ids : Replays(i)' \subseteq Replays(i) \cup {r}
  BY <1>7 DEF Replays
<1>12. \A i \in Ids \ {input.id} : Replays(i)' \subseteq Replays(i)
  BY <1>7 DEF Replays
<1>13. PICK i \in Ids : i = input.id
  BY <1>3 DEF Ids
<1>14. Cardinality(Replays(i)) <= old.replay_count /\ deaths[i] = old.replay_count + 1
  BY <1>3, <1>13 DEF ReceiptInv, DeathsOK
<1>15. Cardinality(Replays(i)') <= old.replay_count + 1
  <2>1. /\ Cardinality(Replays(i)') <= Cardinality(Replays(i)) + 1
        /\ Cardinality(Replays(i)) \in Nat /\ Cardinality(Replays(i)') \in Nat
    BY <1>11, ReplaysGrow
  <2>. QED  BY <1>3, <1>14, <2>1
<1>16. new.id = i
  BY <1>3, <1>4, <1>13
<1>17. Cardinality(Replays(new.id)') <= new.replay_count
  BY <1>4, <1>15, <1>16
<1>18. deaths'[new.id] = new.replay_count + (IF new.state = "dead_lettered" THEN 1 ELSE 0)
  BY <1>1, <1>3, <1>4, <1>14, <1>16
<1>19. \A q \in Requests :
         request[q].pc \notin {"unsent", "writing"} => request'[q].pc \notin {"unsent", "writing"}
  BY <1>7
<1>20. request'[new.id].pc \notin {"unsent", "writing"}
  BY <1>3, <1>4, <1>19 DEF ReceiptInv, IdsOK
<1>21. \A j \in Ids \ {new.id} : deaths'[j] = deaths[j] /\ Replays(j)' \subseteq Replays(j)
  BY <1>1, <1>12, <1>13, <1>16
<1>. QED
  BY <1>3, <1>4, <1>6, <1>8, <1>9, <1>10, <1>17, <1>18, <1>19, <1>20, <1>21, WriteStep

-----------------------------------------------------------------------------
(***************************************************************************)
(* The theorems.                                                           *)
(***************************************************************************)

\* The empty tables satisfy the invariant.
LEMMA ReceiptInvInit == Init => ReceiptInv
<1>. SUFFICES ASSUME Init PROVE ReceiptInv
  OBVIOUS
<1>1. Dead \in RequestStates /\ [Dead EXCEPT !.pc = "unsent"] \in RequestStates
  BY DEF Dead, RequestStates, Places
<1>2. /\ request \in [Requests -> RequestStates]
      /\ \A r \in Requests : request[r].pc = "unsent" /\ request[r].input = NULL
  BY DEF Init, RequestStates, Places
<1>3. Stored = {} /\ \A i \in Ids : deaths[i] = 0
  BY DEF Init, Stored
<1>4. Shape
  BY <1>2 DEF Init, Shape
<1>5. RequestsOK
  BY <1>2 DEF RequestsOK, PlaceOK, ReceiptOK, DetailOK, ReplayOK
<1>6. \A i \in Ids : Replays(i) = {}
  BY <1>2 DEF Replays
<1>. QED  BY <1>3, <1>4, <1>5, <1>6 DEF ReceiptInv, IdsOK, RowsOK, DeathsOK

\* Every step preserves it.
LEMMA ReceiptInvStep == ReceiptInv /\ [Next]_vars => ReceiptInv'
<1>. SUFFICES ASSUME ReceiptInv, [Next]_vars PROVE ReceiptInv'
  OBVIOUS
<1>1. ASSUME NEW r \in Requests, Handle(r) PROVE ReceiptInv'
  <2>1. CASE \/ \E input \in Receipts : PostEvent(r, input)
             \/ \E input \in Operations : PostReplay(r, input) \/ Get(r, input)
    BY <2>1, ArriveInv
  <2>2. CASE \/ InsertConflict(r) \/ ReplayMiss(r) \/ ReadState(r)
             \/ ReadTable(r) \/ Unavailable(r)
    BY <2>2, PlainInv
  <2>3. CASE Insert(r)
    BY <2>3, InsertInv
  <2>4. CASE ReadExisting(r)
    BY <2>4, ReadExistingInv
  <2>5. CASE ReplayUpdate(r)
    BY <2>5, ReplayUpdateInv
  <2>6. CASE DetailFirst(r)
    BY <2>6, DetailFirstInv
  <2>7. CASE DetailSecond(r)
    BY <2>7, DetailSecondInv
  <2>8. CASE Publish(r)
    BY <2>8, PublishInv
  <2>9. CASE Die(r)
    BY <2>9, DieInv
  <2>. QED
    BY <1>1, <2>1, <2>2, <2>3, <2>4, <2>5, <2>6, <2>7, <2>8, <2>9 DEF Handle
<1>2. ASSUME NEW k \in Keys, Work(k) PROVE ReceiptInv'
  BY <1>2, ClaimInv, RetireInv, RecordInv DEF Work
<1>3. CASE UNCHANGED vars
  BY <1>3 DEF vars, ReceiptInv, Shape, Stored, RequestsOK, PlaceOK, ReceiptOK, DetailOK,
              ReplayOK, IdsOK, RowsOK, DeathsOK, KeyOfId, Replays
<1>. QED  BY <1>1, <1>2, <1>3 DEF Next

\* ReceiptInv holds in every reachable state of the operator's API.
THEOREM ReceiptInvHolds == Spec => []ReceiptInv
BY ReceiptInvInit, ReceiptInvStep, PTL DEF Spec

\* A 202 of events_post is the promise of durable receipt: from then on the row
\* of that key exists with the id that was answered and the body received.
THEOREM AcceptedStored == Spec => []AcceptedIsStored
<1>1. ReceiptInv => AcceptedIsStored
  <2>. SUFFICES ASSUME ReceiptInv, NEW r \in Answered("receipt", {202})
                PROVE  /\ request[r].input.key \in Stored
                       /\ events[request[r].input.key].id = request[r].answer.id
                       /\ events[request[r].input.key].body = request[r].input.body
    BY DEF AcceptedIsStored
  <2>1. /\ r \in Requests /\ request[r].pc = "answered" /\ request[r].input # NULL
        /\ request[r].input.kind = "receipt" /\ request[r].answer.status = 202
    BY DEF Answered
  <2>2. request[r].input.key \in Keys
    BY <2>1, InputType DEF ReceiptInv, Shape, RequestStates
  <2>. QED  BY <2>1, <2>2 DEF ReceiptInv, RequestsOK, ReceiptOK, Stored
<1>. QED  BY <1>1, ReceiptInvHolds, PTL

\* A 409 of events_post is a real conflict, and stays one: the stored event of
\* that key has another body.
THEOREM ConflictsReal == Spec => []ConflictIsReal
<1>1. ReceiptInv => ConflictIsReal
  <2>. SUFFICES ASSUME ReceiptInv, NEW r \in Answered("receipt", {409})
                PROVE  /\ request[r].input.key \in Stored
                       /\ events[request[r].input.key].body # request[r].input.body
    BY DEF ConflictIsReal
  <2>1. /\ r \in Requests /\ request[r].pc = "answered" /\ request[r].input # NULL
        /\ request[r].input.kind = "receipt" /\ request[r].answer.status = 409
    BY DEF Answered
  <2>2. request[r].input.key \in Keys
    BY <2>1, InputType DEF ReceiptInv, Shape, RequestStates
  <2>. QED  BY <2>1, <2>2 DEF ReceiptInv, RequestsOK, ReceiptOK, Stored
<1>. QED  BY <1>1, ReceiptInvHolds, PTL

\* However many operators and retries ask for a replay, no more replays of an
\* event are accepted than it was dead-lettered.
THEOREM ReplaysEarned == Spec => []ReplayOncePerDeath
<1>1. ReceiptInv => ReplayOncePerDeath
  <2>. SUFFICES ASSUME ReceiptInv, NEW i \in Ids
                PROVE  Cardinality({r \in Answered("replay", {202}) : request[r].answer.id = i})
                         <= deaths[i]
    BY DEF ReplayOncePerDeath
  <2>. DEFINE A == {r \in Answered("replay", {202}) : request[r].answer.id = i}
  <2>1. A \subseteq Replays(i)
    BY DEF Answered, Replays, ReceiptInv, RequestsOK, ReplayOK
  <2>2. IsFiniteSet(Replays(i))
    BY FS_Subset, ReceiptAssumption DEF Replays
  <2>. HIDE DEF A
  <2>3. /\ Cardinality(A) <= Cardinality(Replays(i))
        /\ Cardinality(A) \in Nat /\ Cardinality(Replays(i)) \in Nat
    BY <2>1, <2>2, FS_Subset, FS_CardinalityType
  <2>4. Cardinality(Replays(i)) <= deaths[i] /\ deaths[i] \in Nat
    <3>1. CASE KeyOfId(i) = {}
      <4>1. Replays(i) = {} /\ deaths[i] = 0
        BY <3>1 DEF ReceiptInv, DeathsOK
      <4>2. Cardinality(Replays(i)) = 0
        BY <4>1, FS_EmptySet
      <4>. QED  BY <4>1, <4>2
    <3>2. CASE KeyOfId(i) # {}
      <4>1. PICK k \in Stored : events[k].id = i
        BY <3>2 DEF KeyOfId
      <4>2. /\ deaths[i] = events[k].replay_count
                              + (IF events[k].state = "dead_lettered" THEN 1 ELSE 0)
            /\ Cardinality(Replays(i)) <= events[k].replay_count
            /\ events[k].replay_count \in Nat
        BY <4>1, StoredType DEF ReceiptInv, DeathsOK
      <4>. QED  BY <2>3, <4>2
    <3>. QED  BY <3>1, <3>2
  <2>5. Cardinality(A) <= deaths[i]
    BY <2>3, <2>4
  <2>. QED  BY <2>5 DEF A
<1>. QED  BY <1>1, ReceiptInvHolds, PTL

\* The two statements of Detail never show a row without its history.
THEOREM DetailsComplete == Spec => []DetailShowsHistory
<1>1. ReceiptInv => DetailShowsHistory
  BY DEF ReceiptInv, RequestsOK, DetailOK, RowHistory, DetailShowsHistory, Answered
<1>. QED  BY <1>1, ReceiptInvHolds, PTL

\* Type correctness, with the bound of the dead-letterings: one per replay and
\* one more.
THEOREM ReceiptTypes == Spec => []TypeOK
<1>1. ReceiptInv => TypeOK
  <2>. SUFFICES ASSUME ReceiptInv PROVE TypeOK
    OBVIOUS
  <2>1. \A i \in Ids : deaths[i] \in 0..(MaxReplays + 1)
    <3>. SUFFICES ASSUME NEW i \in Ids PROVE deaths[i] \in 0..(MaxReplays + 1)
      OBVIOUS
    <3>1. CASE KeyOfId(i) = {}
      BY <3>1, ReceiptAssumption DEF ReceiptInv, DeathsOK
    <3>2. CASE KeyOfId(i) # {}
      <4>1. PICK k \in Stored : events[k].id = i
        BY <3>2 DEF KeyOfId
      <4>2. /\ deaths[i] = events[k].replay_count
                              + (IF events[k].state = "dead_lettered" THEN 1 ELSE 0)
            /\ events[k].replay_count \in Nat /\ events[k].replay_count <= MaxReplays
        BY <4>1, StoredType DEF ReceiptInv, DeathsOK
      <4>. QED  BY <4>2, ReceiptAssumption
    <3>. QED  BY <3>1, <3>2
  <2>2. deaths \in [Ids -> 0..(MaxReplays + 1)]
    BY <2>1 DEF ReceiptInv, Shape
  <2>. QED  BY <2>2 DEF ReceiptInv, Shape, TypeOK, RequestStates, Places, Inputs
<1>. QED  BY <1>1, ReceiptInvHolds, PTL
=============================================================================
