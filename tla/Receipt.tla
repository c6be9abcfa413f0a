------------------------------ MODULE Receipt -------------------------------
(***************************************************************************)
(* The operator's API: receipt of signed events with idempotency keys,     *)
(* replay of dead-lettered events, and the reads of the dashboard.         *)
(* Handlers run several statements; concurrent requests, retries of a      *)
(* client that never saw its answer among them, and the workers interleave *)
(* between the statements, and each handler may die between two of them.   *)
(***************************************************************************)
EXTENDS Naturals, FiniteSets

CONSTANTS
  NULL,
  Requests,         \* the HTTP requests that may arrive
  Keys,             \* values of X-Relay-Event-Id, the idempotency keys
  Bodies,           \* request bodies, told apart by their SHA-256
  Flaws,            \* the defects a request may have, subset of AllFlaws
  MaxAttempts,      \* 8
  MaxReplays        \* 16

\* The UUID that a request draws for its event is named after the request.
Ids == Requests

ReceiptFlaws ==
  {"source", "media_type", "too_large", "json", "timestamp", "signature",
   "event_id", "no_destination"}

\* The bearer token; the event's UUID or the list's state.
OperatorFlaws == {"authorization", "parameter"}

AllFlaws == ReceiptFlaws \cup OperatorFlaws

ASSUME ReceiptAssumption ==
  /\ IsFiniteSet(Requests)
  /\ Flaws \subseteq AllFlaws
  /\ MaxReplays \in Nat /\ MaxAttempts \in Nat \ {0}
  /\ NULL \notin Requests \cup Keys \cup Bodies

VARIABLES
  events,    \* the row of each key, or NULL
  attempts,  \* the rows of delivery_attempts
  request,   \* each request, its handler's place and its answer
  deaths     \* history: how often each id was dead-lettered

vars == <<events, attempts, request, deaths>>

-----------------------------------------------------------------------------
Stored == {k \in Keys : events[k] # NULL}

\* The row with that id; the id is the primary key.
KeyOfId(i) == {k \in Stored : events[k].id = i}

Receipts ==
  [kind : {"receipt"}, key : Keys, body : Bodies, flaw : (Flaws \cap ReceiptFlaws) \cup {NULL}]

\* A request of the operator; the id matters to replay and detail only.
Operations ==
  [kind : {"replay", "detail"}, id : Ids, flaw : (Flaws \cap OperatorFlaws) \cup {NULL}]
    \cup [kind : {"list"}, flaw : (Flaws \cap OperatorFlaws) \cup {NULL}]
    \cup [kind : {"overview", "endpoint"}, flaw : (Flaws \cap {"authorization"}) \cup {NULL}]

Row == [id : Ids, body : Bodies,
        state : {"pending", "delivering", "delivered", "retry_scheduled", "dead_lettered"},
        attempt_count : 0..MaxAttempts, replay_count : 0..MaxReplays]

Attempts == [event_id : Ids, replay_number : 0..MaxReplays,
             attempt_number : 1..MaxAttempts,
             outcome : {"delivered", "retryable_http", "terminal_http"}]

\* NULL is neither a row nor a request.
ASSUME NilAssumption == NULL \notin Row \cup Receipts \cup Operations

\* 202 with an id and the duplicate flag (TRUE for a replay), what a detail has
\* read, another read's 200, or an error.
Answers ==
  [status : {202}, id : Ids, duplicate : BOOLEAN]
    \cup [status : {200}, detail : [row : SUBSET Row, attempts : SUBSET Attempts]]
    \cup [status : {200, 400, 401, 404, 409, 413, 415, 503}]

TypeOK ==
  /\ events \in [Keys -> Row \cup {NULL}]
  /\ attempts \subseteq Attempts
  /\ \A r \in Requests :
       /\ request[r].pc \in {"unsent", "writing", "reading", "detail_attempts",
                             "publishing", "answered", "dead"}
       /\ request[r].input \in Receipts \cup Operations \cup {NULL}
       /\ request[r].answer \in Answers \cup {NULL}
  /\ deaths \in [Ids -> 0..(MaxReplays + 1)]

\* read: the rows that the first statement of a detail has returned.
Init ==
  /\ events = [k \in Keys |-> NULL]
  /\ attempts = {}
  /\ request = [r \in Requests |->
                  [pc |-> "unsent", input |-> NULL, read |-> {}, answer |-> NULL]]
  /\ deaths = [i \in Ids |-> 0]

Goto(r, place) == request' = [request EXCEPT ![r].pc = place]

Answer(r, a) ==
  request' = [request EXCEPT ![r].pc = "answered", ![r].answer = a]

Error(status) == [status |-> status]

\* The handler of input starts at that place.
Begin(r, input, place) ==
  request' = [request EXCEPT ![r].pc = place, ![r].input = input]

Accepted(i, duplicate) == [status |-> 202, id |-> i, duplicate |-> duplicate]

-----------------------------------------------------------------------------
(***************************************************************************)
(* Receipt.                                                                *)
(***************************************************************************)

\* What a handler answers when that is the first check that fails (the last one
\* of events_post is that RELAY_DESTINATION_URL is configured).
Refusal(flaw) ==
  CASE flaw \in {"source", "signature", "authorization"}         -> 401
    [] flaw = "media_type"                                       -> 415
    [] flaw = "too_large"                                        -> 413
    [] flaw \in {"json", "timestamp", "event_id", "parameter"}   -> 400
    [] flaw = "no_destination"                                   -> 503

\* events_post: validation, then a fresh UUID for the event.
PostEvent(r, input) ==
  /\ request[r].pc = "unsent"
  /\ \/ input.flaw # NULL /\ Answer(r, Error(Refusal(input.flaw)))
     \/ input.flaw = NULL /\ Begin(r, input, "writing")
  /\ UNCHANGED <<events, attempts, deaths>>

Writing(r, kind) == request[r].pc = "writing" /\ request[r].input.kind = kind
Reading(r, kind) == request[r].pc = "reading" /\ request[r].input.kind = kind

\* ON CONFLICT (source_key, external_event_id) DO NOTHING.
Insertable(k) == events[k] = NULL

\* Accept's INSERT commits, and the handler goes on to publish; or the
\* statement commits and its answer is lost.
Insert(r) ==
  /\ Writing(r, "receipt")
  /\ Insertable(request[r].input.key)
  /\ events' = [events EXCEPT ![request[r].input.key] =
                  [id |-> r, body |-> request[r].input.body, state |-> "pending",
                   attempt_count |-> 0, replay_count |-> 0]]
  /\ Goto(r, "publishing") \/ Answer(r, Error(503))
  /\ UNCHANGED <<attempts, deaths>>

\* The INSERT returns no row: accept_existing.
InsertConflict(r) ==
  /\ Writing(r, "receipt")
  /\ ~Insertable(request[r].input.key)
  /\ Goto(r, "reading")
  /\ UNCHANGED <<events, attempts, deaths>>

\* Mutant: the stored digest is compared with the body itself.
SameDigest_Body(row, body) == FALSE

\* bytes.Equal(body_sha256, receipt.BodySHA256).
SameDigest(row, body) == row.body = body

\* Mutant: the receipt's own id is returned.
accept_existing_OwnId(r, row) ==
  IF row = NULL THEN Error(503)
  ELSE IF SameDigest(row, request[r].input.body) THEN Accepted(r, TRUE)
  ELSE Error(409)

\* The answer that the stored row calls for.
accept_existing(r, row) ==
  IF row = NULL THEN Error(503)
  ELSE IF SameDigest(row, request[r].input.body) THEN Accepted(row.id, TRUE)
  ELSE Error(409)

\* accept_existing's SELECT, by key.
ReadExisting(r) ==
  /\ Reading(r, "receipt")
  /\ Answer(r, accept_existing(r, events[request[r].input.key]))
  /\ UNCHANGED <<events, attempts, deaths>>

-----------------------------------------------------------------------------
(***************************************************************************)
(* Replay.                                                                 *)
(***************************************************************************)
PostReplay(r, input) ==
  /\ request[r].pc = "unsent"
  /\ input.kind = "replay"
  /\ \/ input.flaw # NULL /\ Answer(r, Error(Refusal(input.flaw)))
     \/ input.flaw = NULL /\ Begin(r, input, "writing")
  /\ UNCHANGED <<events, attempts, deaths>>

\* Mutant: the UPDATE does not look at the state.
Replayable_AnyState(i) ==
  {k \in KeyOfId(i) : events[k].replay_count < MaxReplays}

\* The row that Replay's UPDATE matches.
Replayable(i) ==
  {k \in KeyOfId(i) :
     events[k].state = "dead_lettered" /\ events[k].replay_count < MaxReplays}

\* The UPDATE matches one row and commits, or its answer is lost.
ReplayUpdate(r) ==
  /\ Writing(r, "replay")
  /\ \E k \in Replayable(request[r].input.id) :
       events' = [events EXCEPT ![k].state = "pending",
                  ![k].attempt_count = 0, ![k].replay_count = @ + 1]
  /\ Goto(r, "publishing") \/ Answer(r, Error(503))
  /\ UNCHANGED <<attempts, deaths>>

\* The UPDATE matches nothing: the state is read to choose the error.
ReplayMiss(r) ==
  /\ Writing(r, "replay")
  /\ Replayable(request[r].input.id) = {}
  /\ Goto(r, "reading")
  /\ UNCHANGED <<events, attempts, deaths>>

ReadState(r) ==
  /\ Reading(r, "replay")
  /\ Answer(r, Error(IF KeyOfId(request[r].input.id) = {} THEN 404 ELSE 409))
  /\ UNCHANGED <<events, attempts, deaths>>

-----------------------------------------------------------------------------
(***************************************************************************)
(* The reads.                                                              *)
(***************************************************************************)

\* The checks of the GET handlers; endpoint_get shows the configuration only.
Get(r, input) ==
  /\ request[r].pc = "unsent"
  /\ input.kind # "replay"
  /\ \/ input.flaw # NULL /\ Answer(r, Error(Refusal(input.flaw)))
     \/ input.flaw = NULL /\ input.kind = "endpoint" /\ Answer(r, [status |-> 200])
     \/ input.flaw = NULL /\ input.kind # "endpoint" /\ Begin(r, input, "reading")
  /\ UNCHANGED <<events, attempts, deaths>>

\* Overview and List are single statements, whose answers nothing depends on.
ReadTable(r) ==
  /\ Reading(r, "overview") \/ Reading(r, "list")
  /\ Answer(r, [status |-> 200])
  /\ UNCHANGED <<events, attempts, deaths>>

\* Mutant: the attempts are read first.
DetailOrder_AttemptsFirst == <<"attempts", "row">>

\* Detail reads the row, and then detail_attempts reads its attempts.
DetailOrder == <<"row", "attempts">>

Statement(name, i) ==
  IF name = "row" THEN {events[k] : k \in KeyOfId(i)}
  ELSE {a \in attempts : a.event_id = i}

DetailFirst(r) ==
  /\ Reading(r, "detail")
  /\ LET i == request[r].input.id
     IN  IF KeyOfId(i) = {} THEN Answer(r, Error(404))
         ELSE request' = [request EXCEPT ![r].pc = "detail_attempts",
                                         ![r].read = Statement(DetailOrder[1], i)]
  /\ UNCHANGED <<events, attempts, deaths>>

\* The part of the answer that was read first, or is read now.
DetailPart(r, name) ==
  IF name = DetailOrder[1] THEN request[r].read ELSE Statement(name, request[r].input.id)

DetailSecond(r) ==
  /\ request[r].pc = "detail_attempts"
  /\ Answer(r, [status |-> 200,
                detail |-> [row      |-> DetailPart(r, "row"),
                            attempts |-> DetailPart(r, "attempts")]])
  /\ UNCHANGED <<events, attempts, deaths>>

-----------------------------------------------------------------------------
(***************************************************************************)
(* AfterCommit, failures, and the workers.                                 *)
(***************************************************************************)

\* The id the handler has committed and answers with.
CommittedId(r) == IF request[r].input.kind = "receipt" THEN r ELSE request[r].input.id

\* AfterCommit: the answer is the same whether the hint reaches SQS or not.
Publish(r) ==
  /\ request[r].pc = "publishing"
  /\ Answer(r, Accepted(CommittedId(r), request[r].input.kind = "replay"))
  /\ UNCHANGED <<events, attempts, deaths>>

\* A statement fails before it is executed.
Unavailable(r) ==
  /\ request[r].pc \in {"writing", "reading", "detail_attempts"}
  /\ Answer(r, Error(503))
  /\ UNCHANGED <<events, attempts, deaths>>

Dead == [pc |-> "dead", input |-> NULL, read |-> {}, answer |-> NULL]

\* The process dies, or the client is gone: nobody sees an answer.
Die(r) ==
  /\ request[r].pc \in {"writing", "reading", "detail_attempts", "publishing"}
  /\ request' = [request EXCEPT ![r] = Dead]
  /\ UNCHANGED <<events, attempts, deaths>>

\* Claim (DeliveryQueue has its leases): the next attempt of a waiting row.
Claim(k) ==
  /\ events[k] # NULL
  /\ events[k].state \in {"pending", "retry_scheduled"}
  /\ events' = [events EXCEPT ![k].state = "delivering", ![k].attempt_count = @ + 1]
  /\ UNCHANGED <<attempts, request, deaths>>

\* record_state, before the event is too old.
RecordState(row, outcome) ==
  CASE outcome = "delivered" -> "delivered"
    [] outcome = "retryable_http" /\ row.attempt_count < MaxAttempts -> "retry_scheduled"
    [] OTHER -> "dead_lettered"

\* The row leaves the workers in that state.
Settle(k, state) ==
  /\ events' = [events EXCEPT ![k].state = state]
  /\ deaths' = [deaths EXCEPT ![events[k].id] =
                  IF state = "dead_lettered" THEN @ + 1 ELSE @]

\* Record: the attempt and the row's new state in one transaction.
Record(k, outcome) ==
  /\ events[k] # NULL
  /\ events[k].state = "delivering"
  /\ Settle(k, RecordState(events[k], outcome))
  /\ attempts' = attempts \cup
       {[event_id |-> events[k].id, replay_number |-> events[k].replay_count,
         attempt_number |-> events[k].attempt_count, outcome |-> outcome]}
  /\ UNCHANGED request

\* Claim retires an event that is too old; nothing is recorded.
Retire(k) ==
  /\ events[k] # NULL
  /\ events[k].state \in {"pending", "retry_scheduled", "delivering"}
  /\ Settle(k, "dead_lettered")
  /\ UNCHANGED <<attempts, request>>

Handle(r) ==
  \/ \E input \in Receipts : PostEvent(r, input)
  \/ \E input \in Operations : PostReplay(r, input) \/ Get(r, input)
  \/ Insert(r) \/ InsertConflict(r) \/ ReadExisting(r)
  \/ ReplayUpdate(r) \/ ReplayMiss(r) \/ ReadState(r)
  \/ ReadTable(r) \/ DetailFirst(r) \/ DetailSecond(r)
  \/ Publish(r) \/ Unavailable(r) \/ Die(r)

Work(k) ==
  \/ Claim(k) \/ Retire(k)
  \/ \E outcome \in {"delivered", "retryable_http", "terminal_http"} : Record(k, outcome)

Next ==
  \/ \E r \in Requests : Handle(r)
  \/ \E k \in Keys : Work(k)

Spec == Init /\ [][Next]_vars

-----------------------------------------------------------------------------
(***************************************************************************)
(* Properties.                                                             *)
(***************************************************************************)
Answered(kind, statuses) ==
  {r \in Requests : /\ request[r].pc = "answered" /\ request[r].input # NULL
                    /\ request[r].input.kind = kind
                    /\ request[r].answer.status \in statuses}

\* A 202 is the promise of durable receipt: the row of that key exists, has
\* the id that was answered and holds the body that was received.  Hence all
\* answers for one key agree, whichever of the requests inserted the row.
AcceptedIsStored ==
  \A r \in Answered("receipt", {202}) :
    LET k == request[r].input.key
    IN  /\ k \in Stored
        /\ events[k].id = request[r].answer.id
        /\ events[k].body = request[r].input.body

\* A conflict is reported only against a stored event with another body: a
\* retry of the body that was accepted is never refused.
ConflictIsReal ==
  \A r \in Answered("receipt", {409}) :
    LET k == request[r].input.key
    IN  k \in Stored /\ events[k].body # request[r].input.body

\* Each dead-lettering is replayed at most once, however many operators or
\* retries ask: an accepted replay had a dead-lettering of its own.
ReplayOncePerDeath ==
  \A i \in Ids :
    Cardinality({r \in Answered("replay", {202}) : request[r].answer.id = i})
      <= deaths[i]

\* Detail's two statements may see different states, but never a row without
\* its history: each attempt that the counters and the state of the row speak
\* of is shown, the one that delivered it as such; an attempt recorded, or an
\* event replayed, between the statements can only show more.
DetailShowsHistory ==
  \A r \in Answered("detail", {200}) : \A row \in request[r].answer.detail.row :
    LET shown(n, outcomes) ==
          \E a \in request[r].answer.detail.attempts :
            /\ a.replay_number = row.replay_count /\ a.attempt_number = n
            /\ a.outcome \in outcomes
    IN  /\ \A n \in 1..(row.attempt_count - 1) : shown(n, {"retryable_http"})
        /\ row.state = "delivered" => shown(row.attempt_count, {"delivered"})
        /\ row.state = "retry_scheduled" => shown(row.attempt_count, {"retryable_http"})
=============================================================================
