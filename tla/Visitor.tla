------------------------------- MODULE Visitor -------------------------------
(***************************************************************************)
(* The visitor's side of the sandbox API: the signed cookie, the checks    *)
(* that every request passes, and the handlers.  A request is several      *)
(* statements, and time passes, Cleanup runs and other requests of the     *)
(* same browser are handled between any two of them; a transaction that    *)
(* admits something is the step that checks and the step that commits.     *)
(* Quotas and windows are in SandboxQueue; here a quota may be exhausted   *)
(* at any time.                                                            *)
(*                                                                         *)
(* The cookie counts whole seconds of the API's clock, the session's row   *)
(* has the full expiry and is compared with the database's clock.          *)
(***************************************************************************)
EXTENDS Integers, FiniteSets

CONSTANTS
  NULL,
  Visitors,          \* browsers
  Requests,          \* the requests under way, of whichever browser and tab
  SessionIds,        \* the random identifiers that Issue draws
  EventIds,          \* events of the sandbox
  Second,            \* clock ticks in a second
  SessionLifetime,   \* 30 minutes, in ticks
  Ahead,             \* the API's clock minus the database's
  EventsPerSession,  \* 20
  SandboxReplays,    \* 2
  Faults,            \* whether statements fail and answers are lost
  Horizon            \* bound: the last instant

ASSUME VisitorAssumption ==
  /\ {Second, SessionLifetime} \subseteq Nat \ {0}
  /\ {EventsPerSession, SandboxReplays, Horizon} \subseteq Nat
  /\ Ahead \in Int
  /\ Faults \in BOOLEAN
  /\ NULL \notin SessionIds

VARIABLES
  clock,      \* the database's clock
  sessions,   \* the rows of sandbox_sessions
  events,     \* the sandbox events, as far as the API looks at them
  jar,        \* the cookie that each browser holds
  request     \* the requests

vars == <<clock, sessions, events, jar, request>>

-----------------------------------------------------------------------------
(***************************************************************************)
(* Credentials.                                                            *)
(***************************************************************************)
\* Mutant: the cookie counts in steps of three seconds.
Unix_Coarse(t) == 3 * (t \div (3 * Second))

\* time.Time.Unix().
Unix(t) == t \div Second

\* time.Now() of the API: one clock, at a constant distance from the database's.
\* Tasks that overlap with clocks of their own, and a clock that is set back, are
\* left out.
Now == clock + Ahead

\* A cookie: genuine if its MAC is that of its identifier and expiry.
Tokens == [id : SessionIds, expires : Int, genuine : BOOLEAN]

Issue(s, t) == [id |-> s, expires |-> Unix(t + SessionLifetime), genuine |-> TRUE]

\* Integrity and expiry.
Validate(token, t) ==
  /\ token # NULL
  /\ token.genuine
  /\ token.expires > Unix(t)
  /\ token.expires <= Unix(t + SessionLifetime)

\* What a browser may send: nothing, its cookie, or something made up.
Carried(v) ==
  {NULL, jar[v]} \cup
  {[id |-> s, expires |-> Unix(Now) + 1, genuine |-> FALSE] : s \in SessionIds}

-----------------------------------------------------------------------------
(***************************************************************************)
(* State.                                                                  *)
(***************************************************************************)
Kinds == {"session", "submit", "replay", "detail", "list"}

Places == {"unsent", "active", "cleanup", "issue", "create", "operate", "commit",
           "attempts", "answered"}

\* The rows that a request is about: issued is the cookie drawn by Issue and
\* expiry the time given to Create; gone, of a detail, that the attempts it read
\* had been deleted.
RequestStates ==
  [pc : Places, by : Visitors \cup {NULL}, kind : Kinds \cup {NULL},
   event : EventIds \cup {NULL}, token : Tokens \cup {NULL},
   issued : Tokens \cup {NULL}, expiry : Int, status : Nat, gone : BOOLEAN]

EventRows ==
  [owner : SessionIds \cup {NULL}, state : {"absent", "pending", "dead_lettered"},
   replays : 0..SandboxReplays]

SessionRows ==
  [status : {"unissued", "drawn", "stored", "deleted"}, expires_at : Int,
   event_count : 0..EventsPerSession]

TypeOK ==
  /\ clock \in 0..Horizon
  /\ sessions \in [SessionIds -> SessionRows]
  /\ events \in [EventIds -> EventRows]
  /\ jar \in [Visitors -> Tokens \cup {NULL}]
  /\ request \in [Requests -> RequestStates]

Unsent ==
  [pc |-> "unsent", by |-> NULL, kind |-> NULL, event |-> NULL, token |-> NULL,
   issued |-> NULL, expiry |-> 0, status |-> 0, gone |-> FALSE]

Init ==
  /\ clock = 0
  /\ sessions = [s \in SessionIds |->
                   [status |-> "unissued", expires_at |-> 0, event_count |-> 0]]
  /\ events = [e \in EventIds |-> [owner |-> NULL, state |-> "absent", replays |-> 0]]
  /\ jar = [v \in Visitors |-> NULL]
  /\ request = [q \in Requests |-> Unsent]

Tick ==
  /\ clock < Horizon
  /\ clock' = clock + 1
  /\ UNCHANGED <<sessions, events, jar, request>>

\* The session exists and expires_at > clock_timestamp().
Live(s) == sessions[s].status = "stored" /\ sessions[s].expires_at > clock

\* The request moves on, or is answered with a status.
Goto(q, place) == request' = [request EXCEPT ![q].pc = place]

IsGenuine(token) == token # NULL /\ token.genuine

\* Of an answered request there remains what the browser does with the answer and
\* what the properties say of it.
Answered(r, status) ==
  CASE status = 201 ->
         [Unsent EXCEPT !.pc = "answered", !.status = 201, !.by = r.by, !.issued = r.issued]
    [] status = 401 /\ IsGenuine(r.token) ->
         [Unsent EXCEPT !.pc = "answered", !.status = 401, !.token = r.token]
    [] status \in {200, 202, 404, 409} /\ r.event # NULL ->
         [Unsent EXCEPT !.pc = "answered", !.status = status, !.token = r.token,
                        !.event = r.event, !.gone = r.gone]
    [] OTHER -> Unsent

Answer(q, status) == request' = [request EXCEPT ![q] = Answered(@, status)]

-----------------------------------------------------------------------------
(***************************************************************************)
(* ServeHTTP.                                                              *)
(***************************************************************************)

\* Mutant: create does not look at the cookie.
Recognised_Never(token) == FALSE

\* create accepts the cookie it was sent.
Recognised(token) == Validate(token, Now)

\* Where a well-formed request goes next, or the status it is refused with.
Admitted(kind, token) ==
  IF kind = "session" THEN (IF Recognised(token) THEN "active" ELSE "cleanup")
  ELSE IF Validate(token, Now) THEN "active" ELSE "refused"

\* The request arrives: the cookie is validated against time.Now().  What is rejected
\* before that (another origin, an operator's credentials, two cookies, the body of a
\* creation) changes nothing.  Whoever asks for an event, its own or not, has an
\* identifier that was given out.  create makes no use of a cookie that is not genuine.
Arrive(q, v, kind, e, token) ==
  /\ request[q].pc = "unsent"
  /\ IF kind \in {"session", "submit", "list"} THEN e = NULL
     ELSE e # NULL /\ events[e].owner # NULL
  /\ LET r == [Unsent EXCEPT !.by = IF kind = "session" THEN v ELSE NULL,
                             !.kind = kind, !.event = e,
                             !.token = IF kind # "session" \/ IsGenuine(token) THEN token
                                       ELSE NULL]
         place == Admitted(kind, token)
     IN  request' = [request EXCEPT ![q] =
           IF place = "refused" THEN Answered(r, 401) ELSE [r EXCEPT !.pc = place]]
  /\ UNCHANGED <<clock, sessions, events, jar>>

\* Store.Active; behind it the mux, and the handler that may reject the body, the
\* scenario or the identifier.
Active(q) ==
  /\ request[q].pc = "active"
  /\ LET live == Live(request[q].token.id)
         new  == request[q].kind = "session"
     IN  \/ live /\ new /\ Answer(q, 200)
         \/ live /\ ~new /\ (Goto(q, "operate") \/ Answer(q, 400))
         \/ ~live /\ new /\ Goto(q, "cleanup")
         \/ ~live /\ ~new /\ Answer(q, 401)
  /\ UNCHANGED <<clock, sessions, events, jar>>

-----------------------------------------------------------------------------
(***************************************************************************)
(* admission.                                                              *)
(***************************************************************************)

\* Mutant: the checks are made before the transaction begins.
Holds_Unchecked(q) == FALSE

\* From its checks to its commit the transaction holds the budget row, which
\* admission locks, and the rows that it has checked.
Holds(q) == request[q].pc = "commit"

\* admission returns: no other transaction holds the budget row.
Admission == \A q \in Requests : ~Holds(q)

-----------------------------------------------------------------------------
(***************************************************************************)
(* create.                                                                 *)
(***************************************************************************)

\* The sessions that Cleanup may delete.
Over(s) == sessions[s].status = "stored" /\ sessions[s].expires_at <= clock

\* Cleanup deletes events of expired sessions, except for the leased ones and
\* those beyond the limit, then expired sessions that have no event left.
Cleaned ==
  /\ Admission
  /\ \E lost \in SUBSET {e \in EventIds : events[e].state # "absent" /\ Over(events[e].owner)},
        gone \in SUBSET {s \in SessionIds : Over(s)} :
       /\ \A e \in EventIds \ lost : events[e].state # "absent" => events[e].owner \notin gone
       /\ events' = [e \in EventIds |->
                       IF e \in lost THEN [events[e] EXCEPT !.state = "absent"]
                       ELSE events[e]]
       /\ sessions' = [s \in SessionIds |->
                         IF s \in gone THEN [sessions[s] EXCEPT !.status = "deleted"]
                         ELSE sessions[s]]

CleanupFirst(q) ==
  /\ request[q].pc = "cleanup"
  /\ Cleaned
  /\ Goto(q, "issue")
  /\ UNCHANGED <<clock, jar>>

\* Issue draws an identifier and reads the clock.
IssueCookie(q, s) ==
  /\ request[q].pc = "issue"
  /\ sessions[s].status = "unissued"
  /\ sessions' = [sessions EXCEPT ![s].status = "drawn"]
  /\ request' = [request EXCEPT ![q] =
       [@ EXCEPT !.pc = "create", !.issued = Issue(s, Now),
                 !.expiry = Now + SessionLifetime]]
  /\ UNCHANGED <<clock, events, jar>>

\* The statuses of a transaction that commits: its own, or 503 if the answer
\* of the commit is lost.
Committed(status) == {status} \cup (IF Faults THEN {503} ELSE {})

\* Store.Create.
Create(q) ==
  /\ request[q].pc = "create"
  /\ Admission
  /\ LET s == request[q].issued.id
     IN  sessions' = [sessions EXCEPT ![s] =
                        [@ EXCEPT !.status = "stored", !.expires_at = request[q].expiry]]
  /\ \E status \in Committed(201) : Answer(q, status)
  /\ UNCHANGED <<clock, events, jar>>

\* ErrQuota of a creation, or of charge after the checks of Submit and Replay.
Exhausted(q) ==
  /\ \/ request[q].pc = "create" /\ Admission
     \/ request[q].pc = "commit"
  /\ Answer(q, 429)
  /\ UNCHANGED <<clock, sessions, events, jar>>

-----------------------------------------------------------------------------
(***************************************************************************)
(* submit, replay, detail and list.                                        *)
(***************************************************************************)

\* Store.Submit: the session is live and has events left.
Submit(q) ==
  LET s == request[q].token.id
  IN  /\ request[q].pc = "operate" /\ request[q].kind = "submit"
      /\ Admission
      /\ Live(s) /\ sessions[s].event_count < EventsPerSession
      /\ Goto(q, "commit")
      /\ UNCHANGED <<clock, sessions, events, jar>>

\* It commits, for a session that may be over by now.
SubmitCommit(q, e) ==
  LET s == request[q].token.id
  IN  /\ request[q].pc = "commit" /\ request[q].kind = "submit"
      /\ events[e].owner = NULL
      /\ sessions' = [sessions EXCEPT ![s].event_count = @ + 1]
      /\ events' = [events EXCEPT ![e] =
                      [owner |-> s, state |-> "pending", replays |-> 0]]
      /\ \E status \in Committed(202) : Answer(q, status)
      /\ UNCHANGED <<clock, jar>>

\* It refuses: the session has ended meanwhile, or has used up its events.
SubmitRefused(q) ==
  LET s == request[q].token.id
  IN  /\ request[q].pc = "operate" /\ request[q].kind = "submit"
      /\ Admission
      /\ \/ ~Live(s) /\ Answer(q, 401)
         \/ Live(s) /\ sessions[s].event_count = EventsPerSession /\ Answer(q, 429)
      /\ UNCHANGED <<clock, sessions, events, jar>>

\* Mutant: the event is looked up by its identifier alone.
Own_Any(s, e) == events[e].state # "absent"

\* The event is stored for session s.
Own(s, e) == events[e].owner = s /\ events[e].state # "absent"

\* Store.Replay: the first reason to refuse, or 202.
ReplayStatus(s, e) ==
  IF ~(Own(s, e) /\ Live(s)) THEN 404
  ELSE IF events[e].state # "dead_lettered" THEN 409
  ELSE IF events[e].replays >= SandboxReplays THEN 429
  ELSE 202

Replay(q) ==
  LET status == ReplayStatus(request[q].token.id, request[q].event)
  IN  /\ request[q].pc = "operate" /\ request[q].kind = "replay"
      /\ Admission
      /\ IF status = 202 THEN Goto(q, "commit") ELSE Answer(q, status)
      /\ UNCHANGED <<clock, sessions, events, jar>>

\* Its UPDATE asks for the owner only, and nobody looks at RowsAffected.
ReplayCommit(q) ==
  LET e == request[q].event
  IN  /\ request[q].pc = "commit" /\ request[q].kind = "replay"
      /\ events' = [events EXCEPT ![e] =
           IF Own(request[q].token.id, e)
           THEN [@ EXCEPT !.state = "pending", !.replays = events[e].replays + 1] ELSE @]
      /\ \E status \in Committed(202) : Answer(q, status)
      /\ UNCHANGED <<clock, sessions, jar>>

\* Reads.Detail, which looks at the source key and no longer at the session.
DetailRow(q) ==
  /\ request[q].pc = "operate" /\ request[q].kind = "detail"
  /\ IF Own(request[q].token.id, request[q].event) THEN Goto(q, "attempts") ELSE Answer(q, 404)
  /\ UNCHANGED <<clock, sessions, events, jar>>

\* detail_attempts, a statement of its own: Cleanup takes attempts and row together.
DetailAttempts(q) ==
  /\ request[q].pc = "attempts"
  /\ LET gone == events[request[q].event].state = "absent"
     IN  request' = [request EXCEPT ![q] = Answered([@ EXCEPT !.gone = gone], 200)]
  /\ UNCHANGED <<clock, sessions, events, jar>>

\* Reads.List, by source key; nothing depends on what it finds.
List(q) ==
  /\ request[q].pc = "operate" /\ request[q].kind = "list"
  /\ Answer(q, 200)
  /\ UNCHANGED <<clock, sessions, events, jar>>

\* A statement fails, or the five seconds of the request are over.
Unavailable(q) ==
  /\ Faults
  /\ request[q].pc \in {"active", "cleanup", "issue", "create", "operate", "commit", "attempts"}
  /\ Answer(q, 503)
  /\ UNCHANGED <<clock, sessions, events, jar>>

-----------------------------------------------------------------------------
(***************************************************************************)
(* The browser, the workers and the next-state relation.                   *)
(***************************************************************************)

\* The answer arrives; that to a creation sets the cookie.
Receive(q) ==
  /\ request[q].pc = "answered"
  /\ jar' = IF request[q].status = 201
            THEN [jar EXCEPT ![request[q].by] = request[q].issued] ELSE jar
  /\ request' = [request EXCEPT ![q] = Unsent]
  /\ UNCHANGED <<clock, sessions, events>>

Lose(q) ==
  /\ Faults
  /\ request[q].pc = "answered"
  /\ request' = [request EXCEPT ![q] = Unsent]
  /\ UNCHANGED <<clock, sessions, events, jar>>

\* Max-Age is over.
Forget(v) ==
  /\ jar[v] # NULL
  /\ jar[v].expires <= Unix(Now)
  /\ jar' = [jar EXCEPT ![v] = NULL]
  /\ UNCHANGED <<clock, sessions, events, request>>

\* A worker dead-letters an event.
Settle(e) ==
  /\ events[e].state = "pending"
  /\ events' = [events EXCEPT ![e].state = "dead_lettered"]
  /\ UNCHANGED <<clock, sessions, jar, request>>

\* The worker's own Cleanup.
WorkerCleanup ==
  /\ \E s \in SessionIds : Over(s)
  /\ Cleaned
  /\ UNCHANGED <<clock, jar, request>>

Handle(q) ==
  \/ Active(q) \/ CleanupFirst(q) \/ \E s \in SessionIds : IssueCookie(q, s)
  \/ Create(q) \/ Exhausted(q)
  \/ Submit(q) \/ \E e \in EventIds : SubmitCommit(q, e)
  \/ SubmitRefused(q) \/ Replay(q) \/ ReplayCommit(q) \/ DetailRow(q) \/ DetailAttempts(q) \/ List(q)
  \/ Unavailable(q)

Next ==
  \/ Tick \/ WorkerCleanup
  \/ \E q \in Requests :
       \/ Handle(q) \/ Receive(q) \/ Lose(q)
       \/ \E v \in Visitors, kind \in Kinds, e \in EventIds \cup {NULL} :
            \E token \in Carried(v) : Arrive(q, v, kind, e, token)
  \/ \E v \in Visitors : Forget(v)
  \/ \E e \in EventIds : Settle(e)

Spec == Init /\ [][Next]_vars

-----------------------------------------------------------------------------
(***************************************************************************)
(* Properties.                                                             *)
(***************************************************************************)

\* The session of a genuine cookie ends within a second, or has ended, by one of
\* the two clocks.
Ending(token) ==
  sessions[token.id].expires_at < clock + (IF Ahead > 0 THEN Ahead ELSE 0) + Second

Genuine(q) == IsGenuine(request[q].token)

\* A visitor with a cookie is denied, or told that an event of its own is
\* missing, or shown an event without its attempts, only when the session is
\* over: truncation to seconds, Cleanup and the two clocks take no more than a
\* second and their difference from it.
DeniedAtTheEnd ==
  \A q \in Requests :
    /\ request[q].pc = "answered"
    /\ Genuine(q)
    /\ \/ request[q].status = 401 \/ request[q].gone
       \/ /\ request[q].status = 404
          /\ events[request[q].event].owner = request[q].token.id
    => Ending(request[q].token)

\* A visitor with a cookie is given another session, and with it a fresh quota,
\* only when the first is over ("a valid existing cookie cannot mint a fresh quota
\* via repeated clicks").
FreshQuotaAtTheEnd ==
  \A q \in Requests :
    request[q].pc \in {"issue", "create"} /\ Genuine(q) => Ending(request[q].token)

\* Events change at the request of their own session's cookie only, and no answer
\* speaks of an event of another session.
OnlyOwn ==
  \A q \in Requests :
    /\ request[q].pc = "answered"
    /\ request[q].status \in {200, 202, 409}
    => Genuine(q) /\ events[request[q].event].owner = request[q].token.id

\* What a transaction has checked still holds when it commits, although time
\* passes, Cleanup and the workers run and the same browser submits and replays
\* meanwhile: the session's row is there for the foreign key of the new event and has
\* an event left, the dead letter is still one and has a replay left.  Replay looks at
\* neither again, and reports 202 even if its UPDATE finds no row.
AdmissionStands ==
  \A q \in Requests :
    request[q].pc = "commit" =>
      LET s == request[q].token.id
          e == request[q].event
      IN  /\ sessions[s].status = "stored"
          /\ request[q].kind = "submit" => sessions[s].event_count < EventsPerSession
          /\ request[q].kind = "replay" =>
               /\ Own(s, e) /\ events[e].state = "dead_lettered"
               /\ events[e].replays < SandboxReplays
=============================================================================
