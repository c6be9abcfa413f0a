--------------------------- MODULE Visitor_proofs ---------------------------
(***************************************************************************)
(* What a visitor is told, for any number of browsers, requests, sessions  *)
(* and events, any length of a second and of a session, and any difference *)
(* between the clocks of the API and of the database.                      *)
(***************************************************************************)
EXTENDS Visitor, TLAPS

-----------------------------------------------------------------------------
(***************************************************************************)
(* The inductive invariant.  The tables are parameters, so that the same   *)
(* definitions speak of the state before and after a step.                 *)
(***************************************************************************)
Issued == {"stored", "deleted"}

\* A genuine cookie names a session that was stored, with its expiry cut to
\* seconds.
TokenOK(token, ss) ==
  IsGenuine(token) =>
    /\ ss[token.id].status \in Issued
    /\ token.expires = Unix(ss[token.id].expires_at)

EndingAt(token, ss, t) ==
  ss[token.id].expires_at < t + (IF Ahead > 0 THEN Ahead ELSE 0) + Second

\* No session lasts longer than its lifetime from now on; only expired ones are
\* deleted.
SessionsOK(ss, t) ==
  \A s \in SessionIds :
    /\ ss[s].status \in Issued => ss[s].expires_at <= t + Ahead + SessionLifetime
    /\ ss[s].status = "deleted" => ss[s].expires_at <= t

\* An event is stored for a stored session, and is deleted when that is expired.
EventOK(row, ss, t) ==
  IF row.owner = NULL THEN row.state = "absent"
  ELSE /\ ss[row.owner].status \in Issued
       /\ IF row.state = "absent" THEN ss[row.owner].expires_at <= t
          ELSE ss[row.owner].status = "stored"

EventsOK(es, ss, t) == \A e \in EventIds : EventOK(es[e], ss, t)

\* A request before its answer: what its handler has seen so far.
UnderWay(r, ss, es, t) ==
  /\ r.pc \in {"active", "operate", "commit", "attempts"} =>
       /\ IsGenuine(r.token)
       /\ r.event = NULL <=> r.kind \in {"session", "submit", "list"}
       /\ r.kind = "session" => r.by \in Visitors
  /\ r.pc = "attempts" => r.event # NULL /\ es[r.event].owner = r.token.id
  /\ r.pc \in {"cleanup", "issue", "create"} =>
       /\ r.by \in Visitors
       /\ IsGenuine(r.token) => EndingAt(r.token, ss, t)
  /\ r.pc = "create" =>
       /\ r.issued \in Tokens
       /\ r.issued.expires = Unix(r.expiry)
       /\ r.expiry <= t + Ahead + SessionLifetime
  /\ r.pc # "answered" => ~r.gone

\* An answered request: what its answer means.
Reported(r, ss, es, t) ==
  r.pc = "answered" =>
    /\ r.status = 201 => r.by \in Visitors /\ r.issued \in Tokens /\ TokenOK(r.issued, ss)
    /\ r.status \in {200, 202, 404, 409} => r.event # NULL
    /\ /\ IsGenuine(r.token)
       /\ \/ r.status = 401 \/ r.gone
          \/ r.status = 404 /\ es[r.event].owner = r.token.id
       => EndingAt(r.token, ss, t)
    /\ r.status \in {200, 202, 409} =>
         IsGenuine(r.token) /\ es[r.event].owner = r.token.id

RequestOK(r, ss, es, t) ==
  /\ TokenOK(r.token, ss)
  /\ r.event # NULL => r.event \in EventIds /\ es[r.event].owner # NULL
  /\ UnderWay(r, ss, es, t)
  /\ Reported(r, ss, es, t)

\* The identifiers that Issue has drawn and Create has not stored yet.
Drawn ==
  /\ \A q \in Requests :
       request[q].pc = "create" => sessions[request[q].issued.id].status = "drawn"
  /\ \A p, q \in Requests :
       p # q /\ request[p].pc = "create" /\ request[q].pc = "create" =>
         request[p].issued.id # request[q].issued.id

VisitorInv ==
  /\ TypeOK
  /\ SessionsOK(sessions, clock)
  /\ EventsOK(events, sessions, clock)
  /\ \A v \in Visitors : TokenOK(jar[v], sessions)
  /\ \A q \in Requests : RequestOK(request[q], sessions, events, clock)
  /\ Drawn

\* At most one transaction is between its checks and its commit, and what it has
\* checked holds.
AdmissionInv ==
  /\ \A p, q \in Requests :
       request[p].pc = "commit" /\ request[q].pc = "commit" => p = q
  /\ AdmissionStands

\* What no step takes back: time passes, a session that was stored keeps its expiry,
\* and an event keeps its owner.
Evolve(ss, es, t, ss2, es2, t2) ==
  /\ t <= t2
  /\ \A s \in SessionIds : ss[s].status \in Issued =>
       ss2[s].status \in Issued /\ ss2[s].expires_at = ss[s].expires_at
  /\ \A e \in EventIds : es[e].owner # NULL => es2[e].owner = es[e].owner

-----------------------------------------------------------------------------
(***************************************************************************)
(* Numbers.                                                                *)
(***************************************************************************)

\* The types of the durations.
LEMMA Numbers ==
  /\ Second \in Nat /\ Second > 0
  /\ SessionLifetime \in Nat /\ SessionLifetime > 0
  /\ EventsPerSession \in Nat /\ SandboxReplays \in Nat /\ Horizon \in Nat
  /\ Ahead \in Int
BY VisitorAssumption

\* Cutting a time to whole seconds loses less than a second and keeps the order.
LEMMA UnixFacts ==
  ASSUME NEW x \in Int, NEW y \in Int
  PROVE  /\ Unix(x) \in Int
         /\ x <= y => Unix(x) <= Unix(y)
         /\ Unix(x) <= Unix(y) => x < y + Second
<1> DEFINE d == Second
           p == x \div d
           q == y \div d
<1>1. d \in Nat /\ d > 0
  BY Numbers
<1>2. p \in Int /\ q \in Int
  BY <1>1
<1>3. d * p <= x /\ x < d * p + d /\ d * q <= y /\ y < d * q + d
  BY <1>1
<1> HIDE DEF p, q, d
<1>4. ASSUME p > q
      PROVE  d * p >= d * q + d
  BY <1>1, <1>2, <1>4
<1>5. ASSUME p <= q
      PROVE  d * p <= d * q
  BY <1>1, <1>2, <1>5
<1>6. d * p \in Int /\ d * q \in Int
  BY <1>1, <1>2
<1>7. x <= y => p <= q
  <2> DEFINE dp == d * p
             dq == d * q
  <2>1. dp \in Int /\ dq \in Int /\ dp <= x /\ y < dq + d /\ (p > q => dp >= dq + d)
    BY <1>3, <1>4, <1>6
  <2> HIDE DEF dp, dq
  <2> QED
    BY <1>1, <1>2, <2>1
<1>8. p <= q => x < y + d
  <2> DEFINE dp == d * p
             dq == d * q
  <2>1. dp \in Int /\ dq \in Int /\ x < dp + d /\ dq <= y /\ (p <= q => dp <= dq)
    BY <1>3, <1>5, <1>6
  <2> HIDE DEF dp, dq
  <2> QED
    BY <1>1, <1>2, <2>1
<1> QED
  BY <1>2, <1>7, <1>8 DEF Unix, p, q, d

-----------------------------------------------------------------------------
(***************************************************************************)
(* Answers and frames.                                                     *)
(***************************************************************************)

\* A request that is not under way is a request.
LEMMA UnsentTyped ==
  /\ Unsent \in RequestStates
  /\ Unsent.pc = "unsent" /\ Unsent.event = NULL /\ Unsent.token = NULL
  /\ Unsent.gone = FALSE
  /\ DOMAIN Unsent = {"pc", "by", "kind", "event", "token", "issued", "expiry", "status", "gone"}
BY DEF Unsent, RequestStates, Places

\* Nothing is claimed of a request that was not sent.
LEMMA UnsentOK ==
  ASSUME NEW ss, NEW es, NEW t
  PROVE  RequestOK(Unsent, ss, es, t)
BY UnsentTyped DEF RequestOK, TokenOK, IsGenuine, UnderWay, Reported

\* What Answered keeps of a request.
LEMMA AnsweredShape ==
  ASSUME NEW r \in RequestStates, NEW status \in Nat
  PROVE  LET a == Answered(r, status) IN
         /\ a \in RequestStates
         /\ \/ a = Unsent
            \/ /\ status = 201 /\ a.pc = "answered" /\ a.status = 201 /\ a.by = r.by
               /\ a.issued = r.issued /\ a.token = NULL /\ a.event = NULL /\ ~a.gone
            \/ /\ status = 401 /\ IsGenuine(r.token) /\ a.pc = "answered" /\ a.status = 401
               /\ a.token = r.token /\ a.event = NULL /\ ~a.gone
            \/ /\ status \in {200, 202, 404, 409} /\ r.event # NULL /\ a.pc = "answered"
               /\ a.status = status /\ a.token = r.token /\ a.event = r.event /\ a.gone = r.gone
<1> DEFINE a == Answered(r, status)
<1>1. PICK u \in RequestStates : u = Unsent
  BY UnsentTyped
<1>2. u.token = NULL /\ u.event = NULL /\ u.gone = FALSE
  BY <1>1, UnsentTyped
<1>3. CASE status = 201
  <2>1. a = [u EXCEPT !.pc = "answered", !.status = status, !.by = r.by, !.issued = r.issued]
    BY <1>1, <1>3 DEF Answered
  <2> HIDE DEF a
  <2>2. a \in RequestStates
    BY <2>1, <1>2 DEF RequestStates, Places
  <2>3. /\ a.pc = "answered" /\ a.status = 201 /\ a.by = r.by
        /\ a.issued = r.issued /\ a.token = NULL /\ a.event = NULL /\ ~a.gone
    BY <2>1, <1>2, <1>3 DEF RequestStates
  <2> QED
    BY <2>2, <2>3, <1>3 DEF a
<1>4. CASE status = 401 /\ IsGenuine(r.token)
  <2>1. a = [u EXCEPT !.pc = "answered", !.status = status, !.token = r.token]
    BY <1>1, <1>4 DEF Answered
  <2> HIDE DEF a
  <2>2. a \in RequestStates
    BY <2>1, <1>2 DEF RequestStates, Places
  <2>3. /\ a.pc = "answered" /\ a.status = 401
        /\ a.token = r.token /\ a.event = NULL /\ ~a.gone
    BY <2>1, <1>2, <1>4 DEF RequestStates
  <2> QED
    BY <2>2, <2>3, <1>4 DEF a
<1>5. CASE status \in {200, 202, 404, 409} /\ r.event # NULL
  <2>1. a = [u EXCEPT !.pc = "answered", !.status = status, !.token = r.token,
                      !.event = r.event, !.gone = r.gone]
    BY <1>1, <1>5 DEF Answered
  <2> HIDE DEF a
  <2>2. a \in RequestStates
    BY <2>1, <1>2, <1>5 DEF RequestStates, Places
  <2>3. /\ a.pc = "answered" /\ a.status = status
        /\ a.token = r.token /\ a.event = r.event /\ a.gone = r.gone
    BY <2>1, <1>2, <1>5 DEF RequestStates
  <2> QED
    BY <2>2, <2>3, <1>5 DEF a
<1>6. CASE /\ status # 201 /\ ~(status = 401 /\ IsGenuine(r.token))
           /\ ~(status \in {200, 202, 404, 409} /\ r.event # NULL)
  BY <1>6, UnsentTyped DEF Answered
<1> QED
  BY <1>3, <1>4, <1>5, <1>6

\* When an answer means what Reported says of it.
LEMMA AnsweredOK ==
  ASSUME NEW r \in RequestStates, NEW status \in Nat, NEW ss, NEW es, NEW t,
         TokenOK(r.token, ss),
         r.event # NULL => r.event \in EventIds /\ es[r.event].owner # NULL,
         status = 201 => r.by \in Visitors /\ r.issued \in Tokens /\ TokenOK(r.issued, ss),
         status = 401 /\ IsGenuine(r.token) => EndingAt(r.token, ss, t),
         r.event # NULL /\ status \in {200, 202, 409} =>
           IsGenuine(r.token) /\ es[r.event].owner = r.token.id,
         r.event # NULL /\ status = 404 /\ IsGenuine(r.token)
           /\ es[r.event].owner = r.token.id => EndingAt(r.token, ss, t),
         r.event # NULL /\ r.gone /\ IsGenuine(r.token) => EndingAt(r.token, ss, t)
  PROVE  /\ Answered(r, status) \in RequestStates
         /\ Answered(r, status).pc # "create"
         /\ RequestOK(Answered(r, status), ss, es, t)
<1>1. PICK a \in RequestStates : a = Answered(r, status)
  BY AnsweredShape
<1>2. CASE a = Unsent
  BY <1>1, <1>2, UnsentTyped, UnsentOK
<1>3. CASE /\ status = 201 /\ a.pc = "answered" /\ a.status = 201 /\ a.by = r.by
           /\ a.issued = r.issued /\ a.token = NULL /\ a.event = NULL /\ ~a.gone
  <2>1. RequestOK(a, ss, es, t)
    BY <1>3 DEF RequestOK, TokenOK, IsGenuine, UnderWay, Reported
  <2> QED
    BY <2>1, <1>1, <1>3
<1>4. CASE /\ status = 401 /\ IsGenuine(r.token) /\ a.pc = "answered" /\ a.status = 401
           /\ a.token = r.token /\ a.event = NULL /\ ~a.gone
  <2>1. RequestOK(a, ss, es, t)
    BY <1>4 DEF RequestOK, UnderWay, Reported
  <2> QED
    BY <2>1, <1>1, <1>4
<1>5. CASE /\ status \in {200, 202, 404, 409} /\ r.event # NULL /\ a.pc = "answered"
           /\ a.status = status /\ a.token = r.token /\ a.event = r.event /\ a.gone = r.gone
  <2>1. RequestOK(a, ss, es, t)
    BY <1>5 DEF RequestOK, UnderWay, Reported
  <2> QED
    BY <2>1, <1>1, <1>5
<1> QED
  BY <1>1, <1>2, <1>3, <1>4, <1>5, AnsweredShape

\* A session that is about to end, or has ended, remains so.
LEMMA EndingKept ==
  ASSUME NEW token \in Tokens,
         NEW ss \in [SessionIds -> SessionRows], NEW ss2 \in [SessionIds -> SessionRows],
         NEW t \in Int, NEW t2 \in Int, t <= t2,
         ss2[token.id].expires_at = ss[token.id].expires_at,
         EndingAt(token, ss, t)
  PROVE  EndingAt(token, ss2, t2)
<1>1. token.id \in SessionIds
  BY DEF Tokens
<1>2. ss[token.id].expires_at \in Int
  BY <1>1 DEF SessionRows
<1>3. PICK x \in Int : x = ss[token.id].expires_at /\ x = ss2[token.id].expires_at
  BY <1>2
<1>4. PICK ahead \in Int : ahead = IF Ahead > 0 THEN Ahead ELSE 0
  BY Numbers
<1>5. x < t + ahead + Second
  BY <1>3, <1>4 DEF EndingAt
<1>6. x < t2 + ahead + Second
  BY <1>5, Numbers
<1> QED
  BY <1>3, <1>4, <1>6 DEF EndingAt

\* What is known of a cookie remains true.
LEMMA TokenKept ==
  ASSUME NEW token \in Tokens \cup {NULL}, NEW ss, NEW ss2, NEW es, NEW es2, NEW t, NEW t2,
         Evolve(ss, es, t, ss2, es2, t2), TokenOK(token, ss)
  PROVE  TokenOK(token, ss2)
BY DEF TokenOK, IsGenuine, Evolve, Tokens

\* What is known of a request remains true while others are handled.
LEMMA RequestKept ==
  ASSUME NEW r \in RequestStates,
         NEW ss \in [SessionIds -> SessionRows], NEW ss2 \in [SessionIds -> SessionRows],
         NEW es, NEW es2, NEW t \in Int, NEW t2 \in Int,
         Evolve(ss, es, t, ss2, es2, t2), RequestOK(r, ss, es, t)
  PROVE  RequestOK(r, ss2, es2, t2)
<1>1. r.token \in Tokens \cup {NULL} /\ r.issued \in Tokens \cup {NULL}
  BY DEF RequestStates
<1>2. TokenOK(r.token, ss2)
  BY <1>1, TokenKept DEF RequestOK
<1>3. t <= t2
  BY DEF Evolve
<1>4. ASSUME IsGenuine(r.token), EndingAt(r.token, ss, t)
      PROVE  EndingAt(r.token, ss2, t2)
  <2>1. r.token \in Tokens
    BY <1>1, <1>4 DEF IsGenuine
  <2>2. r.token.id \in SessionIds
    BY <2>1 DEF Tokens
  <2>3. ss2[r.token.id].expires_at = ss[r.token.id].expires_at
    BY <1>4, <2>2 DEF RequestOK, TokenOK, Evolve
  <2> QED
    BY <1>3, <1>4, <2>1, <2>3, EndingKept
<1>5. r.event # NULL => /\ r.event \in EventIds /\ es2[r.event].owner # NULL
                        /\ es2[r.event].owner = es[r.event].owner
  BY DEF RequestOK, Evolve
<1>6. UnderWay(r, ss2, es2, t2)
  <2>1. UnderWay(r, ss, es, t)
    BY DEF RequestOK
  <2>2. r.expiry <= t + Ahead + SessionLifetime => r.expiry <= t2 + Ahead + SessionLifetime
    <3>1. PICK x \in Int : x = r.expiry
      BY DEF RequestStates
    <3> QED
      BY <3>1, <1>3, Numbers
  <2> QED
    BY <2>1, <2>2, <1>4, <1>5 DEF UnderWay
<1>7. Reported(r, ss2, es2, t2)
  <2>1. Reported(r, ss, es, t)
    BY DEF RequestOK
  <2>2. TokenOK(r.issued, ss) => TokenOK(r.issued, ss2)
    BY <1>1, TokenKept
  <2> QED
    BY <2>1, <2>2, <1>4, <1>5 DEF Reported
<1> QED
  BY <1>2, <1>5, <1>6, <1>7 DEF RequestOK

\* The state of the requests after a step that moves one of them to r.
LEMMA RequestsKept ==
  ASSUME VisitorInv, NEW q \in Requests, NEW r \in RequestStates,
         request' = [request EXCEPT ![q] = r],
         NEW ss2 \in [SessionIds -> SessionRows], NEW es2, NEW t2 \in Int,
         Evolve(sessions, events, clock, ss2, es2, t2),
         RequestOK(r, ss2, es2, t2)
  PROVE  /\ request' \in [Requests -> RequestStates]
         /\ \A p \in Requests : RequestOK(request'[p], ss2, es2, t2)
<1>1. /\ request \in [Requests -> RequestStates] /\ clock \in Int
      /\ sessions \in [SessionIds -> SessionRows]
  BY Numbers DEF VisitorInv, TypeOK
<1>2. ASSUME NEW p \in Requests
      PROVE  RequestOK(request'[p], ss2, es2, t2)
  <2>1. CASE p = q
    BY <1>1, <2>1
  <2>2. CASE p # q
    <3>1. request'[p] = request[p] /\ request[p] \in RequestStates
      BY <1>1, <2>2
    <3>2. RequestOK(request[p], sessions, events, clock)
      BY DEF VisitorInv
    <3> QED
      BY <1>1, <3>1, <3>2, RequestKept
  <2> QED
    BY <2>1, <2>2
<1> QED
  BY <1>1, <1>2

\* Identifiers that are not stored yet, after a step that does not draw one.
LEMMA DrawnKept ==
  ASSUME VisitorInv, NEW q \in Requests, NEW r \in RequestStates, r.pc # "create",
         request' = [request EXCEPT ![q] = r],
         \A p \in Requests \ {q} : request[p].pc = "create" =>
           sessions'[request[p].issued.id].status = "drawn"
  PROVE  Drawn'
<1>1. request \in [Requests -> RequestStates]
  BY DEF VisitorInv, TypeOK
<1>2. request'[q].pc # "create" /\ \A p \in Requests : p # q => request'[p] = request[p]
  BY <1>1
<1> QED
  BY <1>2 DEF Drawn, VisitorInv

\* A step of a handler that changes nothing but its own request.
LEMMA QuietStep ==
  ASSUME VisitorInv, NEW q \in Requests, NEW r \in RequestStates, r.pc # "create",
         request' = [request EXCEPT ![q] = r],
         RequestOK(r, sessions, events, clock),
         UNCHANGED <<clock, sessions, events>>,
         jar' \in [Visitors -> Tokens \cup {NULL}],
         \A v \in Visitors : TokenOK(jar'[v], sessions)
  PROVE  VisitorInv'
<1>1. /\ clock \in Int /\ sessions \in [SessionIds -> SessionRows]
      /\ Evolve(sessions, events, clock, sessions, events, clock)
  BY Numbers DEF VisitorInv, TypeOK, Evolve
<1>2. /\ request' \in [Requests -> RequestStates]
      /\ \A p \in Requests : RequestOK(request'[p], sessions, events, clock)
  BY <1>1, RequestsKept
<1>3. sessions' = sessions /\ events' = events /\ clock' = clock
  OBVIOUS
<1>4. Drawn'
  BY <1>3, DrawnKept DEF VisitorInv, Drawn
<1> QED
  BY <1>2, <1>3, <1>4 DEF VisitorInv, TypeOK

\* What the invariant says of one request, with its types.
LEMMA RequestFacts ==
  ASSUME VisitorInv, NEW q \in Requests
  PROVE  /\ request \in [Requests -> RequestStates] /\ request[q] \in RequestStates
         /\ request[q].token \in Tokens \cup {NULL}
         /\ IsGenuine(request[q].token) =>
              request[q].token \in Tokens /\ request[q].token.id \in SessionIds
         /\ TokenOK(request[q].token, sessions)
         /\ request[q].event # NULL =>
              request[q].event \in EventIds /\ events[request[q].event].owner # NULL
         /\ UnderWay(request[q], sessions, events, clock)
         /\ Reported(request[q], sessions, events, clock)
         /\ clock \in Int /\ sessions \in [SessionIds -> SessionRows]
         /\ events \in [EventIds -> EventRows]
<1>1. request[q] \in RequestStates
  BY DEF VisitorInv, TypeOK
<1>2. request[q].token \in Tokens \cup {NULL}
  BY <1>1 DEF RequestStates
<1>3. IsGenuine(request[q].token) =>
        request[q].token \in Tokens /\ request[q].token.id \in SessionIds
  BY <1>2 DEF IsGenuine, Tokens
<1>4. RequestOK(request[q], sessions, events, clock)
  BY DEF VisitorInv
<1>5. clock \in Int
  BY Numbers DEF VisitorInv, TypeOK
<1> QED
  BY <1>1, <1>2, <1>3, <1>4, <1>5 DEF RequestOK, VisitorInv, TypeOK

\* A genuine cookie whose session is not live belongs to one that is over.
LEMMA NotLiveEnding ==
  ASSUME VisitorInv, NEW token \in Tokens, IsGenuine(token), TokenOK(token, sessions),
         ~Live(token.id)
  PROVE  EndingAt(token, sessions, clock)
<1>1. token.id \in SessionIds
  BY DEF Tokens
<1>2. PICK x \in Int : x = sessions[token.id].expires_at
  BY <1>1 DEF VisitorInv, TypeOK, SessionRows
<1>3. x <= clock
  <2>1. sessions[token.id].status \in {"stored", "deleted"}
    BY DEF TokenOK, Issued
  <2>2. CASE sessions[token.id].status = "deleted"
    BY <1>1, <1>2, <2>2 DEF VisitorInv, SessionsOK
  <2>3. CASE sessions[token.id].status = "stored"
    <3>1. clock \in Int
      BY Numbers DEF VisitorInv, TypeOK
    <3> QED
      BY <1>2, <2>3, <3>1 DEF Live
  <2> QED
    BY <2>1, <2>2, <2>3
<1>4. PICK ahead \in Int : ahead = (IF Ahead > 0 THEN Ahead ELSE 0) /\ ahead >= 0
  BY Numbers
<1>5. x < clock + ahead + Second
  <2>1. clock \in Int
    BY Numbers DEF VisitorInv, TypeOK
  <2> QED
    BY <2>1, <1>3, <1>4, Numbers
<1> QED
  BY <1>2, <1>4, <1>5 DEF EndingAt

\* A genuine cookie that Validate rejects belongs to a session in its last second.
LEMMA RejectedEnding ==
  ASSUME VisitorInv, NEW token \in Tokens, IsGenuine(token), TokenOK(token, sessions),
         ~Validate(token, Now)
  PROVE  EndingAt(token, sessions, clock)
<1>1. token.id \in SessionIds
  BY DEF Tokens
<1>2. PICK x \in Int : x = sessions[token.id].expires_at
  BY <1>1 DEF VisitorInv, TypeOK, SessionRows
<1>3. clock \in Int
  BY Numbers DEF VisitorInv, TypeOK
<1>4. PICK now \in Int : now = Now /\ now = clock + Ahead
  BY <1>3, Numbers DEF Now
<1>5. token.expires = Unix(x)
  BY <1>2 DEF TokenOK
<1>6. x <= now + SessionLifetime
  <2>1. sessions[token.id].status \in Issued
    BY DEF TokenOK
  <2> QED
    BY <1>1, <1>2, <1>4, <2>1 DEF VisitorInv, SessionsOK
<1>7. now + SessionLifetime \in Int
  BY Numbers
<1>8. Unix(x) <= Unix(now + SessionLifetime)
  BY <1>6, <1>7, UnixFacts
<1>9. ~(Unix(x) > Unix(now))
  BY <1>4, <1>5, <1>8 DEF Validate, IsGenuine
<1>10. Unix(x) <= Unix(now)
  BY <1>9, UnixFacts
<1>11. x < now + Second
  BY <1>10, UnixFacts
<1>12. PICK ahead \in Int : ahead = (IF Ahead > 0 THEN Ahead ELSE 0) /\ ahead >= Ahead
  BY Numbers
<1>13. x < clock + ahead + Second
  BY <1>3, <1>4, <1>11, <1>12, Numbers
<1> QED
  BY <1>2, <1>12, <1>13 DEF EndingAt

\* An answer that changes nothing else.
LEMMA AnswerStep ==
  ASSUME VisitorInv, NEW q \in Requests, NEW status \in Nat \ {201},
         request[q].pc # "answered",
         Answer(q, status), UNCHANGED <<clock, sessions, events, jar>>,
         status = 401 /\ IsGenuine(request[q].token) =>
           EndingAt(request[q].token, sessions, clock),
         request[q].event # NULL /\ status \in {200, 202, 409} =>
           /\ IsGenuine(request[q].token)
           /\ events[request[q].event].owner = request[q].token.id,
         request[q].event # NULL /\ status = 404 /\ IsGenuine(request[q].token)
           /\ events[request[q].event].owner = request[q].token.id =>
              EndingAt(request[q].token, sessions, clock)
  PROVE  VisitorInv'
<1>1. PICK r \in RequestStates : r = request[q]
  BY RequestFacts
<1>2. /\ TokenOK(r.token, sessions)
      /\ r.event # NULL => r.event \in EventIds /\ events[r.event].owner # NULL
      /\ ~r.gone
  BY <1>1, RequestFacts DEF UnderWay
<1>3. /\ Answered(r, status) \in RequestStates
      /\ Answered(r, status).pc # "create"
      /\ RequestOK(Answered(r, status), sessions, events, clock)
  <2>1. status # 201
    OBVIOUS
  <2>2. /\ status = 401 /\ IsGenuine(r.token) => EndingAt(r.token, sessions, clock)
        /\ r.event # NULL /\ status \in {200, 202, 409} =>
             IsGenuine(r.token) /\ events[r.event].owner = r.token.id
        /\ r.event # NULL /\ status = 404 /\ IsGenuine(r.token)
             /\ events[r.event].owner = r.token.id => EndingAt(r.token, sessions, clock)
    BY <1>1
  <2> QED
    BY <1>2, <2>1, <2>2, AnsweredOK
<1>4. request' = [request EXCEPT ![q] = Answered(r, status)]
  BY <1>1, RequestFacts DEF Answer
<1>5. /\ jar' \in [Visitors -> Tokens \cup {NULL}]
      /\ \A v \in Visitors : TokenOK(jar'[v], sessions)
  BY DEF VisitorInv, TypeOK
<1> QED
  BY <1>3, <1>4, <1>5, QuietStep

\* A request that moves on has the same fields otherwise.
LEMMA Moved ==
  ASSUME NEW r \in RequestStates, NEW place \in Places
  PROVE  LET m == [r EXCEPT !.pc = place] IN
         /\ m \in RequestStates /\ m.pc = place
         /\ m.by = r.by /\ m.kind = r.kind /\ m.event = r.event /\ m.token = r.token
         /\ m.issued = r.issued /\ m.expiry = r.expiry /\ m.gone = r.gone
BY DEF RequestStates

\* A handler that moves on without changing anything else.
LEMMA GotoStep ==
  ASSUME VisitorInv, NEW q \in Requests, NEW place \in Places \ {"answered", "create"},
         request[q].pc # "answered",
         Goto(q, place), UNCHANGED <<clock, sessions, events, jar>>,
         \A m \in RequestStates :
           /\ m.pc = place /\ m.by = request[q].by /\ m.kind = request[q].kind
           /\ m.event = request[q].event /\ m.token = request[q].token
           /\ m.gone = request[q].gone
           => UnderWay(m, sessions, events, clock)
  PROVE  VisitorInv'
<1>1. PICK r \in RequestStates : r = request[q]
  BY RequestFacts
<1>2. PICK m : m = [r EXCEPT !.pc = place]
  OBVIOUS
<1>3. /\ m \in RequestStates /\ m.pc = place
      /\ m.by = r.by /\ m.kind = r.kind /\ m.event = r.event /\ m.token = r.token
      /\ m.gone = r.gone
  BY <1>2, Moved
<1>4. request' = [request EXCEPT ![q] = m]
  BY <1>1, <1>2, RequestFacts DEF Goto
<1>5. RequestOK(m, sessions, events, clock)
  <2>1. UnderWay(m, sessions, events, clock)
    BY <1>1, <1>3
  <2>2. Reported(m, sessions, events, clock)
    BY <1>3 DEF Reported
  <2> QED
    BY <1>1, <1>3, <2>1, <2>2, RequestFacts DEF RequestOK
<1>6. /\ jar' \in [Visitors -> Tokens \cup {NULL}]
      /\ \A v \in Visitors : TokenOK(jar'[v], sessions)
  BY DEF VisitorInv, TypeOK
<1> QED
  BY <1>3, <1>4, <1>5, <1>6, QuietStep

-----------------------------------------------------------------------------
(***************************************************************************)
(* The actions that change no table.                                       *)
(***************************************************************************)

\* Store.Active: who is turned away here, has a session that is over.
LEMMA ActiveInv ==
  ASSUME VisitorInv, NEW q \in Requests, Active(q)
  PROVE  VisitorInv'
<1>1. request[q].pc = "active" /\ UNCHANGED <<clock, sessions, events, jar>>
  BY DEF Active
<1>2. /\ IsGenuine(request[q].token) /\ request[q].token \in Tokens
      /\ TokenOK(request[q].token, sessions)
      /\ request[q].event = NULL <=> request[q].kind \in {"session", "submit", "list"}
      /\ request[q].kind = "session" => request[q].by \in Visitors
      /\ ~request[q].gone
  BY <1>1, RequestFacts DEF UnderWay
<1>3. ~Live(request[q].token.id) => EndingAt(request[q].token, sessions, clock)
  BY <1>2, NotLiveEnding
<1>4. CASE request[q].kind = "session" /\ Answer(q, 200)
  BY <1>1, <1>2, <1>4, AnswerStep
<1>5. CASE request[q].kind # "session" /\ Goto(q, "operate")
  <2>1. \A m \in RequestStates :
           /\ m.pc = "operate" /\ m.by = request[q].by /\ m.kind = request[q].kind
           /\ m.event = request[q].event /\ m.token = request[q].token
           /\ m.gone = request[q].gone
           => UnderWay(m, sessions, events, clock)
    BY <1>2 DEF UnderWay
  <2> QED
    BY <1>1, <1>5, <2>1, GotoStep DEF Places
<1>6. CASE request[q].kind # "session" /\ Answer(q, 400)
  BY <1>1, <1>6, AnswerStep
<1>7. CASE ~Live(request[q].token.id) /\ request[q].kind = "session" /\ Goto(q, "cleanup")
  <2>1. \A m \in RequestStates :
           /\ m.pc = "cleanup" /\ m.by = request[q].by /\ m.kind = request[q].kind
           /\ m.event = request[q].event /\ m.token = request[q].token
           /\ m.gone = request[q].gone
           => UnderWay(m, sessions, events, clock)
    BY <1>2, <1>3, <1>7 DEF UnderWay
  <2> QED
    BY <1>1, <1>7, <2>1, GotoStep DEF Places
<1>8. CASE ~Live(request[q].token.id) /\ Answer(q, 401)
  BY <1>1, <1>3, <1>8, AnswerStep
<1> QED
  BY <1>4, <1>5, <1>6, <1>7, <1>8 DEF Active

\* ErrQuota says nothing of a session.
LEMMA ExhaustedInv ==
  ASSUME VisitorInv, NEW q \in Requests, Exhausted(q)
  PROVE  VisitorInv'
<1>1. /\ request[q].pc # "answered" /\ Answer(q, 429)
      /\ UNCHANGED <<clock, sessions, events, jar>>
  BY DEF Exhausted
<1> QED
  BY <1>1, AnswerStep

\* A submission is refused with 401 only after the end.
LEMMA SubmitRefusedInv ==
  ASSUME VisitorInv, NEW q \in Requests, SubmitRefused(q)
  PROVE  VisitorInv'
<1>1. /\ request[q].pc = "operate" /\ UNCHANGED <<clock, sessions, events, jar>>
      /\ \/ ~Live(request[q].token.id) /\ Answer(q, 401)
         \/ Answer(q, 429)
  BY DEF SubmitRefused
<1>2. /\ IsGenuine(request[q].token) /\ request[q].token \in Tokens
      /\ TokenOK(request[q].token, sessions)
  BY <1>1, RequestFacts DEF UnderWay
<1>3. CASE ~Live(request[q].token.id) /\ Answer(q, 401)
  BY <1>1, <1>2, <1>3, NotLiveEnding, AnswerStep
<1>4. CASE Answer(q, 429)
  BY <1>1, <1>4, AnswerStep
<1> QED
  BY <1>1, <1>3, <1>4

\* An event that is missing although it is the session's own was deleted after its end.
LEMMA MissingEnding ==
  ASSUME VisitorInv, NEW e \in EventIds, NEW token \in Tokens,
         IsGenuine(token), TokenOK(token, sessions),
         events[e].owner = token.id, events[e].state = "absent"
  PROVE  EndingAt(token, sessions, clock)
<1>1. token.id \in SessionIds
  BY DEF Tokens
<1>2. token.id # NULL
  BY <1>1, VisitorAssumption
<1>3. sessions[token.id].expires_at <= clock
  BY <1>2 DEF VisitorInv, EventsOK, EventOK
<1>4. sessions[token.id].expires_at \in Int /\ clock \in Int
  BY <1>1, Numbers DEF VisitorInv, TypeOK, SessionRows
<1>5. ~Live(token.id)
  BY <1>3, <1>4 DEF Live
<1> QED
  BY <1>5, NotLiveEnding

\* Reads.Detail: the visitor's own event is found unless its session is over.
LEMMA DetailRowInv ==
  ASSUME VisitorInv, NEW q \in Requests, DetailRow(q)
  PROVE  VisitorInv'
<1>1. /\ request[q].pc = "operate" /\ request[q].kind = "detail"
      /\ UNCHANGED <<clock, sessions, events, jar>>
  BY DEF DetailRow
<1>2. /\ IsGenuine(request[q].token) /\ request[q].token \in Tokens
      /\ TokenOK(request[q].token, sessions)
      /\ request[q].event # NULL /\ request[q].event \in EventIds /\ ~request[q].gone
  BY <1>1, RequestFacts DEF UnderWay
<1>3. CASE Own(request[q].token.id, request[q].event) /\ Goto(q, "attempts")
  <2>1. events[request[q].event].owner = request[q].token.id
    BY <1>3 DEF Own
  <2>2. \A m \in RequestStates :
           /\ m.pc = "attempts" /\ m.by = request[q].by /\ m.kind = request[q].kind
           /\ m.event = request[q].event /\ m.token = request[q].token
           /\ m.gone = request[q].gone
           => UnderWay(m, sessions, events, clock)
    BY <1>1, <1>2, <2>1 DEF UnderWay
  <2> QED
    BY <1>1, <1>3, <2>2, GotoStep DEF Places
<1>4. CASE ~Own(request[q].token.id, request[q].event) /\ Answer(q, 404)
  <2>1. events[request[q].event].owner = request[q].token.id =>
          EndingAt(request[q].token, sessions, clock)
    BY <1>2, <1>4, MissingEnding DEF Own
  <2> QED
    BY <1>1, <1>4, <2>1, AnswerStep
<1> QED
  BY <1>3, <1>4 DEF DetailRow

\* detail_attempts: the attempts are missing only if the session is over.
LEMMA DetailAttemptsInv ==
  ASSUME VisitorInv, NEW q \in Requests, DetailAttempts(q)
  PROVE  VisitorInv'
<1>1. request[q].pc = "attempts" /\ UNCHANGED <<clock, sessions, events, jar>>
  BY DEF DetailAttempts
<1>2. PICK r \in RequestStates : r = request[q]
  BY RequestFacts
<1>3. /\ IsGenuine(r.token) /\ r.token \in Tokens /\ TokenOK(r.token, sessions)
      /\ r.event # NULL /\ r.event \in EventIds /\ events[r.event].owner # NULL
      /\ events[r.event].owner = r.token.id
  BY <1>1, <1>2, RequestFacts DEF UnderWay
<1>4. PICK m : m = [r EXCEPT !.gone = events[r.event].state = "absent"]
  OBVIOUS
<1>5. /\ m \in RequestStates /\ m.token = r.token /\ m.event = r.event
      /\ m.gone = (events[r.event].state = "absent")
  BY <1>4 DEF RequestStates
<1>6. request' = [request EXCEPT ![q] = Answered(m, 200)]
  BY <1>2, <1>4, RequestFacts DEF DetailAttempts
<1>7. m.gone => EndingAt(m.token, sessions, clock)
  BY <1>3, <1>5, MissingEnding
<1>8. /\ TokenOK(m.token, sessions) /\ IsGenuine(m.token) /\ m.event \in EventIds
      /\ events[m.event].owner # NULL /\ events[m.event].owner = m.token.id
  BY <1>3, <1>5
<1>9. /\ Answered(m, 200) \in RequestStates
      /\ Answered(m, 200).pc # "create"
      /\ RequestOK(Answered(m, 200), sessions, events, clock)
  BY <1>5, <1>7, <1>8, AnsweredOK
<1>10. /\ jar' \in [Visitors -> Tokens \cup {NULL}]
       /\ \A v \in Visitors : TokenOK(jar'[v], sessions)
  BY <1>1 DEF VisitorInv, TypeOK
<1> QED
  BY <1>1, <1>6, <1>9, <1>10, QuietStep

\* Reads.List names no event.
LEMMA ListInv ==
  ASSUME VisitorInv, NEW q \in Requests, List(q)
  PROVE  VisitorInv'
<1>1. /\ request[q].pc = "operate" /\ request[q].kind = "list"
      /\ Answer(q, 200) /\ UNCHANGED <<clock, sessions, events, jar>>
  BY DEF List
<1>2. request[q].event = NULL
  BY <1>1, RequestFacts DEF UnderWay
<1> QED
  BY <1>1, <1>2, AnswerStep

\* A 503 says nothing of a session.
LEMMA UnavailableInv ==
  ASSUME VisitorInv, NEW q \in Requests, Unavailable(q)
  PROVE  VisitorInv'
<1>1. /\ request[q].pc # "answered" /\ Answer(q, 503)
      /\ UNCHANGED <<clock, sessions, events, jar>>
  BY DEF Unavailable
<1> QED
  BY <1>1, AnswerStep

\* A lost answer leaves no trace.
LEMMA LoseInv ==
  ASSUME VisitorInv, NEW q \in Requests, Lose(q)
  PROVE  VisitorInv'
<1>1. /\ jar' \in [Visitors -> Tokens \cup {NULL}]
      /\ \A v \in Visitors : TokenOK(jar'[v], sessions)
  BY DEF VisitorInv, TypeOK, Lose
<1> QED
  BY <1>1, UnsentTyped, UnsentOK, QuietStep DEF Lose

\* A cookie is set from the answer to a creation, which names a stored session.
LEMMA ReceiveInv ==
  ASSUME VisitorInv, NEW q \in Requests, Receive(q)
  PROVE  VisitorInv'
<1>1. request[q].status = 201 => /\ request[q].by \in Visitors /\ request[q].issued \in Tokens
                                 /\ TokenOK(request[q].issued, sessions)
  BY RequestFacts DEF Receive, Reported
<1>2. jar \in [Visitors -> Tokens \cup {NULL}] /\ \A v \in Visitors : TokenOK(jar[v], sessions)
  BY DEF VisitorInv, TypeOK
<1>3. /\ jar' \in [Visitors -> Tokens \cup {NULL}]
      /\ \A v \in Visitors : TokenOK(jar'[v], sessions)
  BY <1>1, <1>2 DEF Receive
<1> QED
  BY <1>3, UnsentTyped, UnsentOK, QuietStep DEF Receive

\* What a browser sends is no cookie, a cookie of a stored session or no genuine one.
LEMMA CarriedFacts ==
  ASSUME VisitorInv, NEW v \in Visitors, NEW token \in Carried(v)
  PROVE  /\ token \in Tokens \cup {NULL} /\ TokenOK(token, sessions)
         /\ IsGenuine(token) => token \in Tokens
<1>1. CASE token = NULL
  BY <1>1 DEF TokenOK, IsGenuine
<1>2. CASE token = jar[v]
  BY <1>2 DEF TokenOK, IsGenuine, VisitorInv, TypeOK
<1>3. ASSUME NEW s \in SessionIds,
             token = [id |-> s, expires |-> Unix(Now) + 1, genuine |-> FALSE]
      PROVE  /\ token \in Tokens \cup {NULL} /\ TokenOK(token, sessions)
             /\ IsGenuine(token) => token \in Tokens
  <2>1. Now \in Int
    BY Numbers DEF Now, VisitorInv, TypeOK
  <2>2. Unix(Now) + 1 \in Int
    BY <2>1, UnixFacts
  <2>3. PICK x \in Int : x = Unix(Now) + 1
    BY <2>2
  <2>4. token = [id |-> s, expires |-> x, genuine |-> FALSE]
    BY <1>3, <2>3
  <2>5. token \in Tokens /\ token.genuine = FALSE
    BY <2>4 DEF Tokens
  <2> QED
    BY <2>5 DEF TokenOK, IsGenuine
<1> QED
  BY <1>1, <1>2, <1>3 DEF Carried

\* A request arrives: who is turned away with a genuine cookie, or goes on to be
\* given another session, is in the last second of the session or beyond.
LEMMA ArriveInv ==
  ASSUME VisitorInv, NEW q \in Requests, NEW v \in Visitors, NEW kind \in Kinds,
         NEW e \in EventIds \cup {NULL}, NEW token \in Carried(v),
         Arrive(q, v, kind, e, token)
  PROVE  VisitorInv'
<1> DEFINE kept == IF kind # "session" \/ IsGenuine(token) THEN token ELSE NULL
           by == IF kind = "session" THEN v ELSE NULL
<1>1. /\ UNCHANGED <<clock, sessions, events, jar>>
      /\ IF kind \in {"session", "submit", "list"} THEN e = NULL
         ELSE e # NULL /\ events[e].owner # NULL
  BY DEF Arrive
<1>2. PICK u \in RequestStates : u = Unsent
  BY UnsentTyped
<1>3. PICK k \in Tokens \cup {NULL} : k = kept
  BY CarriedFacts
<1>4. /\ TokenOK(k, sessions)
      /\ IsGenuine(k) => k \in Tokens
      /\ IsGenuine(k) => k = token
      /\ kind # "session" => k = token
      /\ IsGenuine(token) => k = token
  BY <1>3, CarriedFacts DEF TokenOK, IsGenuine
<1>5. PICK b \in Visitors \cup {NULL} : b = by /\ (kind = "session" => b \in Visitors)
  OBVIOUS
<1> HIDE DEF kept, by
<1>6. PICK r : r = [u EXCEPT !.by = b, !.kind = kind, !.event = e, !.token = k]
  OBVIOUS
<1>7. /\ r \in RequestStates /\ r.by = b /\ r.kind = kind /\ r.event = e /\ r.token = k
      /\ r.gone = u.gone
  BY <1>6 DEF RequestStates
<1>8. r.gone = FALSE
  BY <1>2, <1>7, UnsentTyped
<1>9. request' = [request EXCEPT ![q] =
        IF Admitted(kind, token) = "refused" THEN Answered(r, 401)
        ELSE [r EXCEPT !.pc = Admitted(kind, token)]]
  BY <1>2, <1>3, <1>5, <1>6 DEF Arrive, kept, by
<1>10. IsGenuine(k) /\ ~Validate(token, Now) => EndingAt(k, sessions, clock)
  BY <1>4, CarriedFacts, RejectedEnding
<1>11. Validate(token, Now) => IsGenuine(token)
  BY DEF Validate, IsGenuine
<1>12. /\ jar' \in [Visitors -> Tokens \cup {NULL}]
       /\ \A w \in Visitors : TokenOK(jar'[w], sessions)
  BY <1>1 DEF VisitorInv, TypeOK
<1>13. e # NULL => e \in EventIds /\ events[e].owner # NULL
  BY <1>1
<1>14. CASE Admitted(kind, token) = "refused"
  <2>1. ~Validate(token, Now)
    BY <1>14 DEF Admitted
  <2>2. /\ Answered(r, 401) \in RequestStates
        /\ Answered(r, 401).pc # "create"
        /\ RequestOK(Answered(r, 401), sessions, events, clock)
    <3>1. /\ TokenOK(r.token, sessions) /\ ~r.gone
          /\ r.event # NULL => r.event \in EventIds /\ events[r.event].owner # NULL
          /\ IsGenuine(r.token) => EndingAt(r.token, sessions, clock)
      BY <2>1, <1>4, <1>7, <1>8, <1>10, <1>13
    <3> QED
      BY <3>1, <1>7, AnsweredOK
  <2>3. PICK a \in RequestStates : a = Answered(r, 401)
    BY <2>2
  <2>4. /\ a.pc # "create" /\ RequestOK(a, sessions, events, clock)
        /\ request' = [request EXCEPT ![q] = a]
    BY <1>9, <1>14, <2>2, <2>3
  <2> QED
    BY <1>1, <1>12, <2>4, QuietStep
<1>15. CASE Admitted(kind, token) # "refused"
  <2>1. PICK place \in {"active", "cleanup"} : place = Admitted(kind, token)
    BY <1>15 DEF Admitted
  <2>2. PICK m : m = [r EXCEPT !.pc = place]
    OBVIOUS
  <2>3. /\ m \in RequestStates /\ m.pc = place
        /\ m.by = b /\ m.kind = kind /\ m.event = e /\ m.token = k /\ ~m.gone
    <3>1. place \in Places
      BY DEF Places
    <3> QED
      BY <2>2, <1>7, <1>8, <3>1, Moved
  <2>4. place = "active" => IsGenuine(k)
    BY <2>1, <1>4, <1>11 DEF Admitted, Recognised
  <2>5. place = "cleanup" => kind = "session" /\ ~Validate(token, Now)
    BY <2>1 DEF Admitted, Recognised
  <2>6. UnderWay(m, sessions, events, clock)
    BY <2>3, <2>4, <2>5, <1>1, <1>5, <1>10 DEF UnderWay
  <2>7. Reported(m, sessions, events, clock)
    BY <2>3 DEF Reported
  <2>8. RequestOK(m, sessions, events, clock)
    BY <2>3, <2>6, <2>7, <1>4, <1>13 DEF RequestOK
  <2>9. request' = [request EXCEPT ![q] = m]
    BY <1>9, <1>15, <2>1, <2>2
  <2> QED
    BY <1>1, <1>12, <2>3, <2>8, <2>9, QuietStep
<1> QED
  BY <1>14, <1>15

\* A forgotten cookie.
LEMMA ForgetInv ==
  ASSUME VisitorInv, NEW v \in Visitors, Forget(v)
  PROVE  VisitorInv'
<1>1. jar \in [Visitors -> Tokens \cup {NULL}] /\ \A w \in Visitors : TokenOK(jar[w], sessions)
  BY DEF VisitorInv, TypeOK
<1>2. TokenOK(NULL, sessions)
  BY DEF TokenOK, IsGenuine
<1>3. jar' \in [Visitors -> Tokens \cup {NULL}] /\ \A w \in Visitors : TokenOK(jar'[w], sessions)
  BY <1>1, <1>2 DEF Forget
<1>4. UNCHANGED <<clock, sessions, events, request>>
  BY DEF Forget
<1> QED
  BY <1>3, <1>4 DEF VisitorInv, TypeOK, Drawn

-----------------------------------------------------------------------------
(***************************************************************************)
(* The actions that change a table or the clock.                           *)
(***************************************************************************)

\* What is known of an event remains true while its session's row stays.
LEMMA EventKept ==
  ASSUME NEW row, NEW ss \in [SessionIds -> SessionRows], NEW ss2, NEW t \in Int,
         NEW t2 \in Int, t <= t2, row.owner \in SessionIds \cup {NULL},
         row.owner # NULL => /\ ss2[row.owner].status = ss[row.owner].status
                             /\ ss2[row.owner].expires_at = ss[row.owner].expires_at,
         EventOK(row, ss, t)
  PROVE  EventOK(row, ss2, t2)
<1>1. row.owner # NULL => ss[row.owner].expires_at \in Int
  BY DEF SessionRows
<1> QED
  BY <1>1 DEF EventOK

\* A step of another party, between two steps of the handlers.
LEMMA BetweenSteps ==
  ASSUME VisitorInv, UNCHANGED <<jar, request>>,
         clock' \in 0..Horizon,
         sessions' \in [SessionIds -> SessionRows], events' \in [EventIds -> EventRows],
         Evolve(sessions, events, clock, sessions', events', clock'),
         SessionsOK(sessions', clock'), EventsOK(events', sessions', clock'),
         \A s \in SessionIds : sessions[s].status = "drawn" => sessions'[s].status = "drawn"
  PROVE  VisitorInv'
<1>1. PICK ss2 \in [SessionIds -> SessionRows] : ss2 = sessions'
  OBVIOUS
<1>2. PICK es2 : es2 = events'
  OBVIOUS
<1>3. PICK t2 \in Int : t2 = clock'
  BY Numbers
<1>4. /\ request \in [Requests -> RequestStates] /\ clock \in Int
      /\ sessions \in [SessionIds -> SessionRows]
      /\ jar \in [Visitors -> Tokens \cup {NULL}]
  BY Numbers DEF VisitorInv, TypeOK
<1>5. Evolve(sessions, events, clock, ss2, es2, t2)
  BY <1>1, <1>2, <1>3
<1>6. \A q \in Requests : RequestOK(request[q], ss2, es2, t2)
  <2> SUFFICES ASSUME NEW q \in Requests
               PROVE  RequestOK(request[q], ss2, es2, t2)
    OBVIOUS
  <2>1. request[q] \in RequestStates /\ RequestOK(request[q], sessions, events, clock)
    BY <1>4 DEF VisitorInv
  <2> QED
    BY <1>4, <1>5, <2>1, RequestKept
<1>7. \A v \in Visitors : TokenOK(jar[v], ss2)
  BY <1>4, <1>5, TokenKept DEF VisitorInv
<1>8. Drawn'
  <2>1. \A q \in Requests : request[q].pc = "create" => request[q].issued.id \in SessionIds
    <3> SUFFICES ASSUME NEW q \in Requests, request[q].pc = "create"
                 PROVE  request[q].issued.id \in SessionIds
      OBVIOUS
    <3>1. request[q].issued \in Tokens
      BY RequestFacts DEF UnderWay
    <3> QED
      BY <3>1 DEF Tokens
  <2> QED
    BY <2>1 DEF Drawn, VisitorInv
<1>9. TypeOK'
  BY <1>4 DEF TypeOK
<1> QED
  BY <1>1, <1>2, <1>3, <1>6, <1>7, <1>8, <1>9 DEF VisitorInv

\* A step of a handler that changes the tables.
LEMMA TableStep ==
  ASSUME VisitorInv, NEW q \in Requests, NEW r \in RequestStates,
         request' = [request EXCEPT ![q] = r], UNCHANGED <<clock, jar>>,
         sessions' \in [SessionIds -> SessionRows], events' \in [EventIds -> EventRows],
         Evolve(sessions, events, clock, sessions', events', clock),
         SessionsOK(sessions', clock), EventsOK(events', sessions', clock),
         RequestOK(r, sessions', events', clock),
         Drawn'
  PROVE  VisitorInv'
<1>1. PICK ss2 \in [SessionIds -> SessionRows] : ss2 = sessions'
  OBVIOUS
<1>2. PICK es2 : es2 = events'
  OBVIOUS
<1>3. clock \in Int /\ clock' = clock /\ jar' = jar
  BY Numbers DEF VisitorInv, TypeOK
<1>4. Evolve(sessions, events, clock, ss2, es2, clock) /\ RequestOK(r, ss2, es2, clock)
  BY <1>1, <1>2
<1>5. /\ request' \in [Requests -> RequestStates]
      /\ \A p \in Requests : RequestOK(request'[p], ss2, es2, clock)
  BY <1>3, <1>4, RequestsKept
<1>6. \A v \in Visitors : TokenOK(jar[v], ss2)
  BY <1>4, TokenKept DEF VisitorInv, TypeOK
<1>7. TypeOK'
  BY <1>3, <1>5 DEF TypeOK, VisitorInv
<1> QED
  BY <1>1, <1>2, <1>3, <1>5, <1>6, <1>7 DEF VisitorInv

\* Time passes.
LEMMA TickInv ==
  ASSUME VisitorInv, Tick
  PROVE  VisitorInv'
<1>1. /\ clock \in 0..Horizon /\ clock < Horizon /\ clock' = clock + 1
      /\ UNCHANGED <<sessions, events, jar, request>>
  BY DEF Tick, VisitorInv, TypeOK
<1>2. clock \in Int /\ clock' \in Int /\ clock' \in 0..Horizon /\ clock <= clock'
  BY <1>1, Numbers
<1>3. Evolve(sessions, events, clock, sessions', events', clock')
  BY <1>1, <1>2 DEF Evolve
<1>4. SessionsOK(sessions', clock')
  <2> SUFFICES ASSUME NEW s \in SessionIds
               PROVE  /\ sessions[s].status \in Issued =>
                           sessions[s].expires_at <= clock' + Ahead + SessionLifetime
                      /\ sessions[s].status = "deleted" => sessions[s].expires_at <= clock'
    BY <1>1 DEF SessionsOK
  <2>1. PICK x \in Int : x = sessions[s].expires_at
    BY DEF VisitorInv, TypeOK, SessionRows
  <2>2. /\ sessions[s].status \in Issued => x <= clock + Ahead + SessionLifetime
        /\ sessions[s].status = "deleted" => x <= clock
    BY <2>1 DEF VisitorInv, SessionsOK
  <2> QED
    BY <1>2, <2>1, <2>2, Numbers
<1>5. sessions' \in [SessionIds -> SessionRows] /\ events' \in [EventIds -> EventRows]
  BY <1>1 DEF VisitorInv, TypeOK
<1>6. EventsOK(events', sessions', clock')
  <2> SUFFICES ASSUME NEW e \in EventIds
               PROVE  EventOK(events[e], sessions, clock')
    BY <1>1 DEF EventsOK
  <2>1. events[e].owner \in SessionIds \cup {NULL} /\ EventOK(events[e], sessions, clock)
        /\ sessions \in [SessionIds -> SessionRows]
    BY DEF VisitorInv, TypeOK, EventRows, EventsOK
  <2> QED
    BY <1>2, <2>1, EventKept
<1> QED
  BY <1>1, <1>2, <1>3, <1>4, <1>5, <1>6, BetweenSteps

\* Cleanup takes events of expired sessions, and expired sessions without events.
LEMMA CleanedFacts ==
  ASSUME VisitorInv, Cleaned
  PROVE  /\ sessions' \in [SessionIds -> SessionRows] /\ events' \in [EventIds -> EventRows]
         /\ Evolve(sessions, events, clock, sessions', events', clock)
         /\ SessionsOK(sessions', clock)
         /\ EventsOK(events', sessions', clock)
         /\ \A s \in SessionIds :
              sessions[s].status = "drawn" => sessions'[s].status = "drawn"
<1>1. PICK lost \in SUBSET {e \in EventIds : events[e].state # "absent" /\ Over(events[e].owner)},
           gone \in SUBSET {s \in SessionIds : Over(s)} :
        /\ \A e \in EventIds \ lost : events[e].state # "absent" => events[e].owner \notin gone
        /\ events' = [e \in EventIds |->
                        IF e \in lost THEN [events[e] EXCEPT !.state = "absent"]
                        ELSE events[e]]
        /\ sessions' = [s \in SessionIds |->
                          IF s \in gone THEN [sessions[s] EXCEPT !.status = "deleted"]
                          ELSE sessions[s]]
  BY DEF Cleaned
<1>2. /\ clock \in Int /\ sessions \in [SessionIds -> SessionRows]
      /\ events \in [EventIds -> EventRows]
  BY Numbers DEF VisitorInv, TypeOK
<1>3. ASSUME NEW s \in SessionIds
      PROVE  /\ sessions'[s] \in SessionRows
             /\ sessions'[s].expires_at = sessions[s].expires_at
             /\ s \in gone => sessions'[s].status = "deleted" /\ Over(s)
             /\ s \notin gone => sessions'[s].status = sessions[s].status
  <2>1. PICK row \in SessionRows : row = sessions[s]
    BY <1>2
  <2>2. CASE s \in gone
    <3>1. sessions'[s] = [row EXCEPT !.status = "deleted"]
      BY <1>1, <2>1, <2>2
    <3>2. /\ [row EXCEPT !.status = "deleted"] \in SessionRows
          /\ [row EXCEPT !.status = "deleted"].status = "deleted"
          /\ [row EXCEPT !.status = "deleted"].expires_at = row.expires_at
      BY DEF SessionRows
    <3> QED
      BY <2>1, <2>2, <3>1, <3>2
  <2>3. CASE s \notin gone
    BY <1>1, <2>1, <2>3
  <2> QED
    BY <2>2, <2>3
<1>4. ASSUME NEW e \in EventIds
      PROVE  /\ events'[e] \in EventRows
             /\ events'[e].owner = events[e].owner
             /\ e \in lost => /\ events'[e].state = "absent" /\ Over(events[e].owner)
                              /\ events[e].state # "absent"
             /\ e \notin lost => events'[e].state = events[e].state
  <2>1. PICK row \in EventRows : row = events[e]
    BY <1>2
  <2>2. CASE e \in lost
    <3>1. events'[e] = [row EXCEPT !.state = "absent"]
      BY <1>1, <2>1, <2>2
    <3>2. /\ [row EXCEPT !.state = "absent"] \in EventRows
          /\ [row EXCEPT !.state = "absent"].state = "absent"
          /\ [row EXCEPT !.state = "absent"].owner = row.owner
      BY DEF EventRows
    <3> QED
      BY <2>1, <2>2, <3>1, <3>2
  <2>3. CASE e \notin lost
    BY <1>1, <2>1, <2>3
  <2> QED
    BY <2>2, <2>3
<1>5. sessions' \in [SessionIds -> SessionRows] /\ events' \in [EventIds -> EventRows]
  <2>1. \A s \in SessionIds : sessions'[s] \in SessionRows
    BY <1>3
  <2>2. \A e \in EventIds : events'[e] \in EventRows
    BY <1>4
  <2> QED
    BY <1>1, <2>1, <2>2
<1>6. Evolve(sessions, events, clock, sessions', events', clock)
  BY <1>2, <1>3, <1>4 DEF Evolve, Issued
<1>7. SessionsOK(sessions', clock)
  <2> SUFFICES ASSUME NEW s \in SessionIds
               PROVE  /\ sessions'[s].status \in Issued =>
                           sessions'[s].expires_at <= clock + Ahead + SessionLifetime
                      /\ sessions'[s].status = "deleted" => sessions'[s].expires_at <= clock
    BY DEF SessionsOK
  <2>1. CASE s \in gone
    BY <1>3, <2>1 DEF Over, VisitorInv, SessionsOK, Issued
  <2>2. CASE s \notin gone
    BY <1>3, <2>2 DEF VisitorInv, SessionsOK
  <2> QED
    BY <2>1, <2>2
<1>8. EventsOK(events', sessions', clock)
  <2> SUFFICES ASSUME NEW e \in EventIds
               PROVE  EventOK(events'[e], sessions', clock)
    BY DEF EventsOK
  <2>1. EventOK(events[e], sessions, clock) /\ events[e].owner \in SessionIds \cup {NULL}
    BY <1>2 DEF VisitorInv, EventsOK, EventRows
  <2>2. CASE events[e].owner = NULL
    BY <1>4, <2>1, <2>2 DEF EventOK
  <2>3. CASE events[e].owner # NULL
    <3>1. PICK s \in SessionIds : s = events[e].owner /\ s = events'[e].owner
      BY <1>4, <2>1, <2>3
    <3>2. /\ sessions[s].status \in Issued /\ sessions'[s].status \in Issued
          /\ sessions'[s].expires_at = sessions[s].expires_at
      BY <1>3, <2>1, <2>3, <3>1 DEF EventOK, Issued
    <3>3. CASE e \in lost
      BY <1>4, <2>3, <3>1, <3>2, <3>3 DEF EventOK, Over
    <3>4. CASE e \notin lost /\ events[e].state = "absent"
      BY <1>4, <2>1, <2>3, <3>1, <3>2, <3>4 DEF EventOK
    <3>5. CASE e \notin lost /\ events[e].state # "absent"
      <4>1. s \notin gone
        BY <1>1, <3>1, <3>5
      <4> QED
        BY <1>3, <1>4, <2>1, <2>3, <3>1, <3>2, <3>5, <4>1 DEF EventOK
    <3> QED
      BY <3>3, <3>4, <3>5
  <2> QED
    BY <2>2, <2>3
<1>9. \A s \in SessionIds : sessions[s].status = "drawn" => sessions'[s].status = "drawn"
  BY <1>3 DEF Over
<1> QED
  BY <1>5, <1>6, <1>7, <1>8, <1>9

\* The worker's Cleanup.
LEMMA WorkerCleanupInv ==
  ASSUME VisitorInv, WorkerCleanup
  PROVE  VisitorInv'
<1>1. Cleaned /\ UNCHANGED <<clock, jar, request>>
  BY DEF WorkerCleanup
<1>2. clock' \in 0..Horizon /\ clock' = clock
  BY <1>1 DEF VisitorInv, TypeOK
<1> QED
  BY <1>1, <1>2, CleanedFacts, BetweenSteps

\* The identifier that a creation has drawn.
LEMMA IssuedId ==
  ASSUME VisitorInv, NEW q \in Requests, request[q].pc = "create"
  PROVE  /\ request[q].issued \in Tokens /\ request[q].issued.id \in SessionIds
         /\ sessions[request[q].issued.id].status = "drawn"
<1>1. request[q].issued \in Tokens
  BY RequestFacts DEF UnderWay
<1> QED
  BY <1>1 DEF Tokens, VisitorInv, Drawn

\* Cleanup ahead of a creation.
LEMMA CleanupFirstInv ==
  ASSUME VisitorInv, NEW q \in Requests, CleanupFirst(q)
  PROVE  VisitorInv'
<1>1. /\ request[q].pc = "cleanup" /\ Cleaned /\ Goto(q, "issue")
      /\ UNCHANGED <<clock, jar>>
  BY DEF CleanupFirst
<1>2. PICK r \in RequestStates : r = request[q]
  BY RequestFacts
<1>3. PICK m : m = [r EXCEPT !.pc = "issue"]
  OBVIOUS
<1>4. /\ m \in RequestStates /\ m.pc = "issue"
      /\ m.by = r.by /\ m.event = r.event /\ m.token = r.token /\ m.gone = r.gone
  <2>1. "issue" \in Places
    BY DEF Places
  <2> QED
    BY <1>3, <2>1, Moved
<1>5. request' = [request EXCEPT ![q] = m]
  BY <1>1, <1>2, <1>3, RequestFacts DEF Goto
<1>6. RequestOK(m, sessions, events, clock)
  <2>1. UnderWay(m, sessions, events, clock)
    <3>1. UnderWay(r, sessions, events, clock)
      BY <1>2, RequestFacts
    <3> QED
      BY <1>1, <1>2, <1>4, <3>1 DEF UnderWay
  <2>2. Reported(m, sessions, events, clock)
    BY <1>4 DEF Reported
  <2> QED
    BY <1>2, <1>4, <2>1, <2>2, RequestFacts DEF RequestOK
<1>7. PICK ss2 \in [SessionIds -> SessionRows] : ss2 = sessions'
  BY <1>1, CleanedFacts
<1>8. PICK es2 : es2 = events'
  OBVIOUS
<1>9. RequestOK(m, ss2, es2, clock)
  <2>1. Evolve(sessions, events, clock, ss2, es2, clock)
    BY <1>1, <1>7, <1>8, CleanedFacts
  <2> QED
    BY <1>4, <1>6, <2>1, RequestFacts, RequestKept
<1>10. Drawn'
  BY <1>1, <1>4, <1>5, CleanedFacts, IssuedId, DrawnKept
<1> QED
  BY <1>1, <1>4, <1>5, <1>7, <1>8, <1>9, <1>10, CleanedFacts, TableStep

\* A worker settles an event.
LEMMA SettleInv ==
  ASSUME VisitorInv, NEW e \in EventIds, Settle(e)
  PROVE  VisitorInv'
<1>1. /\ events[e].state = "pending"
      /\ events' = [events EXCEPT ![e].state = "dead_lettered"]
      /\ UNCHANGED <<clock, sessions, jar, request>>
  BY DEF Settle
<1>2. /\ clock \in Int /\ sessions \in [SessionIds -> SessionRows]
      /\ events \in [EventIds -> EventRows] /\ clock \in 0..Horizon
  BY Numbers DEF VisitorInv, TypeOK
<1>3. PICK row \in EventRows : row = [events[e] EXCEPT !.state = "dead_lettered"]
  BY <1>2 DEF EventRows
<1>4. row.owner = events[e].owner /\ row.state = "dead_lettered"
  BY <1>2, <1>3 DEF EventRows
<1>5. events' = [events EXCEPT ![e] = row]
  BY <1>1, <1>3
<1>6. events' \in [EventIds -> EventRows]
  BY <1>2, <1>5
<1>7. \A f \in EventIds : events'[f] = IF f = e THEN row ELSE events[f]
  BY <1>2, <1>5
<1>8. Evolve(sessions, events, clock, sessions', events', clock')
  BY <1>1, <1>2, <1>4, <1>7 DEF Evolve
<1>9. EventsOK(events', sessions', clock')
  BY <1>1, <1>4, <1>7 DEF EventsOK, EventOK, VisitorInv
<1>10. SessionsOK(sessions', clock')
  BY <1>1 DEF VisitorInv
<1> QED
  BY <1>1, <1>2, <1>6, <1>8, <1>9, <1>10, BetweenSteps

\* An event has an owner only while, or after, the owner's session was stored.
LEMMA OwnersIssued ==
  ASSUME VisitorInv, NEW e \in EventIds, events[e].owner # NULL
  PROVE  events[e].owner \in SessionIds /\ sessions[events[e].owner].status \in Issued
<1>1. events[e].owner \in SessionIds
  BY DEF VisitorInv, TypeOK, EventRows
<1> QED
  BY <1>1 DEF VisitorInv, EventsOK, EventOK

\* A change of a session that no cookie and no event knows yet.
LEMMA UnknownSession ==
  ASSUME VisitorInv, NEW s \in SessionIds, sessions[s].status \notin Issued,
         NEW ss2 \in [SessionIds -> SessionRows],
         \A x \in SessionIds : x # s => ss2[x] = sessions[x],
         ss2[s].status \in Issued => ss2[s].expires_at <= clock + Ahead + SessionLifetime,
         ss2[s].status # "deleted"
  PROVE  /\ Evolve(sessions, events, clock, ss2, events, clock)
         /\ SessionsOK(ss2, clock)
         /\ EventsOK(events, ss2, clock)
<1>1. sessions \in [SessionIds -> SessionRows] /\ clock \in Int
  BY Numbers DEF VisitorInv, TypeOK
<1>3. Evolve(sessions, events, clock, ss2, events, clock)
  BY <1>1 DEF Evolve
<1>4. SessionsOK(ss2, clock)
  BY DEF SessionsOK, VisitorInv
<1>5. EventsOK(events, ss2, clock)
  <2> SUFFICES ASSUME NEW e \in EventIds
               PROVE  EventOK(events[e], ss2, clock)
    BY DEF EventsOK
  <2>1. EventOK(events[e], sessions, clock)
    BY DEF VisitorInv, EventsOK
  <2>2. events[e].owner # NULL => ss2[events[e].owner] = sessions[events[e].owner]
    BY OwnersIssued
  <2> QED
    BY <2>1, <2>2 DEF EventOK
<1> QED
  BY <1>3, <1>4, <1>5

\* Issue: the cookie has the session's expiry, cut to seconds.
LEMMA IssueCookieInv ==
  ASSUME VisitorInv, NEW q \in Requests, NEW s \in SessionIds, IssueCookie(q, s)
  PROVE  VisitorInv'
<1>1. /\ request[q].pc = "issue" /\ sessions[s].status = "unissued"
      /\ sessions' = [sessions EXCEPT ![s].status = "drawn"]
      /\ UNCHANGED <<clock, events, jar>>
  BY DEF IssueCookie
<1>2. PICK r \in RequestStates : r = request[q]
  BY RequestFacts
<1>3. clock \in Int /\ sessions[s] \in SessionRows
  BY Numbers DEF VisitorInv, TypeOK
<1>4. PICK row \in SessionRows : row = [sessions[s] EXCEPT !.status = "drawn"]
  BY <1>3 DEF SessionRows
<1>5. row.status = "drawn"
  BY <1>3, <1>4 DEF SessionRows
<1>6. PICK ss2 : ss2 = [sessions EXCEPT ![s] = row]
  OBVIOUS
<1>7. sessions' = ss2
  BY <1>1, <1>4, <1>6
<1>8. /\ ss2 \in [SessionIds -> SessionRows]
      /\ ss2[s] = row /\ \A x \in SessionIds : x # s => ss2[x] = sessions[x]
      /\ Evolve(sessions, events, clock, ss2, events, clock)
      /\ SessionsOK(ss2, clock) /\ EventsOK(events, ss2, clock)
  <2>1. /\ ss2 \in [SessionIds -> SessionRows]
        /\ ss2[s] = row /\ \A y \in SessionIds : y # s => ss2[y] = sessions[y]
    BY <1>6, RequestFacts
  <2>2. sessions[s].status \notin Issued /\ ss2[s].status \notin Issued
    BY <1>1, <1>5, <2>1 DEF Issued
  <2> QED
    BY <2>1, <2>2, UnknownSession DEF Issued
<1>9. PICK x \in Int : x = Now + SessionLifetime /\ x = clock + Ahead + SessionLifetime
  BY <1>3, Numbers DEF Now
<1>10. PICK token \in Tokens : token = Issue(s, Now) /\ token.id = s /\ token.expires = Unix(x)
  <2>1. PICK u \in Int : u = Unix(x)
    BY UnixFacts
  <2>2. Issue(s, Now) = [id |-> s, expires |-> u, genuine |-> TRUE]
    BY <1>9, <2>1 DEF Issue
  <2>3. PICK token : token = [id |-> s, expires |-> u, genuine |-> TRUE]
    OBVIOUS
  <2>4. token \in Tokens /\ token.id = s /\ token.expires = u
    BY <2>3 DEF Tokens
  <2> QED
    BY <2>1, <2>2, <2>3, <2>4
<1>11. PICK m : m = [r EXCEPT !.pc = "create", !.issued = token, !.expiry = x]
  OBVIOUS
<1>12. /\ m \in RequestStates /\ m.pc = "create" /\ m.issued = token /\ m.expiry = x
       /\ m.by = r.by /\ m.event = r.event /\ m.token = r.token /\ m.gone = r.gone
  BY <1>11 DEF RequestStates, Places
<1>13. request' = [request EXCEPT ![q] = m]
  BY <1>2, <1>9, <1>10, <1>11, RequestFacts DEF IssueCookie
<1>14. RequestOK(m, sessions, events, clock)
  <2>1. UnderWay(m, sessions, events, clock)
    <3>1. UnderWay(r, sessions, events, clock)
      BY <1>2, RequestFacts
    <3>2. m.expiry <= clock + Ahead + SessionLifetime
      BY <1>9, <1>12
    <3> QED
      BY <1>1, <1>2, <1>10, <1>12, <3>1, <3>2 DEF UnderWay
  <2>2. Reported(m, sessions, events, clock)
    BY <1>12 DEF Reported
  <2> QED
    BY <1>2, <1>12, <2>1, <2>2, RequestFacts DEF RequestOK
<1>15. RequestOK(m, ss2, events, clock)
  BY <1>8, <1>12, <1>14, RequestFacts, RequestKept
<1>16. Drawn'
  <2>1. \A p \in Requests : request'[p] = IF p = q THEN m ELSE request[p]
    BY <1>13, RequestFacts
  <2>2. \A p \in Requests : p # q /\ request'[p].pc = "create" =>
           /\ request'[p].issued.id \in SessionIds /\ request'[p].issued.id # s
           /\ ss2[request'[p].issued.id].status = "drawn"
    <3> SUFFICES ASSUME NEW p \in Requests, p # q, request[p].pc = "create"
                 PROVE  /\ request[p].issued.id \in SessionIds /\ request[p].issued.id # s
                        /\ ss2[request[p].issued.id].status = "drawn"
      BY <2>1
    <3>1. request[p].issued.id \in SessionIds /\ request[p].issued.id # s
      BY <1>1, IssuedId
    <3> QED
      BY <1>8, <3>1, IssuedId
  <2>3. request'[q].issued.id = s /\ ss2[s].status = "drawn"
    BY <2>1, <1>5, <1>8, <1>10, <1>12
  <2>4. \A p \in Requests : request'[p].pc = "create" =>
          ss2[request'[p].issued.id].status = "drawn"
    BY <2>2, <2>3
  <2>5. ASSUME NEW p1 \in Requests, NEW p2 \in Requests, p1 # p2,
               request'[p1].pc = "create", request'[p2].pc = "create"
        PROVE  request'[p1].issued.id # request'[p2].issued.id
    <3>1. CASE p1 = q
      BY <3>1, <2>2, <2>3, <2>5
    <3>2. CASE p2 = q
      BY <3>2, <2>2, <2>3, <2>5
    <3>3. CASE p1 # q /\ p2 # q
      BY <3>3, <2>1, <2>5 DEF VisitorInv, Drawn
    <3> QED
      BY <3>1, <3>2, <3>3
  <2> QED
    BY <1>7, <2>4, <2>5 DEF Drawn
<1>17. events' = events /\ events \in [EventIds -> EventRows]
  BY <1>1 DEF VisitorInv, TypeOK
<1> QED
  BY <1>1, <1>7, <1>8, <1>12, <1>13, <1>15, <1>16, <1>17, TableStep

\* The statuses reported of a transaction that commits.
LEMMA CommittedFacts ==
  ASSUME NEW status, NEW reported \in Committed(status)
  PROVE  reported \in {status, 503}
BY DEF Committed

\* Store.Create: the cookie that the visitor is given names the stored session.
LEMMA CreateInv ==
  ASSUME VisitorInv, NEW q \in Requests, Create(q)
  PROVE  VisitorInv'
<1> DEFINE s == request[q].issued.id
<1>1. /\ request[q].pc = "create" /\ UNCHANGED <<clock, events, jar>>
      /\ sessions' = [sessions EXCEPT ![s] =
                        [@ EXCEPT !.status = "stored", !.expires_at = request[q].expiry]]
  BY DEF Create
<1>2. PICK r \in RequestStates : r = request[q]
  BY RequestFacts
<1>3. /\ s \in SessionIds /\ sessions[s].status = "drawn" /\ r.issued \in Tokens
      /\ r.issued.id = s
  BY <1>1, <1>2, IssuedId
<1>4. /\ r.by \in Visitors /\ r.issued.expires = Unix(r.expiry)
      /\ r.expiry <= clock + Ahead + SessionLifetime
  BY <1>1, <1>2, RequestFacts DEF UnderWay
<1>5. PICK x \in Int : x = r.expiry
  BY DEF RequestStates
<1>6. sessions[s] \in SessionRows
  BY <1>3 DEF VisitorInv, TypeOK
<1>7. PICK row : row = [sessions[s] EXCEPT !.status = "stored", !.expires_at = x]
  OBVIOUS
<1>8. row \in SessionRows /\ row.status = "stored" /\ row.expires_at = x
  BY <1>6, <1>7 DEF SessionRows
<1>9. PICK ss2 : ss2 = [sessions EXCEPT ![s] = row]
  OBVIOUS
<1>10. sessions' = ss2
  BY <1>1, <1>2, <1>5, <1>7, <1>9
<1> HIDE DEF s
<1>11. /\ ss2 \in [SessionIds -> SessionRows]
       /\ ss2[s] = row /\ \A y \in SessionIds : y # s => ss2[y] = sessions[y]
       /\ Evolve(sessions, events, clock, ss2, events, clock)
       /\ SessionsOK(ss2, clock) /\ EventsOK(events, ss2, clock)
  <2>1. /\ ss2 \in [SessionIds -> SessionRows]
        /\ ss2[s] = row /\ \A y \in SessionIds : y # s => ss2[y] = sessions[y]
    BY <1>3, <1>8, <1>9, RequestFacts
  <2>2. /\ sessions[s].status \notin Issued
        /\ ss2[s].status = "stored" /\ ss2[s].expires_at <= clock + Ahead + SessionLifetime
    BY <1>3, <1>4, <1>5, <1>8, <2>1 DEF Issued
  <2> QED
    BY <1>3, <2>1, <2>2, UnknownSession
<1>12. TokenOK(r.issued, ss2)
  BY <1>3, <1>4, <1>5, <1>8, <1>11 DEF TokenOK, Issued
<1>13. TokenOK(r.token, ss2)
  BY <1>2, <1>11, RequestFacts, TokenKept
<1>14. PICK status \in Nat : status \in {201, 503} /\ Answer(q, status)
  BY CommittedFacts DEF Create
<1>15. /\ Answered(r, status) \in RequestStates
       /\ Answered(r, status).pc # "create"
       /\ RequestOK(Answered(r, status), ss2, events, clock)
  <2>1. /\ ~r.gone
        /\ r.event # NULL => r.event \in EventIds /\ events[r.event].owner # NULL
    BY <1>1, <1>2, RequestFacts DEF UnderWay
  <2> QED
    BY <1>3, <1>4, <1>12, <1>13, <1>14, <2>1, AnsweredOK
<1>16. request' = [request EXCEPT ![q] = Answered(r, status)]
  BY <1>2, <1>14, RequestFacts DEF Answer
<1>17. Drawn'
  <2>1. ASSUME NEW p \in Requests \ {q}, request[p].pc = "create"
        PROVE  sessions'[request[p].issued.id].status = "drawn"
    <3>1. request[p].issued.id # s
      BY <1>1, <2>1 DEF VisitorInv, Drawn, s
    <3>2. request[p].issued.id \in SessionIds /\ sessions[request[p].issued.id].status = "drawn"
      BY <2>1, IssuedId
    <3> QED
      BY <1>10, <1>11, <3>1, <3>2
  <2> QED
    BY <1>15, <1>16, <2>1, DrawnKept
<1>18. events' = events /\ events \in [EventIds -> EventRows]
  BY <1>1 DEF VisitorInv, TypeOK
<1>19. PICK a \in RequestStates : a = Answered(r, status)
  BY <1>15
<1>20. /\ request' = [request EXCEPT ![q] = a] /\ RequestOK(a, ss2, events, clock)
       /\ UNCHANGED <<clock, jar>>
  BY <1>1, <1>15, <1>16, <1>19
<1>21. /\ sessions' \in [SessionIds -> SessionRows] /\ events' \in [EventIds -> EventRows]
       /\ Evolve(sessions, events, clock, sessions', events', clock)
       /\ SessionsOK(sessions', clock) /\ EventsOK(events', sessions', clock)
       /\ RequestOK(a, sessions', events', clock)
  BY <1>10, <1>11, <1>18, <1>20
<1> QED
  BY <1>17, <1>20, <1>21, TableStep

\* A handler that opens an admission.
LEMMA CommitStep ==
  ASSUME VisitorInv, NEW q \in Requests, request[q].pc = "operate", Goto(q, "commit"),
         UNCHANGED <<clock, sessions, events, jar>>
  PROVE  VisitorInv'
<1>1. \A m \in RequestStates :
        /\ m.pc = "commit" /\ m.by = request[q].by /\ m.kind = request[q].kind
        /\ m.event = request[q].event /\ m.token = request[q].token
        /\ m.gone = request[q].gone
        => UnderWay(m, sessions, events, clock)
  BY RequestFacts DEF UnderWay
<1> QED
  BY <1>1, GotoStep DEF Places

\* Store.Submit's checks.
LEMMA SubmitInv ==
  ASSUME VisitorInv, NEW q \in Requests, Submit(q)
  PROVE  VisitorInv'
BY CommitStep DEF Submit

\* Store.Submit: a new event belongs to a session that is stored.
LEMMA SubmitCommitInv ==
  ASSUME VisitorInv, AdmissionInv, NEW q \in Requests, NEW e \in EventIds, SubmitCommit(q, e)
  PROVE  VisitorInv'
<1>1. PICK s : s = request[q].token.id
  OBVIOUS
<1>2. /\ request[q].pc = "commit" /\ request[q].kind = "submit"
      /\ sessions[s].status = "stored" /\ sessions[s].event_count < EventsPerSession
      /\ events[e].owner = NULL
      /\ sessions' = [sessions EXCEPT ![s].event_count = @ + 1]
      /\ events' = [events EXCEPT ![e] = [owner |-> s, state |-> "pending", replays |-> 0]]
      /\ UNCHANGED <<clock, jar>>
  BY <1>1 DEF SubmitCommit, AdmissionInv, AdmissionStands
<1>3. PICK r \in RequestStates : r = request[q]
  BY RequestFacts
<1>4. r.event = NULL /\ r.token \in Tokens /\ s \in SessionIds /\ ~r.gone /\ s # NULL
  BY <1>1, <1>2, <1>3, RequestFacts, VisitorAssumption DEF UnderWay
<1>5. PICK old \in SessionRows : old = sessions[s]
  BY <1>4, RequestFacts
<1>6. PICK n \in 0..EventsPerSession : n = old.event_count + 1
  <2>1. PICK c \in 0..EventsPerSession : c = old.event_count
    BY DEF SessionRows
  <2>2. c < EventsPerSession
    BY <1>2, <1>5, <2>1
  <2> QED
    BY <2>1, <2>2, Numbers
<1>7. PICK row : row = [old EXCEPT !.event_count = n]
  OBVIOUS
<1>8. row \in SessionRows /\ row.status = old.status /\ row.expires_at = old.expires_at
  BY <1>7 DEF SessionRows
<1>9. sessions' = [sessions EXCEPT ![s] = row]
  BY <1>2, <1>5, <1>6, <1>7
<1>10. /\ sessions' \in [SessionIds -> SessionRows]
       /\ \A x \in SessionIds : /\ sessions'[x].status = sessions[x].status
                                /\ sessions'[x].expires_at = sessions[x].expires_at
  <2>1. sessions' \in [SessionIds -> SessionRows]
    BY <1>8, <1>9, RequestFacts
  <2>2. \A x \in SessionIds : sessions'[x] = IF x = s THEN row ELSE sessions[x]
    BY <1>9, RequestFacts
  <2> QED
    BY <1>5, <1>8, <2>1, <2>2
<1>11. PICK new : new = [owner |-> s, state |-> "pending", replays |-> 0]
  OBVIOUS
<1>12. new \in EventRows /\ new.owner = s /\ new.state = "pending"
  BY <1>4, <1>11, Numbers DEF EventRows
<1>13. /\ events' \in [EventIds -> EventRows]
       /\ \A f \in EventIds : events'[f] = IF f = e THEN new ELSE events[f]
  BY <1>2, <1>11, <1>12, RequestFacts
<1>14. Evolve(sessions, events, clock, sessions', events', clock)
  BY <1>2, <1>10, <1>13, RequestFacts DEF Evolve
<1>15. SessionsOK(sessions', clock)
  BY <1>10 DEF SessionsOK, VisitorInv
<1>16. EventsOK(events', sessions', clock)
  <2> SUFFICES ASSUME NEW f \in EventIds
               PROVE  EventOK(events'[f], sessions', clock)
    BY DEF EventsOK
  <2>1. CASE f = e
    <3>1. events'[f].owner = s /\ events'[f].state = "pending" /\ sessions'[s].status = "stored"
      BY <1>2, <1>4, <1>10, <1>12, <1>13, <2>1
    <3> QED
      BY <1>4, <3>1 DEF EventOK, Issued
  <2>2. CASE f # e
    <3>1. events'[f] = events[f]
      BY <1>13, <2>2
    <3>2. events[f].owner # NULL => events[f].owner \in SessionIds
      BY OwnersIssued
    <3> QED
      BY <1>10, <3>1, <3>2 DEF VisitorInv, EventsOK, EventOK
  <2> QED
    BY <2>1, <2>2
<1>17. PICK status \in Nat : status \in {202, 503} /\ Answer(q, status)
  BY CommittedFacts DEF SubmitCommit
<1>18. PICK ss2 \in [SessionIds -> SessionRows] : ss2 = sessions'
  BY <1>10
<1>19. PICK es2 : es2 = events'
  OBVIOUS
<1>20. TokenOK(r.token, ss2)
  <2>1. Evolve(sessions, events, clock, ss2, es2, clock)
    BY <1>14, <1>18, <1>19
  <2> QED
    BY <1>3, <1>4, <2>1, RequestFacts, TokenKept
<1>21. PICK a \in RequestStates : a = Answered(r, status)
  BY AnsweredShape
<1>22. a.pc # "create" /\ RequestOK(a, ss2, es2, clock)
  BY <1>4, <1>17, <1>20, <1>21, AnsweredOK
<1>23. request' = [request EXCEPT ![q] = a]
  BY <1>3, <1>17, <1>21, RequestFacts DEF Answer
<1>24. Drawn'
  BY <1>10, <1>22, <1>23, IssuedId, DrawnKept
<1>25. UNCHANGED <<clock, jar>> /\ RequestOK(a, sessions', events', clock)
  BY <1>2, <1>18, <1>19, <1>22
<1> QED
  BY <1>10, <1>13, <1>14, <1>15, <1>16, <1>23, <1>24, <1>25, TableStep

\* What Store.Replay tells of an event.
LEMMA ReplayStatusFacts ==
  ASSUME NEW s, NEW e
  PROVE  /\ ReplayStatus(s, e) \in {202, 404, 409, 429}
         /\ ReplayStatus(s, e) = 404 => ~Own(s, e) \/ ~Live(s)
         /\ ReplayStatus(s, e) # 404 => Own(s, e) /\ Live(s)
         /\ ReplayStatus(s, e) = 202 => /\ events[e].state = "dead_lettered"
                                        /\ ~(events[e].replays >= SandboxReplays)
BY DEF ReplayStatus

\* Store.Replay: an event is missing to its own visitor only after the end.
LEMMA ReplayInv ==
  ASSUME VisitorInv, NEW q \in Requests, Replay(q)
  PROVE  VisitorInv'
<1>1. PICK e : e = request[q].event
  OBVIOUS
<1>2. PICK s : s = request[q].token.id
  OBVIOUS
<1>3. PICK r \in RequestStates : r = request[q]
  BY RequestFacts
<1>4. /\ request[q].pc = "operate" /\ request[q].kind = "replay"
      /\ UNCHANGED <<clock, sessions, events, jar>>
      /\ IF ReplayStatus(s, e) = 202 THEN Goto(q, "commit") ELSE Answer(q, ReplayStatus(s, e))
  BY <1>1, <1>2 DEF Replay
<1>5. /\ IsGenuine(r.token) /\ r.token \in Tokens /\ s \in SessionIds /\ ~r.gone
      /\ TokenOK(r.token, sessions) /\ e # NULL /\ e \in EventIds
      /\ events[e].owner # NULL /\ s = r.token.id /\ e = r.event
  BY <1>1, <1>2, <1>3, <1>4, RequestFacts DEF UnderWay
<1>6. CASE ReplayStatus(s, e) # 202
  <2>1. PICK status \in Nat : status = ReplayStatus(s, e) /\ status \in {404, 409, 429}
    BY <1>6, ReplayStatusFacts
  <2>2. status = 409 => events[e].owner = s
    <3>1. status = 409 => ReplayStatus(s, e) # 404
      BY <2>1
    <3>2. ReplayStatus(s, e) # 404 => Own(s, e)
      BY ReplayStatusFacts
    <3> QED
      BY <3>1, <3>2 DEF Own
  <2>3. status = 404 /\ events[e].owner = s => EndingAt(r.token, sessions, clock)
    BY <2>1, <1>5, ReplayStatusFacts, NotLiveEnding, MissingEnding DEF Own
  <2>4. Answer(q, status) /\ UNCHANGED <<clock, sessions, events, jar>>
    BY <1>4, <1>6, <2>1
  <2> QED
    BY <1>3, <1>4, <1>5, <2>1, <2>2, <2>3, <2>4, AnswerStep
<1>7. CASE ReplayStatus(s, e) = 202
  BY <1>4, <1>7, CommitStep
<1> QED
  BY <1>6, <1>7

\* Its commit: the row is still the one that was checked.
LEMMA ReplayCommitInv ==
  ASSUME VisitorInv, AdmissionInv, NEW q \in Requests, ReplayCommit(q)
  PROVE  VisitorInv'
<1>1. PICK e : e = request[q].event
  OBVIOUS
<1>2. PICK s : s = request[q].token.id
  OBVIOUS
<1>3. PICK r \in RequestStates : r = request[q]
  BY RequestFacts
<1>4. /\ request[q].pc = "commit" /\ request[q].kind = "replay"
      /\ UNCHANGED <<clock, sessions, jar>>
      /\ events' = [events EXCEPT ![e] =
           IF Own(s, e)
           THEN [@ EXCEPT !.state = "pending", !.replays = events[e].replays + 1] ELSE @]
  BY <1>1, <1>2 DEF ReplayCommit
<1>5. /\ IsGenuine(r.token) /\ r.token \in Tokens /\ s \in SessionIds /\ ~r.gone
      /\ TokenOK(r.token, sessions) /\ e # NULL /\ e \in EventIds
      /\ events[e].owner # NULL /\ s = r.token.id /\ e = r.event
  BY <1>1, <1>2, <1>3, <1>4, RequestFacts DEF UnderWay
<1>6. /\ events[e].owner = s /\ events[e].state = "dead_lettered" /\ Own(s, e)
      /\ events[e].replays < SandboxReplays
  BY <1>1, <1>2, <1>4 DEF AdmissionInv, AdmissionStands, Own
<1>7. PICK old \in EventRows : old = events[e]
  BY <1>5, RequestFacts
<1>8. PICK n \in 0..SandboxReplays : n = old.replays + 1
  <2>1. PICK c \in 0..SandboxReplays : c = old.replays
    BY DEF EventRows
  <2> QED
    BY <1>6, <1>7, <2>1, Numbers
<1>9. PICK row : row = [old EXCEPT !.state = "pending", !.replays = n]
  OBVIOUS
<1>10. row \in EventRows /\ row.owner = s /\ row.state = "pending"
  BY <1>6, <1>7, <1>9 DEF EventRows
<1>11. events' = [events EXCEPT ![e] = row]
  BY <1>4, <1>6, <1>7, <1>8, <1>9
<1>12. /\ events' \in [EventIds -> EventRows]
      /\ \A f \in EventIds : events'[f] = IF f = e THEN row ELSE events[f]
  BY <1>10, <1>11, RequestFacts
<1>13. Evolve(sessions, events, clock, sessions, events', clock)
  BY <1>6, <1>10, <1>12, RequestFacts DEF Evolve
<1>14. EventsOK(events', sessions, clock)
  <2>1. sessions[s].status = "stored" /\ s # NULL
    BY <1>2, <1>4, <1>5, <1>6 DEF AdmissionInv, AdmissionStands
  <2>2. EventOK(row, sessions, clock)
    BY <1>10, <2>1 DEF EventOK, Issued
  <2> QED
    BY <1>12, <2>2 DEF VisitorInv, EventsOK
<1>15. PICK status \in Nat : status \in {202, 503} /\ Answer(q, status)
  BY CommittedFacts DEF ReplayCommit
<1>16. PICK es2 : es2 = events'
  OBVIOUS
<1>17. es2[e].owner = s
  BY <1>5, <1>10, <1>12, <1>16
<1>18. PICK a \in RequestStates : a = Answered(r, status)
  BY AnsweredShape
<1>19. a.pc # "create" /\ RequestOK(a, sessions, es2, clock)
  <2>1. /\ TokenOK(r.token, sessions) /\ IsGenuine(r.token) /\ ~r.gone
        /\ r.event \in EventIds /\ es2[r.event].owner # NULL
        /\ es2[r.event].owner = r.token.id
    BY <1>5, <1>6, <1>17
  <2> QED
    BY <1>15, <1>18, <2>1, AnsweredOK
<1>20. request' = [request EXCEPT ![q] = a]
  BY <1>3, <1>15, <1>18, RequestFacts DEF Answer
<1>21. /\ UNCHANGED <<clock, jar>> /\ sessions' = sessions
       /\ sessions \in [SessionIds -> SessionRows] /\ SessionsOK(sessions, clock)
  BY <1>4, RequestFacts DEF VisitorInv
<1>22. Drawn'
  BY <1>19, <1>20, <1>21, IssuedId, DrawnKept
<1>23. RequestOK(a, sessions', events', clock)
  BY <1>16, <1>19, <1>21
<1>24. /\ Evolve(sessions, events, clock, sessions', events', clock)
       /\ SessionsOK(sessions', clock) /\ EventsOK(events', sessions', clock)
       /\ sessions' \in [SessionIds -> SessionRows]
  BY <1>13, <1>14, <1>21
<1> QED
  BY <1>12, <1>20, <1>21, <1>22, <1>23, <1>24, TableStep

-----------------------------------------------------------------------------
(***************************************************************************)
(* The open admission.                                                     *)
(***************************************************************************)

\* Without an open admission there is nothing to show.
LEMMA NoneOpen ==
  ASSUME \A p \in Requests : request'[p].pc # "commit"
  PROVE  AdmissionInv'
BY DEF AdmissionInv, AdmissionStands

\* A request that has not checked anything opens none.
LEMMA OpenKept ==
  ASSUME VisitorInv, NEW q \in Requests, NEW r \in RequestStates, r.pc # "commit",
         request' = [request EXCEPT ![q] = r]
  PROVE  \A p \in Requests :
           request'[p].pc = "commit" => request'[p] = request[p] /\ request[p].pc = "commit"
BY DEF VisitorInv, TypeOK

\* The rows that an open admission has checked stay as they are.
LEMMA AdmissionKept ==
  ASSUME AdmissionInv,
         \A p \in Requests :
           request'[p].pc = "commit" =>
             /\ request'[p] = request[p] /\ request[p].pc = "commit"
             /\ sessions'[request[p].token.id] = sessions[request[p].token.id]
             /\ request[p].kind = "replay" =>
                  events'[request[p].event] = events[request[p].event]
  PROVE  AdmissionInv'
<1>1. \A p, q \in Requests :
        request'[p].pc = "commit" /\ request'[q].pc = "commit" => p = q
  BY DEF AdmissionInv
<1>2. AdmissionStands'
  BY DEF AdmissionInv, AdmissionStands, Own
<1> QED
  BY <1>1, <1>2 DEF AdmissionInv

\* A request that moves on, or is answered, while the tables stay as they are.
LEMMA QuietAdmission ==
  ASSUME VisitorInv, AdmissionInv, NEW q \in Requests, NEW r \in RequestStates,
         r.pc # "commit", request' = [request EXCEPT ![q] = r], UNCHANGED <<sessions, events>>
  PROVE  AdmissionInv'
BY OpenKept, AdmissionKept

\* An answer, and another place, are no open admission.
LEMMA AnswerQuiet ==
  ASSUME VisitorInv, AdmissionInv, NEW q \in Requests, NEW status \in Nat, Answer(q, status),
         UNCHANGED <<sessions, events>>
  PROVE  AdmissionInv'
<1>1. PICK r \in RequestStates : r = request[q]
  BY RequestFacts
<1>2. PICK a \in RequestStates : a = Answered(r, status) /\ a.pc # "commit"
  BY AnsweredShape, UnsentTyped
<1>3. request' = [request EXCEPT ![q] = a]
  BY <1>1, <1>2, RequestFacts DEF Answer
<1> QED
  BY <1>2, <1>3, QuietAdmission

LEMMA GotoQuiet ==
  ASSUME VisitorInv, AdmissionInv, NEW q \in Requests, NEW place \in Places \ {"commit"},
         Goto(q, place), UNCHANGED <<sessions, events>>
  PROVE  AdmissionInv'
<1>1. PICK r \in RequestStates : r = request[q]
  BY RequestFacts
<1>2. PICK m : m = [r EXCEPT !.pc = place]
  OBVIOUS
<1>3. m \in RequestStates /\ m.pc = place
  BY <1>2, Moved
<1>4. request' = [request EXCEPT ![q] = m]
  BY <1>1, <1>2, RequestFacts DEF Goto
<1> QED
  BY <1>3, <1>4, QuietAdmission

\* A transaction that begins while none is open, and is over in the same step.
LEMMA AloneAdmission ==
  ASSUME VisitorInv, Admission, NEW q \in Requests, NEW r \in RequestStates,
         r.pc # "commit", request' = [request EXCEPT ![q] = r]
  PROVE  AdmissionInv'
<1>1. \A p \in Requests : request'[p].pc # "commit"
  BY OpenKept DEF Admission, Holds
<1> QED
  BY <1>1, NoneOpen

\* The open admission ends.
LEMMA ClosedAdmission ==
  ASSUME VisitorInv, AdmissionInv, NEW q \in Requests, request[q].pc = "commit",
         NEW status \in Nat, Answer(q, status)
  PROVE  AdmissionInv'
<1>1. PICK r \in RequestStates : r = request[q]
  BY RequestFacts
<1>2. PICK a \in RequestStates : a = Answered(r, status) /\ a.pc # "commit"
  BY AnsweredShape, UnsentTyped
<1>3. request' = [request EXCEPT ![q] = a]
  BY <1>1, <1>2, RequestFacts DEF Answer
<1>4. \A p \in Requests : request'[p].pc # "commit"
  <2>1. request'[q].pc # "commit"
    BY <1>2, <1>3, RequestFacts
  <2>2. \A p \in Requests :
          request'[p].pc = "commit" => request'[p] = request[p] /\ request[p].pc = "commit"
    BY <1>2, <1>3, OpenKept
  <2> QED
    BY <2>1, <2>2 DEF AdmissionInv
<1> QED
  BY <1>4, NoneOpen

\* The checks of Submit and Replay open the only admission.
LEMMA OpenedAdmission ==
  ASSUME VisitorInv, Admission, NEW q \in Requests, request[q].pc = "operate",
         Goto(q, "commit"), UNCHANGED <<sessions, events>>,
         NEW s, s = request[q].token.id, NEW e, e = request[q].event,
         sessions[s].status = "stored",
         request[q].kind = "submit" => sessions[s].event_count < EventsPerSession,
         request[q].kind = "replay" => /\ Own(s, e) /\ events[e].state = "dead_lettered"
                                       /\ events[e].replays < SandboxReplays
  PROVE  AdmissionInv'
<1>1. PICK r \in RequestStates : r = request[q]
  BY RequestFacts
<1>2. PICK m : m = [r EXCEPT !.pc = "commit"]
  OBVIOUS
<1>3. /\ m \in RequestStates /\ m.pc = "commit"
      /\ m.kind = r.kind /\ m.event = r.event /\ m.token = r.token
  <2>1. "commit" \in Places
    BY DEF Places
  <2> QED
    BY <1>2, <2>1, Moved
<1>4. request' = [request EXCEPT ![q] = m]
  BY <1>1, <1>2, RequestFacts DEF Goto
<1>5. /\ request'[q] = m
      /\ \A p \in Requests : p # q => request'[p].pc # "commit"
  BY <1>4, RequestFacts DEF Admission, Holds
<1>6. \A p1, p2 \in Requests :
        request'[p1].pc = "commit" /\ request'[p2].pc = "commit" => p1 = p2
  BY <1>5
<1>7. AdmissionStands'
  <2> SUFFICES ASSUME NEW p \in Requests, request'[p].pc = "commit"
               PROVE  /\ sessions'[request'[p].token.id].status = "stored"
                      /\ request'[p].kind = "submit" =>
                           sessions'[request'[p].token.id].event_count < EventsPerSession
                      /\ request'[p].kind = "replay" =>
                           /\ events'[request'[p].event].owner = request'[p].token.id
                           /\ events'[request'[p].event].state # "absent"
                           /\ events'[request'[p].event].state = "dead_lettered"
                           /\ events'[request'[p].event].replays < SandboxReplays
    BY DEF AdmissionStands, Own
  <2>1. p = q
    BY <1>5
  <2>2. request'[p].token.id = s /\ request'[p].event = e /\ request'[p].kind = request[q].kind
    BY <1>1, <1>3, <1>5, <2>1
  <2> QED
    BY <2>2 DEF Own
<1> QED
  BY <1>6, <1>7 DEF AdmissionInv

\* A drawn identifier is not that of the open admission's session.
LEMMA IssueAdmission ==
  ASSUME VisitorInv, AdmissionInv, NEW q \in Requests, NEW s \in SessionIds, IssueCookie(q, s)
  PROVE  AdmissionInv'
<1>1. /\ request[q].pc = "issue" /\ sessions[s].status = "unissued"
      /\ sessions' = [sessions EXCEPT ![s].status = "drawn"] /\ events' = events
  BY DEF IssueCookie
<1>2. PICK m : /\ request' = [request EXCEPT ![q] = m]
               /\ m = [request[q] EXCEPT !.pc = "create", !.issued = Issue(s, Now),
                                         !.expiry = Now + SessionLifetime]
  BY DEF IssueCookie
<1>3. m.pc = "create"
  BY <1>2, RequestFacts DEF RequestStates
<1>4. \A p \in Requests :
        request'[p].pc = "commit" => request'[p] = request[p] /\ request[p].pc = "commit"
  BY <1>2, <1>3, RequestFacts
<1>5. ASSUME NEW p \in Requests, request[p].pc = "commit"
      PROVE  sessions'[request[p].token.id] = sessions[request[p].token.id]
  <2>1. request[p].token.id \in SessionIds
    BY <1>5, RequestFacts DEF UnderWay
  <2>2. request[p].token.id # s
    BY <1>1, <1>5 DEF AdmissionInv, AdmissionStands
  <2> QED
    BY <1>1, <2>1, <2>2, RequestFacts
<1> QED
  BY <1>1, <1>4, <1>5, AdmissionKept

\* A worker settles pending events only.
LEMMA SettleAdmission ==
  ASSUME VisitorInv, AdmissionInv, NEW e \in EventIds, Settle(e)
  PROVE  AdmissionInv'
<1>1. /\ events[e].state = "pending" /\ events' = [events EXCEPT ![e].state = "dead_lettered"]
      /\ sessions' = sessions /\ request' = request
  BY DEF Settle
<1>2. ASSUME NEW p \in Requests, request[p].pc = "commit", request[p].kind = "replay"
      PROVE  events'[request[p].event] = events[request[p].event]
  <2>1. request[p].event # e
    BY <1>1, <1>2 DEF AdmissionInv, AdmissionStands
  <2>2. request[p].event \in EventIds
    BY <1>2, RequestFacts DEF UnderWay
  <2> QED
    BY <1>1, <2>1, <2>2, RequestFacts
<1> QED
  BY <1>1, <1>2, AdmissionKept

\* The steps of a handler.
LEMMA HandleAdmission ==
  ASSUME VisitorInv, AdmissionInv, NEW q \in Requests, Handle(q)
  PROVE  AdmissionInv'
<1>1. CASE Active(q)
  <2>1. UNCHANGED <<sessions, events>>
    BY <1>1 DEF Active
  <2>2. \/ Answer(q, 200) \/ Answer(q, 400) \/ Answer(q, 401)
        \/ Goto(q, "operate") \/ Goto(q, "cleanup")
    BY <1>1 DEF Active
  <2> QED
    BY <2>1, <2>2, AnswerQuiet, GotoQuiet DEF Places
<1>2. CASE CleanupFirst(q)
  <2>1. PICK r \in RequestStates : r = request[q]
    BY RequestFacts
  <2>2. PICK m : m = [r EXCEPT !.pc = "issue"]
    OBVIOUS
  <2>3. m \in RequestStates /\ m.pc # "commit"
    <3>1. "issue" \in Places
      BY DEF Places
    <3> QED
      BY <2>2, <3>1, Moved
  <2>4. Admission /\ request' = [request EXCEPT ![q] = m]
    BY <1>2, <2>1, <2>2, RequestFacts DEF CleanupFirst, Cleaned, Goto
  <2> QED
    BY <2>3, <2>4, AloneAdmission
<1>3. ASSUME NEW s \in SessionIds, IssueCookie(q, s)
      PROVE  AdmissionInv'
  BY <1>3, IssueAdmission
<1>4. CASE Create(q)
  <2>1. PICK status \in Nat : Answer(q, status)
    BY <1>4, CommittedFacts DEF Create
  <2>2. PICK r \in RequestStates : r = request[q]
    BY RequestFacts
  <2>3. PICK a \in RequestStates : a = Answered(r, status) /\ a.pc # "commit"
    BY AnsweredShape, UnsentTyped
  <2>4. Admission /\ request' = [request EXCEPT ![q] = a]
    BY <1>4, <2>1, <2>2, <2>3, RequestFacts DEF Create, Answer
  <2> QED
    BY <2>3, <2>4, AloneAdmission
<1>5. CASE Exhausted(q)
  BY <1>5, AnswerQuiet DEF Exhausted
<1>6. CASE Submit(q)
  <2>1. PICK s : s = request[q].token.id
    OBVIOUS
  <2>2. PICK e : e = request[q].event
    OBVIOUS
  <2>3. /\ request[q].pc = "operate" /\ request[q].kind = "submit" /\ Admission
        /\ sessions[s].status = "stored" /\ sessions[s].event_count < EventsPerSession
        /\ Goto(q, "commit") /\ UNCHANGED <<sessions, events>>
    BY <1>6, <2>1 DEF Submit, Live
  <2>4. request[q].kind # "replay"
    BY <2>3
  <2> QED
    BY <2>1, <2>2, <2>3, <2>4, OpenedAdmission
<1>7. ASSUME NEW e \in EventIds, SubmitCommit(q, e)
      PROVE  AdmissionInv'
  <2>1. PICK status \in Nat : Answer(q, status)
    BY <1>7, CommittedFacts DEF SubmitCommit
  <2> QED
    BY <1>7, <2>1, ClosedAdmission DEF SubmitCommit
<1>8. CASE SubmitRefused(q)
  BY <1>8, AnswerQuiet DEF SubmitRefused
<1>9. CASE Replay(q)
  <2>1. PICK s : s = request[q].token.id
    OBVIOUS
  <2>2. PICK e : e = request[q].event
    OBVIOUS
  <2>3. /\ request[q].pc = "operate" /\ request[q].kind = "replay" /\ Admission
        /\ UNCHANGED <<sessions, events>>
        /\ IF ReplayStatus(s, e) = 202 THEN Goto(q, "commit") ELSE Answer(q, ReplayStatus(s, e))
    BY <1>9, <2>1, <2>2 DEF Replay
  <2>4. CASE ReplayStatus(s, e) # 202
    <3>1. PICK status \in Nat : status = ReplayStatus(s, e)
      BY ReplayStatusFacts
    <3> QED
      BY <2>3, <2>4, <3>1, AnswerQuiet
  <2>5. CASE ReplayStatus(s, e) = 202
    <3>1. /\ Own(s, e) /\ Live(s) /\ events[e].state = "dead_lettered"
          /\ ~(events[e].replays >= SandboxReplays)
      <4>1. ReplayStatus(s, e) # 404
        BY <2>5
      <4> QED
        BY <2>5, <4>1, ReplayStatusFacts
    <3>2. e \in EventIds
      BY <2>2, <2>3, RequestFacts DEF UnderWay
    <3>3. events[e].replays < SandboxReplays
      <4>1. PICK c \in 0..SandboxReplays : c = events[e].replays
        BY <3>2, RequestFacts DEF EventRows
      <4> QED
        BY <3>1, <4>1, Numbers
    <3>4. sessions[s].status = "stored" /\ Goto(q, "commit") /\ request[q].kind # "submit"
      BY <2>3, <2>5, <3>1 DEF Live
    <3> QED
      BY <2>1, <2>2, <2>3, <3>1, <3>3, <3>4, OpenedAdmission
  <2> QED
    BY <2>4, <2>5
<1>10. CASE ReplayCommit(q)
  <2>1. PICK status \in Nat : Answer(q, status)
    BY <1>10, CommittedFacts DEF ReplayCommit
  <2> QED
    BY <1>10, <2>1, ClosedAdmission DEF ReplayCommit
<1>11. CASE DetailRow(q)
  BY <1>11, AnswerQuiet, GotoQuiet DEF DetailRow, Places
<1>12. CASE DetailAttempts(q)
  <2>1. PICK r \in RequestStates : r = request[q]
    BY RequestFacts
  <2>2. PICK m : m = [r EXCEPT !.gone = events[r.event].state = "absent"]
    OBVIOUS
  <2>3. m \in RequestStates
    BY <2>2 DEF RequestStates
  <2>4. PICK a \in RequestStates : a = Answered(m, 200) /\ a.pc # "commit"
    BY <2>3, AnsweredShape, UnsentTyped
  <2>5. request' = [request EXCEPT ![q] = a] /\ UNCHANGED <<sessions, events>>
    BY <1>12, <2>1, <2>2, <2>4, RequestFacts DEF DetailAttempts
  <2> QED
    BY <2>4, <2>5, QuietAdmission
<1>13. CASE List(q) \/ Unavailable(q)
  BY <1>13, AnswerQuiet DEF List, Unavailable
<1> QED
  BY <1>1, <1>2, <1>3, <1>4, <1>5, <1>6, <1>7, <1>8, <1>9, <1>10, <1>11, <1>12, <1>13
     DEF Handle

\* A request that arrives has not checked anything.
LEMMA ArriveAdmission ==
  ASSUME VisitorInv, AdmissionInv, NEW q \in Requests, NEW v \in Visitors, NEW kind \in Kinds,
         NEW e \in EventIds \cup {NULL}, NEW token \in Carried(v),
         Arrive(q, v, kind, e, token)
  PROVE  AdmissionInv'
<1>1. PICK u \in RequestStates : u = Unsent
  BY UnsentTyped
<1>2. PICK b \in Visitors \cup {NULL} : b = IF kind = "session" THEN v ELSE NULL
  OBVIOUS
<1>3. PICK k \in Tokens \cup {NULL} :
        k = IF kind # "session" \/ IsGenuine(token) THEN token ELSE NULL
  BY CarriedFacts
<1>4. PICK r : r = [u EXCEPT !.by = b, !.kind = kind, !.event = e, !.token = k]
  OBVIOUS
<1>5. r \in RequestStates
  BY <1>4 DEF RequestStates
<1>6. request' = [request EXCEPT ![q] =
           IF Admitted(kind, token) = "refused" THEN Answered(r, 401)
           ELSE [r EXCEPT !.pc = Admitted(kind, token)]]
  BY <1>1, <1>2, <1>3, <1>4 DEF Arrive
<1>a. UNCHANGED <<sessions, events>>
  BY DEF Arrive
<1>7. CASE Admitted(kind, token) = "refused"
  <2>1. PICK a \in RequestStates : a = Answered(r, 401) /\ a.pc # "commit"
    BY <1>5, AnsweredShape, UnsentTyped
  <2>2. request' = [request EXCEPT ![q] = a]
    BY <1>6, <1>7, <2>1
  <2> QED
    BY <1>a, <2>1, <2>2, QuietAdmission
<1>8. CASE Admitted(kind, token) # "refused"
  <2>1. PICK place \in {"active", "cleanup"} : place = Admitted(kind, token)
    BY <1>8 DEF Admitted
  <2>2. place \in Places /\ place # "commit"
    BY DEF Places
  <2>3. PICK m : m = [r EXCEPT !.pc = place]
    OBVIOUS
  <2>4. m \in RequestStates /\ m.pc # "commit"
    BY <1>5, <2>2, <2>3, Moved
  <2>5. request' = [request EXCEPT ![q] = m]
    BY <1>6, <1>8, <2>1, <2>3
  <2> QED
    BY <1>a, <2>4, <2>5, QuietAdmission
<1> QED
  BY <1>7, <1>8

\* Every step keeps what the open admission has checked.
LEMMA AdmissionStep ==
  ASSUME VisitorInv, AdmissionInv, [Next]_vars
  PROVE  AdmissionInv'
<1>1. CASE Tick \/ UNCHANGED vars
  <2>1. UNCHANGED <<sessions, events, request>>
    BY <1>1 DEF Tick, vars
  <2> QED
    BY <2>1, AdmissionKept
<1>2. CASE WorkerCleanup
  <2>1. Admission /\ request' = request
    BY <1>2 DEF WorkerCleanup, Cleaned
  <2> QED
    BY <2>1, NoneOpen DEF Admission, Holds
<1>3. ASSUME NEW q \in Requests, Receive(q) \/ Lose(q)
      PROVE  AdmissionInv'
  <2>1. request' = [request EXCEPT ![q] = Unsent] /\ UNCHANGED <<sessions, events>>
    BY <1>3 DEF Receive, Lose
  <2> QED
    BY <2>1, UnsentTyped, QuietAdmission
<1>4. ASSUME NEW v \in Visitors, Forget(v)
      PROVE  AdmissionInv'
  <2>1. UNCHANGED <<sessions, events, request>>
    BY <1>4 DEF Forget
  <2> QED
    BY <2>1, AdmissionKept
<1> QED
  BY <1>1, <1>2, <1>3, <1>4, HandleAdmission, ArriveAdmission, SettleAdmission DEF Next

-----------------------------------------------------------------------------
(***************************************************************************)
(* The theorems.                                                           *)
(***************************************************************************)

\* Before the first request.
LEMMA VisitorInit == Init => VisitorInv /\ AdmissionInv
<1> SUFFICES ASSUME Init
             PROVE  VisitorInv /\ AdmissionInv
  OBVIOUS
<1>1. TypeOK
  <2>1. [status |-> "unissued", expires_at |-> 0, event_count |-> 0] \in SessionRows
    BY Numbers DEF SessionRows
  <2>2. [owner |-> NULL, state |-> "absent", replays |-> 0] \in EventRows
    BY Numbers DEF EventRows
  <2>3. clock \in 0..Horizon
    BY Numbers DEF Init
  <2> QED
    BY <2>1, <2>2, <2>3, UnsentTyped DEF Init, TypeOK
<1>2. \A s \in SessionIds : sessions[s].status = "unissued"
  BY DEF Init
<1>3. \A e \in EventIds : events[e].owner = NULL /\ events[e].state = "absent"
  BY DEF Init
<1>4. SessionsOK(sessions, clock) /\ EventsOK(events, sessions, clock)
  BY <1>2, <1>3 DEF SessionsOK, EventsOK, EventOK, Issued
<1>5. \A v \in Visitors : TokenOK(jar[v], sessions)
  BY DEF Init, TokenOK, IsGenuine
<1>6. \A q \in Requests : RequestOK(request[q], sessions, events, clock)
  BY UnsentOK DEF Init
<1>7. Drawn
  BY UnsentTyped DEF Init, Drawn
<1>8. AdmissionInv
  BY UnsentTyped DEF Init, AdmissionInv, AdmissionStands
<1> QED
  BY <1>1, <1>4, <1>5, <1>6, <1>7, <1>8 DEF VisitorInv

\* Every step keeps the invariant.
LEMMA VisitorStep == VisitorInv /\ AdmissionInv /\ [Next]_vars => VisitorInv'
<1> SUFFICES ASSUME VisitorInv, AdmissionInv, [Next]_vars
             PROVE  VisitorInv'
  OBVIOUS
<1>1. CASE Tick
  BY <1>1, TickInv
<1>2. CASE WorkerCleanup
  BY <1>2, WorkerCleanupInv
<1>3. ASSUME NEW q \in Requests, Handle(q)
      PROVE  VisitorInv'
  <2>1. ASSUME NEW s \in SessionIds, IssueCookie(q, s)
        PROVE  VisitorInv'
    BY <2>1, IssueCookieInv
  <2>2. ASSUME NEW e \in EventIds, SubmitCommit(q, e)
        PROVE  VisitorInv'
    BY <2>2, SubmitCommitInv
  <2> QED
    BY <1>3, <2>1, <2>2, ActiveInv, CleanupFirstInv, CreateInv, ExhaustedInv,
       SubmitInv, SubmitRefusedInv, ReplayInv, ReplayCommitInv, DetailRowInv,
       DetailAttemptsInv, ListInv,
       UnavailableInv DEF Handle
<1>4. ASSUME NEW q \in Requests, Receive(q) \/ Lose(q)
      PROVE  VisitorInv'
  BY <1>4, ReceiveInv, LoseInv
<1>5. ASSUME NEW q \in Requests, NEW v \in Visitors, NEW kind \in Kinds,
             NEW e \in EventIds \cup {NULL}, NEW token \in Carried(v),
             Arrive(q, v, kind, e, token)
      PROVE  VisitorInv'
  BY <1>5, ArriveInv
<1>6. ASSUME NEW v \in Visitors, Forget(v)
      PROVE  VisitorInv'
  BY <1>6, ForgetInv
<1>7. ASSUME NEW e \in EventIds, Settle(e)
      PROVE  VisitorInv'
  BY <1>7, SettleInv
<1>8. CASE UNCHANGED vars
  BY <1>8 DEF VisitorInv, TypeOK, Drawn, vars
<1> QED
  BY <1>1, <1>2, <1>3, <1>4, <1>5, <1>6, <1>7, <1>8 DEF Next

\* The inductive invariant: cookies, sessions, events and requests agree at every
\* moment between the statements of the handlers, and an open admission has the rows
\* that it checked.
THEOREM VisitorInvHolds == Spec => [](VisitorInv /\ AdmissionInv)
<1>1. VisitorInv /\ AdmissionInv /\ [Next]_vars => (VisitorInv /\ AdmissionInv)'
  BY VisitorStep, AdmissionStep
<1> QED
  BY VisitorInit, <1>1, PTL DEF Spec

\* Whoever holds a genuine cookie is answered 401, or 404 for an event of its own, or
\* with an event without attempts, only in the last second of the session, or later,
\* by one of the two clocks: ServeHTTP, Active, Submit, Replay and Detail.
THEOREM DeniedOnlyAtTheEnd == Spec => []DeniedAtTheEnd
<1>1. VisitorInv => DeniedAtTheEnd
  <2> SUFFICES ASSUME VisitorInv, NEW q \in Requests,
                      request[q].pc = "answered", Genuine(q),
                      \/ request[q].status = 401 \/ request[q].gone
                      \/ /\ request[q].status = 404
                         /\ events[request[q].event].owner = request[q].token.id
               PROVE  Ending(request[q].token)
    BY DEF DeniedAtTheEnd
  <2>1. EndingAt(request[q].token, sessions, clock)
    BY RequestFacts DEF Reported, Genuine
  <2> QED
    BY <2>1 DEF EndingAt, Ending
<1> QED
  BY <1>1, VisitorInvHolds, PTL

\* create gives a visitor with a genuine cookie another session, and with it a fresh
\* quota, only in the last second of the first, or later.
THEOREM FreshQuotaOnlyAtTheEnd == Spec => []FreshQuotaAtTheEnd
<1>1. VisitorInv => FreshQuotaAtTheEnd
  <2> SUFFICES ASSUME VisitorInv, NEW q \in Requests,
                      request[q].pc \in {"issue", "create"}, Genuine(q)
               PROVE  Ending(request[q].token)
    BY DEF FreshQuotaAtTheEnd
  <2>1. EndingAt(request[q].token, sessions, clock)
    BY RequestFacts DEF UnderWay, Genuine
  <2> QED
    BY <2>1 DEF EndingAt, Ending
<1> QED
  BY <1>1, VisitorInvHolds, PTL

\* Every answer that speaks of an event was given to a genuine cookie of the event's
\* own session: the source key in Replay and Detail.
THEOREM OnlyOwnShown == Spec => []OnlyOwn
<1>1. VisitorInv => OnlyOwn
  BY RequestFacts DEF OnlyOwn, Reported, Genuine
<1> QED
  BY <1>1, VisitorInvHolds, PTL

\* What Submit and Replay have checked holds when they commit, because admission's
\* lock is held from the checks to the commit and Cleanup and Create take it too.
THEOREM AdmissionsStand == Spec => []AdmissionStands
<1>1. AdmissionInv => AdmissionStands
  BY DEF AdmissionInv
<1> QED
  BY <1>1, VisitorInvHolds, PTL
=============================================================================
