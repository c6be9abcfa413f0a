---------------------------- MODULE DemoReceiver ----------------------------
(***************************************************************************)
(* internal/demoreceiver behind the API's HTTP server: connections whose   *)
(* headers and bodies arrive slowly or never, a few slots for the bodies   *)
(* that are being read, and the server's two read deadlines.  Whoever      *)
(* opened a connection may be gone before it is answered.                  *)
(***************************************************************************)
EXTENDS EventRow

CONSTANTS
  Conns,           \* the connections that may be open at a time
  Slots,           \* bodyBytesInFlightMax / bodyBytesMax, 4
  HeaderTimeout,   \* header_timeout, 5 s
  ReadTimeout,     \* request_timeout, 15 s
  Pace             \* how much time one step of the clock stands for

ASSUME ReceiverAssumption ==
  /\ {Slots, HeaderTimeout, ReadTimeout, Pace} \subseteq Nat \ {0}
  /\ HeaderTimeout <= ReadTimeout
  /\ NULL \notin Conns

VARIABLES
  slots,   \* how many slots are taken
  conn,    \* the connections
  mine     \* the connection of the worker's request, or NULL

receiverVars == <<slots, conn, mine>>

\* The defects of a request, in the order in which they are found: "method" to
\* "headers" by ServeHTTP's first checks, the others in the body.
EarlyFlaws == {"method", "query", "headers"}
LateFlaws == {"too_large", "signature", "none"}

Idle == [pc |-> "idle", age |-> 0, gone |-> FALSE, status |-> 0]

Connections ==
  [pc : {"idle", "header", "body", "answered"}, age : 0..ReadTimeout,
   gone : BOOLEAN, status : 0..599]

ReceiverTypeOK ==
  /\ slots \in 0..Slots
  /\ conn \in [Conns -> Connections]
  /\ mine \in Conns \cup {NULL}

ReceiverInit ==
  /\ slots = 0
  /\ conn = [c \in Conns |-> Idle]
  /\ mine = NULL

Open(c) ==
  /\ conn[c].pc = "idle"
  /\ conn' = [conn EXCEPT ![c] = [Idle EXCEPT !.pc = "header"]]
  /\ UNCHANGED slots

\* The connection ends, with an answer or without (status 0); only what the worker
\* gets to see is kept.
Reply(c, status) ==
  conn' = [conn EXCEPT ![c] =
             IF c = mine THEN [@ EXCEPT !.pc = "answered", !.status = status] ELSE Idle]

Unserved == {c \in Conns : conn[c].pc \in {"header", "body"} /\ ~conn[c].gone}

-----------------------------------------------------------------------------
(***************************************************************************)
(* ServeHTTP.                                                              *)
(***************************************************************************)
Rejection(flaw) ==
  CASE flaw = "method" -> 405 [] flaw = "query" -> 400 [] flaw = "headers" -> 401

\* The headers are complete and the checks before the body have a flaw to report.
Reject(c, flaw) ==
  /\ conn[c].pc = "header"
  /\ Reply(c, Rejection(flaw))
  /\ UNCHANGED slots

\* The slots: one is taken and the body is read, or none is free.
Admit(c) ==
  /\ conn[c].pc = "header"
  /\ IF slots < Slots
     THEN /\ slots' = slots + 1
          /\ conn' = [conn EXCEPT ![c].pc = "body"]
     ELSE Reply(c, 503) /\ UNCHANGED slots

\* The deferred function gives the slot back on every return.
Released(status) == TRUE

\* The handler returns with that status.
Return(c, status) ==
  /\ conn[c].pc = "body"
  /\ slots' = IF Released(status) THEN slots - 1 ELSE slots
  /\ Reply(c, status)

\* The body has arrived; served is what scenarioStatus says of it.
BodyRead(c, flaw, served) ==
  Return(c, CASE flaw = "too_large" -> 413 [] flaw = "signature" -> 401 [] OTHER -> served)

-----------------------------------------------------------------------------
(***************************************************************************)
(* Deadlines and clients.                                                  *)
(***************************************************************************)

\* Mutant: the server is built without a ReadTimeout.
Overdue_Never(c) == FALSE

\* Mutant: both timeouts are the header's.
Overdue_Header(c) == conn[c].age >= HeaderTimeout

\* The deadline for reading the whole request has passed.
Overdue(c) == conn[c].age >= ReadTimeout

\* io.ReadAll fails: the deadline, or the client has gone.
ReadFails(c) == (Overdue(c) \/ conn[c].gone) /\ Return(c, 400)

\* The server closes a connection whose headers do not arrive.
HeaderFails(c) ==
  /\ conn[c].pc = "header"
  /\ conn[c].age >= HeaderTimeout \/ conn[c].gone
  /\ Reply(c, 0)
  /\ UNCHANGED slots

\* The client goes away before it is answered.
Leave(c) ==
  /\ c \in Unserved
  /\ conn' = [conn EXCEPT ![c].gone = TRUE]
  /\ UNCHANGED slots

\* The server acts on its deadlines and on clients that have gone.
Serve(c) == ReadFails(c) \/ HeaderFails(c)

\* Something is to be done before any more time passes.
Urgent ==
  \E c \in Conns : \/ conn[c].gone
                   \/ conn[c].pc = "header" /\ conn[c].age >= HeaderTimeout
                   \/ conn[c].pc = "body" /\ Overdue(c)

Pass ==
  /\ ~Urgent
  /\ conn' = [c \in Conns |->
                IF c \in Unserved /\ conn[c].age < ReadTimeout
                THEN [conn[c] EXCEPT !.age = @ + Pace] ELSE conn[c]]
  /\ UNCHANGED <<slots, mine>>

\* Headers and bodies that arrive; served is what scenarioStatus makes of a body.
Arrives(c, served) ==
  \/ Admit(c)
  \/ \E flaw \in EarlyFlaws : Reject(c, flaw)
  \/ \E flaw \in LateFlaws : BodyRead(c, flaw, served)

\* Somebody else's request.
Guest(c) ==
  /\ c # mine
  /\ Open(c) \/ Leave(c) \/ Arrives(c, 204)
  /\ UNCHANGED mine

-----------------------------------------------------------------------------
(***************************************************************************)
(* Properties.                                                             *)
(***************************************************************************)

Full == slots = Slots

\* Clients that never finish their bodies cannot close the receiver: it is
\* full only until the server's read deadline.
FullEnds == Full ~> ~Full
=============================================================================
