-------------------------- MODULE WorkerLoop_proofs --------------------------
(***************************************************************************)
(* Proofs about WorkerLoop, for any number of workers, events and hints    *)
(* and for all timeouts that satisfy BoundsAssumption: a cycle fits into   *)
(* its context, its handles stay valid to its end, Cleanup is punctual,    *)
(* and a hint is deleted only after its event was considered.              *)
(***************************************************************************)
EXTENDS WorkerLoop, TLAPS

-----------------------------------------------------------------------------
(***************************************************************************)
(* The inductive invariant.                                                *)
(***************************************************************************)
Shape ==
  /\ due \in Seq(Events)
  /\ claims \in [Events -> Nat]
  /\ msgs \in [Hints -> Messages]
  /\ loop \in [Workers -> Loops]

\* The time that the attempts from index i on may take.
Rest(i) == (BatchSize - i) * AttemptTimeout

\* The time that the rest of a cycle may take fits into its context.
TimeOK(l) ==
  /\ l.pc = "receiving" =>
       l.index = 0 /\ l.left + Rest(0) + AckTimeout <= l.cycleLeft
  /\ l.pc = "looping" => l.left = 0 /\ Rest(l.index) + AckTimeout <= l.cycleLeft
  /\ l.pc = "running" =>
       l.index < BatchSize /\ l.left + Rest(l.index + 1) + AckTimeout <= l.cycleLeft
  /\ l.pc = "acking" => l.left <= l.cycleLeft

Cycling == {"receiving", "looping", "running", "acking"}

\* How far the next cleanup may be overdue: a cycle began when it was not.
CleanupOK(l) ==
  /\ l.pc = "waiting" => l.left - l.nextCleanup <= CycleTimeout + PollInterval
  /\ l.pc = "cleaning" => l.left <= l.nextCleanup
  /\ l.pc \in Cycling => l.cycleLeft - l.nextCleanup <= CycleTimeout

\* There are handles in the second half of a cycle only.
PlaceOK(l) ==
  /\ l.pc \in {"stopped", "waiting", "cleaning", "receiving"} => l.batch = {}
  /\ l.pc = "acking" => l.ended \in {"full", "empty", "skipped"}

LoopOK(l) == TimeOK(l) /\ CleanupOK(l) /\ PlaceOK(l)

\* The claims of every event, with the one that it waits for.
Promised == [e \in Events |-> Owed(e)]

\* The message of a handle, while it is in the queue, stays hidden for longer
\* than the cycle takes.  The event is not taken off the table without a claim,
\* and with an empty table at the end of the loop it has its claims.
HandleOK(x, l, ms, cl, pr) ==
  /\ x.hint \in Hints \ Poison /\ x.owed \in Nat
  /\ ms[x.hint].receives = x.receive
  /\ ms[x.hint].status = "queued" => ms[x.hint].hidden > l.cycleLeft
  /\ ms[x.hint].status \notin {"unsent", "dead"}
  /\ x.owed <= pr[EventOf[x.hint]]
  /\ l.pc = "acking" /\ l.ended = "empty" => x.owed <= cl[EventOf[x.hint]]

BatchOK(l, ms, cl, pr) == \A x \in l.batch : HandleOK(x, l, ms, cl, pr)

LoopInv ==
  /\ Shape
  /\ \A w \in Workers : LoopOK(loop[w]) /\ BatchOK(loop[w], msgs, claims, Promised)

-----------------------------------------------------------------------------
(***************************************************************************)
(* The loop of one worker.                                                 *)
(***************************************************************************)

\* The constants are numbers.
LEMMA Numbers ==
  /\ 0 \in 0..CycleTimeout /\ CycleTimeout \in 0..CycleTimeout /\ 0 \in 0..BatchSize
  /\ PollInterval \in Nat /\ ReceiveTimeout \in Nat /\ CleanupTimeout \in Nat
  /\ CleanupPeriod \in Nat /\ AckTimeout \in Nat /\ AttemptTimeout \in Nat
  /\ CycleTimeout \in Nat /\ Visibility \in Nat /\ BatchSize \in Nat
BY LoopAssumption

\* One attempt less.
LEMMA RestFacts ==
  /\ \A i \in 0..BatchSize : Rest(i) \in Nat
  /\ \A i \in 0..BatchSize : i < BatchSize => Rest(i) = AttemptTimeout + Rest(i + 1)
  /\ Rest(0) = BatchSize * AttemptTimeout
<1>1. BatchSize \in Nat /\ AttemptTimeout \in Nat
  BY LoopAssumption
<1>2. ASSUME NEW i \in 0..BatchSize PROVE (BatchSize - i) * AttemptTimeout \in Nat
  <2>1. PICK n \in Nat : n = BatchSize - i
    BY <1>1
  <2>2. n * AttemptTimeout \in Nat
    BY <1>1
  <2>. QED  BY <2>1, <2>2
<1>3. ASSUME NEW i \in 0..BatchSize, i < BatchSize
      PROVE  (BatchSize - i) * AttemptTimeout
               = AttemptTimeout + (BatchSize - (i + 1)) * AttemptTimeout
  BY <1>1, <1>3
<1>. QED  BY <1>1, <1>2, <1>3 DEF Rest

\* A worker that starts, and one that has stopped.
LEMMA StartedOK ==
  /\ Started \in Loops /\ LoopOK(Started) /\ Started.batch = {}
  /\ Stopped \in Loops /\ LoopOK(Stopped) /\ Stopped.batch = {}
<1>1. /\ Started \in Loops /\ Started.pc = "waiting" /\ Started.left = PollInterval
      /\ Started.batch = {} /\ Started.nextCleanup = 0
  BY LoopAssumption DEF Started, Loops, Places
<1>2. Stopped \in Loops /\ Stopped.pc = "stopped" /\ Stopped.batch = {}
  <2>. HIDE DEF Started
  <2>. QED  BY <1>1 DEF Stopped, Loops, Places
<1>3. LoopOK(Started)
  BY <1>1, LoopAssumption DEF LoopOK, TimeOK, CleanupOK, PlaceOK, Cycling
<1>4. LoopOK(Stopped)
  BY <1>2 DEF LoopOK, TimeOK, CleanupOK, PlaceOK, Cycling
<1>. QED  BY <1>1, <1>2, <1>3, <1>4

\* A cycle begins, no later than the next cleanup is due.
LEMMA ReceivingOK ==
  ASSUME NEW l \in Loops, l.batch = {}, l.nextCleanup >= 0
  PROVE  Receiving(l) \in Loops /\ LoopOK(Receiving(l)) /\ Receiving(l).batch = {}
<1>. DEFINE n == Receiving(l)
<1>1. /\ n \in Loops /\ n.pc = "receiving" /\ n.left = ReceiveTimeout
      /\ n.cycleLeft = CycleTimeout /\ n.index = 0 /\ n.batch = {}
      /\ n.nextCleanup = l.nextCleanup
  BY Numbers DEF Receiving, Loops, Places
<1>. HIDE DEF n
<1>2. TimeOK(n)
  BY <1>1, RestFacts, BoundsAssumption DEF TimeOK
<1>3. CleanupOK(n)
  BY <1>1, LoopAssumption DEF CleanupOK, Cycling, Loops
<1>4. PlaceOK(n)
  BY <1>1 DEF PlaceOK
<1>. QED  BY <1>1, <1>2, <1>3, <1>4 DEF LoopOK, n

\* A cycle returns.
LEMMA ReturnedOK ==
  ASSUME NEW l \in Loops, l.pc \in Cycling, CleanupOK(l)
  PROVE  Returned(l) \in Loops /\ LoopOK(Returned(l)) /\ Returned(l).batch = {}
<1>. DEFINE n == Returned(l)
<1>1. /\ n \in Loops /\ n.pc = "waiting" /\ n.left = PollInterval /\ n.batch = {}
      /\ n.nextCleanup = l.nextCleanup
  BY Numbers DEF Returned, Loops, Places
<1>2. l.cycleLeft \in Nat /\ l.nextCleanup \in Int /\ l.cycleLeft - l.nextCleanup <= CycleTimeout
  BY LoopAssumption DEF CleanupOK, Loops
<1>. HIDE DEF n
<1>3. LoopOK(n)
  BY <1>1, <1>2, LoopAssumption DEF LoopOK, TimeOK, CleanupOK, PlaceOK, Cycling
<1>. QED  BY <1>1, <1>3 DEF n

\* The loop ends: the batch is acknowledged, or the cycle returns.
LEMMA FinishOK ==
  ASSUME NEW l \in Loops, l.pc \in {"looping", "running"}, LoopOK(l),
         NEW why \in {"full", "empty", "skipped"}
  PROVE  /\ Finish(l, why) \in Loops /\ LoopOK(Finish(l, why))
         /\ \/ Finish(l, why).batch = {}
            \/ /\ Finish(l, why).batch = l.batch
               /\ Finish(l, why).cycleLeft = l.cycleLeft
               /\ Finish(l, why).ended = why
<1>. DEFINE n == Finish(l, why)
<1>1. CASE l.received
  <2>1. l.cycleLeft \in Nat /\ l.left \in Nat /\ l.nextCleanup \in Int
    BY LoopAssumption DEF Loops
  <2>2. PICK t \in Nat : t = Least(AckTimeout, l.cycleLeft) /\ t <= l.cycleLeft
    BY <2>1, LoopAssumption DEF Least
  <2>3. n = [l EXCEPT !.pc = "acking", !.ended = why, !.left = t]
    BY <1>1, <2>2 DEF Finish
  <2>4. /\ n \in Loops /\ n.pc = "acking" /\ n.left = t /\ n.batch = l.batch
        /\ n.cycleLeft = l.cycleLeft /\ n.ended = why /\ n.nextCleanup = l.nextCleanup
    BY <2>3 DEF Loops, Places
  <2>. HIDE DEF n
  <2>5. LoopOK(n)
    BY <2>1, <2>2, <2>4 DEF LoopOK, TimeOK, CleanupOK, PlaceOK, Cycling
  <2>. QED  BY <2>4, <2>5 DEF n
<1>2. CASE ~l.received
  BY <1>2, ReturnedOK DEF Finish, LoopOK, Cycling
<1>. QED  BY <1>1, <1>2

\* Time passes: no call outlasts its context.
LEMMA LaterOK ==
  ASSUME NEW l \in Loops, LoopOK(l), l.pc # "stopped" => l.left > 0
  PROVE  /\ Later(l) \in Loops /\ LoopOK(Later(l)) /\ Later(l).batch = l.batch
         /\ Later(l).pc = l.pc /\ Later(l).ended = l.ended
         /\ l.pc \in {"looping", "running", "acking"} =>
              l.cycleLeft > 0 /\ Later(l).cycleLeft = l.cycleLeft - 1
<1>1. CASE l.pc = "stopped"
  BY <1>1 DEF Later
<1>2. CASE l.pc # "stopped"
  <2>. DEFINE n == Later(l)
  <2>1. /\ l.left \in Nat /\ l.cycleLeft \in 0..CycleTimeout /\ l.nextCleanup \in Int
        /\ l.index \in 0..BatchSize /\ l.left > 0
    BY <1>2 DEF Loops
  <2>2. /\ Less(l.left) = l.left - 1 /\ Less(l.left) \in Nat
        /\ Less(l.cycleLeft) \in 0..CycleTimeout
        /\ l.cycleLeft > 0 => Less(l.cycleLeft) = l.cycleLeft - 1
        /\ l.cycleLeft = 0 => Less(l.cycleLeft) = 0
    BY <2>1, LoopAssumption DEF Less
  <2>3. /\ n \in Loops /\ n.pc = l.pc /\ n.left = l.left - 1 /\ n.batch = l.batch
        /\ n.cycleLeft = Less(l.cycleLeft) /\ n.index = l.index /\ n.ended = l.ended
        /\ n.nextCleanup = l.nextCleanup - 1
    <3>1. PICK t, c, u : t = Less(l.left) /\ c = Less(l.cycleLeft) /\ u = l.nextCleanup - 1
      OBVIOUS
    <3>2. t \in Nat /\ c \in 0..CycleTimeout /\ u \in Int
      BY <2>1, <2>2, <3>1
    <3>3. n = [l EXCEPT !.left = t, !.cycleLeft = c, !.nextCleanup = u]
      BY <1>2, <3>1 DEF Later, Loops
    <3>4. /\ n \in Loops /\ n.pc = l.pc /\ n.left = t /\ n.batch = l.batch
          /\ n.cycleLeft = c /\ n.index = l.index /\ n.ended = l.ended
          /\ n.nextCleanup = u
      BY <3>2, <3>3 DEF Loops
    <3>. HIDE DEF n
    <3>. QED  BY <2>2, <3>1, <3>4
  <2>. HIDE DEF n
  <2>4. l.pc \in Cycling => l.cycleLeft > 0
    BY <2>1, RestFacts, LoopAssumption DEF LoopOK, TimeOK, Cycling
  <2>5. TimeOK(n)
    BY <2>1, <2>2, <2>3, <2>4, RestFacts, LoopAssumption DEF LoopOK, TimeOK, Cycling
  <2>6. CleanupOK(n)
    BY <2>1, <2>2, <2>3, <2>4, LoopAssumption DEF LoopOK, CleanupOK, Cycling
  <2>7. PlaceOK(n)
    BY <2>3 DEF LoopOK, PlaceOK
  <2>. QED  BY <2>2, <2>3, <2>4, <2>5, <2>6, <2>7 DEF LoopOK, n, Cycling
<1>. QED  BY <1>1, <1>2

\* The first due event is claimed, or an attempt begins or ends: the batch is
\* that of before.
LEMMA RunningOK ==
  ASSUME NEW l \in Loops, LoopOK(l)
  PROVE  /\ l.pc = "looping" /\ l.index < BatchSize =>
              LET n == [l EXCEPT !.pc = "running", !.left = Least(AttemptTimeout, l.cycleLeft)]
              IN  /\ n \in Loops /\ LoopOK(n) /\ n.batch = l.batch
                  /\ n.cycleLeft = l.cycleLeft /\ n.pc # "acking"
         /\ l.pc = "running" =>
              LET n == [l EXCEPT !.pc = "looping", !.left = 0, !.index = l.index + 1,
                                 !.holding = NULL]
              IN  /\ n \in Loops /\ LoopOK(n) /\ n.batch = l.batch
                  /\ n.cycleLeft = l.cycleLeft /\ n.pc # "acking"
         /\ \A e \in Events : l.pc = "running" =>
              LET n == [l EXCEPT !.holding = e]
              IN  /\ n \in Loops /\ LoopOK(n) /\ n.batch = l.batch
                  /\ n.cycleLeft = l.cycleLeft /\ n.pc # "acking"
<1>0. l.left \in Nat /\ l.cycleLeft \in Nat /\ l.nextCleanup \in Int /\ l.index \in 0..BatchSize
  BY Numbers DEF Loops
<1>1. ASSUME l.pc = "looping", l.index < BatchSize
      PROVE  LET n == [l EXCEPT !.pc = "running", !.left = Least(AttemptTimeout, l.cycleLeft)]
              IN  /\ n \in Loops /\ LoopOK(n) /\ n.batch = l.batch
                  /\ n.cycleLeft = l.cycleLeft /\ n.pc # "acking"
  <2>1. PICK t \in Nat : t = Least(AttemptTimeout, l.cycleLeft) /\ t <= AttemptTimeout
    BY <1>0, Numbers DEF Least
  <2>. DEFINE n == [l EXCEPT !.pc = "running", !.left = t]
  <2>2. /\ n \in Loops /\ n.pc = "running" /\ n.left = t /\ n.batch = l.batch
        /\ n.cycleLeft = l.cycleLeft /\ n.index = l.index /\ n.nextCleanup = l.nextCleanup
    BY DEF Loops, Places
  <2>. HIDE DEF n
  <2>3. t + Rest(l.index + 1) + AckTimeout <= l.cycleLeft
    <3>1. /\ Rest(l.index) = AttemptTimeout + Rest(l.index + 1)
          /\ Rest(l.index) \in Nat /\ Rest(l.index + 1) \in Nat
      BY <1>0, <1>1, RestFacts, Numbers
    <3>2. Rest(l.index) + AckTimeout <= l.cycleLeft
      BY <1>1 DEF LoopOK, TimeOK
    <3>. QED  BY <1>0, <2>1, <3>1, <3>2, Numbers
  <2>4. TimeOK(n)
    BY <1>1, <2>2, <2>3 DEF TimeOK
  <2>5. CleanupOK(n) /\ PlaceOK(n)
    BY <1>1, <2>2 DEF LoopOK, CleanupOK, PlaceOK, Cycling
  <2>6. n \in Loops /\ LoopOK(n) /\ n.batch = l.batch /\ n.cycleLeft = l.cycleLeft
        /\ n.pc # "acking"
    BY <2>2, <2>4, <2>5 DEF LoopOK
  <2>. QED  BY <2>1, <2>6 DEF n
<1>2. ASSUME l.pc = "running"
      PROVE  LET n == [l EXCEPT !.pc = "looping", !.left = 0, !.index = l.index + 1,
                                !.holding = NULL]
              IN  /\ n \in Loops /\ LoopOK(n) /\ n.batch = l.batch
                  /\ n.cycleLeft = l.cycleLeft /\ n.pc # "acking"
  <2>1. PICK i \in 0..BatchSize : i = l.index + 1
    BY <1>0, <1>2, Numbers DEF LoopOK, TimeOK
  <2>. DEFINE n == [l EXCEPT !.pc = "looping", !.left = 0, !.index = i, !.holding = NULL]
  <2>2. /\ n \in Loops /\ n.pc = "looping" /\ n.left = 0 /\ n.batch = l.batch
        /\ n.cycleLeft = l.cycleLeft /\ n.index = i /\ n.nextCleanup = l.nextCleanup
    BY DEF Loops, Places
  <2>3. n = [l EXCEPT !.pc = "looping", !.left = 0, !.index = l.index + 1, !.holding = NULL]
    BY <2>1
  <2>. HIDE DEF n
  <2>4. TimeOK(n)
    BY <1>0, <1>2, <2>1, <2>2, RestFacts, Numbers DEF LoopOK, TimeOK
  <2>5. CleanupOK(n) /\ PlaceOK(n)
    BY <1>2, <2>2 DEF LoopOK, CleanupOK, PlaceOK, Cycling
  <2>. QED  BY <2>2, <2>3, <2>4, <2>5 DEF LoopOK
<1>3. ASSUME NEW e \in Events, l.pc = "running"
      PROVE  LET n == [l EXCEPT !.holding = e]
             IN  /\ n \in Loops /\ LoopOK(n) /\ n.batch = l.batch
                 /\ n.cycleLeft = l.cycleLeft /\ n.pc # "acking"
  BY <1>3 DEF Loops, LoopOK, TimeOK, CleanupOK, PlaceOK, Cycling
<1>. QED  BY <1>1, <1>2, <1>3

-----------------------------------------------------------------------------
(***************************************************************************)
(* The messages.                                                           *)
(***************************************************************************)

\* Nothing happens to a hidden message, except that it vanishes.
Kept(ms, ns) ==
  \A h \in Hints :
    ms[h].hidden > 0 \/ ms[h].status \in {"deleted", "lost"} =>
      /\ ns[h].receives = ms[h].receives
      /\ ns[h].status = "queued" => ms[h].status = "queued" /\ ns[h].hidden = ms[h].hidden
      /\ ms[h].status \notin {"unsent", "dead"} => ns[h].status \notin {"unsent", "dead"}

\* No claim is taken back.
Grown(f, g) == \A e \in Events : f[e] \in Nat /\ g[e] \in Nat /\ f[e] <= g[e]

\* The handles of a worker that does not move stay valid.
LEMMA BatchKept ==
  ASSUME NEW l \in Loops, NEW n, n.batch = l.batch, n.cycleLeft = l.cycleLeft,
         n.pc # "acking" \/ (n.pc = l.pc /\ n.ended = l.ended),
         NEW ms \in [Hints -> Messages], NEW ns, NEW cl, NEW dl, NEW pr, NEW qr,
         BatchOK(l, ms, cl, pr), Kept(ms, ns), Grown(cl, dl), Grown(pr, qr)
  PROVE  BatchOK(n, ns, dl, qr)
<1>. SUFFICES ASSUME NEW x \in l.batch PROVE HandleOK(x, n, ns, dl, qr)
  BY DEF BatchOK
<1>1. HandleOK(x, l, ms, cl, pr) /\ l.cycleLeft \in Nat
  BY Numbers DEF BatchOK, Loops
<1>2. x.hint \in Hints /\ EventOf[x.hint] \in Events /\ ms[x.hint] \in Messages
  BY <1>1, LoopAssumption DEF HandleOK
<1>3. ms[x.hint].hidden > 0 \/ ms[x.hint].status \in {"deleted", "lost"}
  <2>1. ms[x.hint].hidden \in Nat
        /\ ms[x.hint].status \in {"unsent", "queued", "deleted", "dead", "lost"}
    BY <1>2, Numbers DEF Messages
  <2>. QED  BY <1>1, <2>1 DEF HandleOK
<1>4. /\ x.owed <= qr[EventOf[x.hint]]
      /\ x.owed <= cl[EventOf[x.hint]] => x.owed <= dl[EventOf[x.hint]]
  BY <1>1, <1>2 DEF HandleOK, Grown
<1>. QED  BY <1>1, <1>2, <1>3, <1>4 DEF HandleOK, Kept

\* The claims of an event are a number.
LEMMA PromisedFacts ==
  ASSUME Shape
  PROVE  /\ Grown(claims, claims) /\ Grown(Promised, Promised)
         /\ Grown(claims, Promised)
         /\ due = <<>> => \A e \in Events : Promised[e] = claims[e]
<1>1. \A e \in Events : claims[e] \in Nat /\ Promised[e] = Owed(e)
  BY DEF Shape, Promised
<1>2. \A e \in Events : Promised[e] \in Nat /\ claims[e] <= Promised[e]
  BY <1>1 DEF Owed
<1>3. due = <<>> => \A e \in Events : e \notin ToSet(due)
  BY DEF ToSet
<1>. QED  BY <1>1, <1>2, <1>3 DEF Grown, Owed

\* A step that claims nothing and makes nothing due.
LEMMA PromisedSame ==
  ASSUME Shape, UNCHANGED <<due, claims>>
  PROVE  Promised' = Promised /\ Grown(claims, claims') /\ Grown(Promised, Promised')
<1>1. Promised' = Promised
  BY DEF Promised, Owed
<1>. QED  BY <1>1, PromisedFacts

\* It is enough to look at the worker that moves.
LEMMA MoveInv ==
  ASSUME LoopInv, NEW w \in Workers, NEW n \in Loops, loop' = [loop EXCEPT ![w] = n],
         LoopOK(n), BatchOK(n, msgs', claims', Promised'),
         due' \in Seq(Events), claims' \in [Events -> Nat], msgs' \in [Hints -> Messages],
         Kept(msgs, msgs'), Grown(claims, claims'), Grown(Promised, Promised')
  PROVE  LoopInv'
<1>1. Shape'
  BY DEF LoopInv, Shape
<1>2. ASSUME NEW v \in Workers PROVE LoopOK(loop'[v]) /\ BatchOK(loop'[v], msgs', claims', Promised')
  <2>1. CASE v = w
    BY <2>1 DEF LoopInv, Shape
  <2>2. CASE v # w
    <3>1. loop'[v] = loop[v] /\ loop[v] \in Loops
      BY <2>2 DEF LoopInv, Shape
    <3>2. LoopOK(loop[v]) /\ BatchOK(loop[v], msgs, claims, Promised)
      BY DEF LoopInv
    <3>3. BatchOK(loop[v], msgs', claims', Promised')
      BY <3>1, <3>2, BatchKept DEF LoopInv, Shape
    <3>. QED  BY <3>1, <3>2, <3>3
  <2>. QED  BY <2>1, <2>2
<1>. QED  BY <1>1, <1>2 DEF LoopInv

\* A step that concerns the worker alone.
LEMMA OwnStep ==
  ASSUME LoopInv, NEW w \in Workers, NEW n \in Loops, loop' = [loop EXCEPT ![w] = n],
         LoopOK(n), BatchOK(n, msgs, claims, Promised), UNCHANGED <<due, claims, msgs>>
  PROVE  LoopInv'
<1>1. Promised' = Promised /\ Grown(claims, claims') /\ Grown(Promised, Promised')
  BY PromisedSame DEF LoopInv
<1>2. Kept(msgs, msgs')
  BY DEF Kept
<1>3. BatchOK(n, msgs', claims', Promised')
  BY <1>1
<1>. QED  BY <1>1, <1>2, <1>3, MoveInv DEF LoopInv, Shape

\* What the loop of a worker is.
LEMMA LoopFacts ==
  ASSUME LoopInv, NEW w \in Workers
  PROVE  /\ loop[w] \in Loops /\ LoopOK(loop[w]) /\ BatchOK(loop[w], msgs, claims, Promised)
         /\ \A n : n.batch = {} => BatchOK(n, msgs, claims, Promised)
BY DEF LoopInv, Shape, BatchOK

-----------------------------------------------------------------------------
(***************************************************************************)
(* main_cycles.                                                            *)
(***************************************************************************)

\* The ticker fires: a cleanup that is due comes first.
LEMMA WakeInv ==
  ASSUME LoopInv, NEW w \in Workers, Wake(w) PROVE LoopInv'
<1>. DEFINE l == loop[w]
<1>0. l \in Loops /\ LoopOK(l) /\ \A n : n.batch = {} => BatchOK(n, msgs, claims, Promised)
  BY LoopFacts
<1>1. l.pc = "waiting" /\ l.batch = {} /\ l.nextCleanup \in Int
      /\ UNCHANGED <<due, claims, msgs>>
  BY <1>0 DEF Wake, LoopOK, PlaceOK, Loops
<1>2. CASE CleanupDue(l)
  <2>. DEFINE n == [l EXCEPT !.pc = "cleaning", !.left = CleanupTimeout,
                             !.nextCleanup = CleanupPeriod]
  <2>1. loop' = [loop EXCEPT ![w] = n]
    BY <1>2 DEF Wake
  <2>. HIDE DEF l
  <2>2. CleanupPeriod \in Int
    BY Numbers
  <2>3. /\ n \in Loops /\ n.pc = "cleaning" /\ n.left = CleanupTimeout /\ n.batch = {}
        /\ n.nextCleanup = CleanupPeriod
    BY <1>0, <1>1, <2>2, Numbers DEF Loops, Places
  <2>. HIDE DEF n
  <2>4. LoopOK(n)
    BY <2>3, BoundsAssumption DEF LoopOK, TimeOK, CleanupOK, PlaceOK, Cycling
  <2>. QED  BY <1>0, <1>1, <2>1, <2>3, <2>4, OwnStep
<1>3. CASE ~CleanupDue(l)
  <2>1. loop' = [loop EXCEPT ![w] = Receiving(l)]
    BY <1>3 DEF Wake
  <2>2. l.nextCleanup >= 0
    BY <1>1, <1>3 DEF CleanupDue
  <2>3. Receiving(l) \in Loops /\ LoopOK(Receiving(l)) /\ Receiving(l).batch = {}
    BY <1>0, <1>1, <2>2, ReceivingOK
  <2>. QED  BY <1>0, <1>1, <2>1, <2>3, OwnStep
<1>. QED  BY <1>2, <1>3

\* Cleanup is over before the next one is due.
LEMMA CleanupDoneInv ==
  ASSUME LoopInv, NEW w \in Workers, CleanupDone(w) PROVE LoopInv'
<1>. DEFINE l == loop[w]
<1>0. l \in Loops /\ LoopOK(l) /\ \A n : n.batch = {} => BatchOK(n, msgs, claims, Promised)
  BY LoopFacts
<1>1. /\ l.pc = "cleaning" /\ l.batch = {} /\ l.nextCleanup >= 0
      /\ loop' = [loop EXCEPT ![w] = Receiving(l)]
      /\ UNCHANGED <<due, claims, msgs>>
  BY <1>0 DEF CleanupDone, LoopOK, PlaceOK, CleanupOK, Loops
<1>2. Receiving(l) \in Loops /\ LoopOK(Receiving(l)) /\ Receiving(l).batch = {}
  BY <1>0, <1>1, ReceivingOK
<1>. QED  BY <1>0, <1>1, <1>2, OwnStep

\* A process stops and starts.
LEMMA StopStartInv ==
  ASSUME LoopInv, NEW w \in Workers, Stop(w) \/ Start(w) PROVE LoopInv'
<1>1. /\ loop' = [loop EXCEPT ![w] = Stopped] \/ loop' = [loop EXCEPT ![w] = Started]
      /\ UNCHANGED <<due, claims, msgs>>
  BY DEF Stop, Start
<1>2. \A n : n.batch = {} => BatchOK(n, msgs, claims, Promised)
  BY LoopFacts
<1>. QED  BY <1>1, <1>2, StartedOK, OwnStep

-----------------------------------------------------------------------------
(***************************************************************************)
(* Cycle.                                                                  *)
(***************************************************************************)

\* ReceiveMessage hides visible messages only, and for longer than a cycle.
LEMMA HideFacts ==
  ASSUME LoopInv, NEW s \in Receivable, Hide(s)
  PROVE  /\ msgs' \in [Hints -> Messages] /\ Kept(msgs, msgs')
         /\ \A h \in s : /\ h \in Hints /\ msgs'[h].status = "queued"
                         /\ msgs'[h].hidden = Visibility
                         /\ msgs'[h].receives = msgs[h].receives + 1
                         /\ msgs[h].receives + 1 \in 1..MaxReceives
         /\ \A h \in Hints : msgs'[h].status = msgs[h].status
<1>1. s \subseteq Hints /\ \A h \in s : Visible(h) /\ msgs[h].receives < MaxReceives
  BY DEF Receivable
<1>2. msgs \in [Hints -> Messages] /\ Visibility \in 0..Visibility /\ MaxReceives \in Nat
  BY LoopAssumption DEF LoopInv, Shape
<1>3. ASSUME NEW h \in s
      PROVE  /\ h \in Hints /\ msgs'[h].status = "queued"
             /\ msgs'[h].hidden = Visibility
             /\ msgs'[h].receives = msgs[h].receives + 1
             /\ msgs[h].receives + 1 \in 1..MaxReceives
             /\ msgs'[h] \in Messages /\ msgs[h].status = "queued" /\ msgs[h].hidden = 0
  <2>1. PICK m \in Messages : m = msgs[h]
    BY <1>1, <1>2
  <2>2. /\ m.receives + 1 \in 1..MaxReceives /\ m.receives + 1 \in 0..MaxReceives
        /\ m.status = "queued" /\ m.hidden = 0
    BY <1>1, <1>2, <2>1 DEF Messages, Visible
  <2>3. msgs'[h] = [m EXCEPT !.hidden = Visibility, !.receives = m.receives + 1]
    BY <1>1, <2>1 DEF Hide, Hiding
  <2>4. /\ [m EXCEPT !.hidden = Visibility, !.receives = m.receives + 1] \in Messages
        /\ [m EXCEPT !.hidden = Visibility, !.receives = m.receives + 1].status = m.status
        /\ [m EXCEPT !.hidden = Visibility, !.receives = m.receives + 1].hidden = Visibility
        /\ [m EXCEPT !.hidden = Visibility, !.receives = m.receives + 1].receives = m.receives + 1
    BY <1>2, <2>2 DEF Messages
  <2>. QED  BY <1>1, <2>1, <2>2, <2>3, <2>4
<1>4. \A h \in Hints \ s : msgs'[h] = msgs[h]
  BY DEF Hide
<1>5. msgs' \in [Hints -> Messages]
  <2>1. \A h \in Hints : msgs'[h] \in Messages
    BY <1>2, <1>3, <1>4
  <2>2. msgs' = [h \in Hints |-> msgs'[h]]
    BY DEF Hide
  <2>. QED  BY <2>1, <2>2
<1>6. Kept(msgs, msgs')
  BY <1>3, <1>4 DEF Kept
<1>7. \A h \in Hints : msgs'[h].status = msgs[h].status
  BY <1>3, <1>4
<1>. QED  BY <1>3, <1>5, <1>6, <1>7

\* The handles of a batch are the latest, of messages hidden by this very call.
LEMMA ReceiveInv ==
  ASSUME LoopInv, NEW w \in Workers, Receive(w) PROVE LoopInv'
<1>. DEFINE l == loop[w]
<1>0. l \in Loops /\ LoopOK(l) /\ l.pc = "receiving" /\ UNCHANGED <<due, claims>>
  BY LoopFacts DEF Receive
<1>1. PICK s \in Receivable :
        /\ Hide(s)
        /\ loop' = [loop EXCEPT ![w] =
             [@ EXCEPT !.pc = "looping", !.left = 0, !.received = TRUE,
                       !.batch = {Handle(h) : h \in Accepted(s)}]]
  BY DEF Receive
<1>2. /\ msgs' \in [Hints -> Messages] /\ Kept(msgs, msgs')
      /\ \A h \in s : /\ h \in Hints /\ msgs'[h].status = "queued"
                      /\ msgs'[h].hidden = Visibility
                      /\ msgs'[h].receives = msgs[h].receives + 1
                      /\ msgs[h].receives + 1 \in 1..MaxReceives
      /\ \A h \in Hints : msgs'[h].status = msgs[h].status
  BY <1>1, HideFacts
<1>. DEFINE b == {Handle(h) : h \in Accepted(s)}
            n == [l EXCEPT !.pc = "looping", !.left = 0, !.received = TRUE, !.batch = b]
<1>3. \A x \in b : \E h \in s \ Poison :
        /\ x.hint = h /\ x.receive = msgs[h].receives + 1
        /\ x.owed = Promised[EventOf[h]] /\ x.owed \in Nat /\ x \in Handles
  <2>. SUFFICES ASSUME NEW h \in s \ Poison
                PROVE  /\ Handle(h).hint = h /\ Handle(h).receive = msgs[h].receives + 1
                       /\ Handle(h).owed = Promised[EventOf[h]] /\ Handle(h).owed \in Nat
                       /\ Handle(h) \in Handles
    BY DEF Accepted
  <2>1. h \in Hints /\ EventOf[h] \in Events
    BY <1>2, LoopAssumption
  <2>2. Promised[EventOf[h]] = Owed(EventOf[h]) /\ Promised[EventOf[h]] \in Nat
    BY <2>1, PromisedFacts DEF Promised, LoopInv, Grown
  <2>. QED  BY <1>2, <2>1, <2>2 DEF Handle, Handles
<1>4. loop' = [loop EXCEPT ![w] = n]
  BY <1>1
<1>. HIDE DEF b, l
<1>5. b \subseteq Handles
  BY <1>3
<1>6. /\ n \in Loops /\ n.pc = "looping" /\ n.left = 0 /\ n.batch = b
      /\ n.cycleLeft = l.cycleLeft /\ n.index = l.index /\ n.nextCleanup = l.nextCleanup
  BY <1>0, <1>5 DEF Loops, Places
<1>. HIDE DEF n
<1>7. l.left \in Nat /\ l.cycleLeft \in 0..CycleTimeout /\ l.index = 0
  BY <1>0 DEF Loops, LoopOK, TimeOK
<1>8. LoopOK(n)
  BY <1>0, <1>6, <1>7, RestFacts, Numbers DEF LoopOK, TimeOK, CleanupOK, PlaceOK, Cycling
<1>9. Promised' = Promised /\ Grown(claims, claims') /\ Grown(Promised, Promised')
  BY <1>0, PromisedSame DEF LoopInv
<1>10. BatchOK(n, msgs', claims', Promised')
  <2>. SUFFICES ASSUME NEW x \in b PROVE HandleOK(x, n, msgs', claims', Promised')
    BY <1>6 DEF BatchOK
  <2>1. PICK h \in s \ Poison : /\ x.hint = h /\ x.receive = msgs[h].receives + 1
                                /\ x.owed = Promised[EventOf[h]] /\ x.owed \in Nat
    BY <1>3
  <2>2. Visibility > n.cycleLeft
    BY <1>6, <1>7, Numbers, BoundsAssumption
  <2>3. x.owed <= Promised'[EventOf[h]]
    BY <1>9, <2>1
  <2>. QED  BY <1>2, <1>6, <2>1, <2>2, <2>3 DEF HandleOK
<1>. QED  BY <1>0, <1>2, <1>4, <1>6, <1>8, <1>9, <1>10, MoveInv DEF LoopInv, Shape

\* Without a batch there is nothing to acknowledge.
LEMMA ReceiveFailedInv ==
  ASSUME LoopInv, NEW w \in Workers, ReceiveFailed(w) PROVE LoopInv'
<1>. DEFINE l == loop[w]
            n == [l EXCEPT !.pc = "looping", !.left = 0]
<1>0. l \in Loops /\ LoopOK(l) /\ l.pc = "receiving" /\ UNCHANGED <<due, claims>>
      /\ l.batch = {} /\ loop' = [loop EXCEPT ![w] = n]
  BY LoopFacts DEF ReceiveFailed, Unreceived, LoopOK, PlaceOK
<1>1. PICK s \in Receivable : Hide(s)
  BY DEF ReceiveFailed
<1>2. /\ msgs' \in [Hints -> Messages] /\ Kept(msgs, msgs')
      /\ \A h \in Hints : msgs'[h].status = msgs[h].status
  BY <1>1, HideFacts
<1>. HIDE DEF l
<1>3. /\ n \in Loops /\ n.pc = "looping" /\ n.left = 0 /\ n.batch = {}
      /\ n.cycleLeft = l.cycleLeft /\ n.index = l.index /\ n.nextCleanup = l.nextCleanup
  BY <1>0 DEF Loops, Places
<1>. HIDE DEF n
<1>4. l.left \in Nat /\ l.cycleLeft \in 0..CycleTimeout /\ l.index = 0
  BY <1>0 DEF Loops, LoopOK, TimeOK
<1>5. LoopOK(n)
  BY <1>0, <1>3, <1>4, RestFacts, Numbers DEF LoopOK, TimeOK, CleanupOK, PlaceOK, Cycling
<1>6. BatchOK(n, msgs', claims', Promised')
  BY <1>3 DEF BatchOK
<1>7. Grown(claims, claims') /\ Grown(Promised, Promised')
  BY <1>0, PromisedSame DEF LoopInv
<1>. QED  BY <1>0, <1>2, <1>3, <1>5, <1>6, <1>7, MoveInv DEF LoopInv, Shape

\* The loop of Cycle: the batch is kept while attempts are made.
LEMMA BeginRunInv ==
  ASSUME LoopInv, NEW w \in Workers, BeginRun(w) PROVE LoopInv'
<1>. DEFINE l == loop[w]
            n == [l EXCEPT !.pc = "running", !.left = Least(AttemptTimeout, l.cycleLeft)]
<1>0. /\ l \in Loops /\ LoopOK(l) /\ BatchOK(l, msgs, claims, Promised)
      /\ \A m : m.batch = {} => BatchOK(m, msgs, claims, Promised)
      /\ l.pc = "looping" /\ l.index < BatchSize /\ UNCHANGED <<due, claims, msgs>>
      /\ loop' = [loop EXCEPT ![w] = Returned(l)] \/ loop' = [loop EXCEPT ![w] = n]
  BY LoopFacts DEF BeginRun, MoreWork
<1>1. CASE loop' = [loop EXCEPT ![w] = Returned(l)]
  BY <1>0, <1>1, ReturnedOK, OwnStep DEF LoopOK, Cycling
<1>2. CASE loop' = [loop EXCEPT ![w] = n]
  <2>. HIDE DEF l
  <2>1. /\ n \in Loops /\ LoopOK(n) /\ n.batch = l.batch
        /\ n.cycleLeft = l.cycleLeft /\ n.pc # "acking"
    BY <1>0, RunningOK
  <2>. HIDE DEF n
  <2>2. BatchOK(n, msgs, claims, Promised)
    BY <1>0, <2>1, BatchKept, PromisedFacts DEF Kept, LoopInv, Shape
  <2>. QED  BY <1>0, <1>2, <2>1, <2>2, OwnStep
<1>. QED  BY <1>0, <1>1, <1>2

\* An attempt is over.
LEMMA RunDoneInv ==
  ASSUME LoopInv, NEW w \in Workers, RunDone(w) PROVE LoopInv'
<1>. DEFINE l == loop[w]
            n == [l EXCEPT !.pc = "looping", !.left = 0, !.index = l.index + 1, !.holding = NULL]
<1>0. /\ l \in Loops /\ LoopOK(l) /\ BatchOK(l, msgs, claims, Promised)
      /\ l.pc = "running" /\ UNCHANGED <<due, claims, msgs>>
      /\ loop' = [loop EXCEPT ![w] = n]
  <2>1. l \in Loops /\ LoopOK(l) /\ BatchOK(l, msgs, claims, Promised)
    BY LoopFacts
  <2>2. l.pc = "running" /\ UNCHANGED <<due, claims, msgs>>
    BY DEF RunDone
  <2>3. loop' = [loop EXCEPT ![w] = n]
    BY DEF RunDone
  <2>. QED  BY <2>1, <2>2, <2>3
<1>. HIDE DEF l
<1>1. /\ n \in Loops /\ LoopOK(n) /\ n.batch = l.batch
      /\ n.cycleLeft = l.cycleLeft /\ n.pc # "acking"
  BY <1>0, RunningOK
<1>. HIDE DEF n
<1>2. BatchOK(n, msgs, claims, Promised)
  BY <1>0, <1>1, BatchKept, PromisedFacts DEF Kept, LoopInv, Shape
<1>. QED  BY <1>0, <1>1, <1>2, OwnStep

\* An error of RunOnce keeps the handles from being deleted.
LEMMA RunFailedInv ==
  ASSUME LoopInv, NEW w \in Workers, RunFailed(w) PROVE LoopInv'
<1>1. /\ loop[w] \in Loops /\ LoopOK(loop[w])
      /\ \A n : n.batch = {} => BatchOK(n, msgs, claims, Promised)
      /\ loop[w].pc = "running" /\ UNCHANGED <<due, claims, msgs>>
      /\ loop' = [loop EXCEPT ![w] = Returned(loop[w])]
  BY LoopFacts DEF RunFailed, Failed
<1>. QED  BY <1>1, ReturnedOK, OwnStep DEF LoopOK, Cycling

\* A batch whose loop ended for that reason; an empty table means that no event
\* waits for its claim.
LEMMA EndInv ==
  ASSUME LoopInv, NEW w \in Workers, loop[w].pc \in {"looping", "running"},
         NEW why \in {"full", "empty", "skipped"}, why = "empty" => due = <<>>,
         loop' = [loop EXCEPT ![w] = Finish(loop[w], why)],
         UNCHANGED <<due, claims, msgs>>
  PROVE  LoopInv'
<1>. DEFINE l == loop[w]
            n == Finish(l, why)
<1>0. l \in Loops /\ LoopOK(l) /\ BatchOK(l, msgs, claims, Promised)
  BY LoopFacts
<1>1. /\ n \in Loops /\ LoopOK(n)
      /\ \/ n.batch = {}
         \/ n.batch = l.batch /\ n.cycleLeft = l.cycleLeft /\ n.ended = why
  BY <1>0, FinishOK
<1>2. loop' = [loop EXCEPT ![w] = n]
  OBVIOUS
<1>. HIDE DEF n
<1>3. BatchOK(n, msgs, claims, Promised)
  <2>1. CASE n.batch = {}
    BY <2>1 DEF BatchOK
  <2>2. CASE n.batch = l.batch /\ n.cycleLeft = l.cycleLeft /\ n.ended = why
    <3>. SUFFICES ASSUME NEW x \in l.batch PROVE HandleOK(x, n, msgs, claims, Promised)
      BY <2>2 DEF BatchOK
    <3>1. HandleOK(x, l, msgs, claims, Promised)
      BY <1>0 DEF BatchOK
    <3>2. ASSUME why = "empty" PROVE x.owed <= claims[EventOf[x.hint]]
      <4>1. x.owed <= Promised[EventOf[x.hint]] /\ EventOf[x.hint] \in Events
        BY <3>1, LoopAssumption DEF HandleOK
      <4>2. \A e \in Events : Promised[e] = claims[e]
        BY <3>2, PromisedFacts DEF LoopInv
      <4>. QED  BY <4>1, <4>2
    <3>. QED  BY <2>2, <3>1, <3>2 DEF HandleOK
  <2>. QED  BY <1>1, <2>1, <2>2
<1>. QED  BY <1>1, <1>2, <1>3, OwnStep

\* RunOnce claims the first due event; what was committed stays so.
LEMMA RunClaimInv ==
  ASSUME LoopInv, NEW w \in Workers, RunClaim(w) PROVE LoopInv'
<1>. DEFINE l == loop[w]
<1>0. /\ l \in Loops /\ LoopOK(l) /\ BatchOK(l, msgs, claims, Promised)
      /\ l.pc = "running" /\ UNCHANGED msgs
      /\ due # <<>> /\ due \in Seq(Events) /\ claims \in [Events -> Nat]
  BY LoopFacts DEF RunClaim, LoopInv, Shape
<1>1. PICK e \in Events : e = Head(due)
  BY <1>0
<1>. DEFINE n == [l EXCEPT !.holding = e]
<1>2. /\ loop' = [loop EXCEPT ![w] = n]
      /\ claims' = [claims EXCEPT ![e] = claims[e] + 1] /\ due' = Tail(due)
  BY <1>1 DEF RunClaim, LoopInv, Shape
<1>. HIDE DEF l
<1>3. /\ n \in Loops /\ LoopOK(n) /\ n.batch = l.batch
      /\ n.cycleLeft = l.cycleLeft /\ n.pc # "acking"
  BY <1>0, RunningOK
<1>. HIDE DEF n
<1>4. /\ claims' \in [Events -> Nat] /\ claims'[e] = claims[e] + 1
      /\ \A f \in Events : f # e => claims'[f] = claims[f]
      /\ due' \in Seq(Events)
  BY <1>0, <1>2
<1>5. \A f \in ToSet(due) : f = e \/ f \in ToSet(due')
  <2>. SUFFICES ASSUME NEW f \in ToSet(due), f # e PROVE f \in ToSet(due')
    OBVIOUS
  <2>1. PICK i \in 1..Len(due) : f = due[i]
    BY <1>0 DEF ToSet
  <2>2. i # 1
    BY <1>0, <1>1, <2>1
  <2>3. i - 1 \in 1..Len(due') /\ due'[i - 1] = due[i]
    BY <1>0, <1>2, <2>2
  <2>4. DOMAIN due' = 1..Len(due')
    BY <1>4
  <2>. QED  BY <2>1, <2>3, <2>4 DEF ToSet
<1>6. Grown(claims, claims') /\ Grown(Promised, Promised')
  <2>. SUFFICES ASSUME NEW f \in Events
                PROVE  /\ claims[f] \in Nat /\ claims'[f] \in Nat /\ claims[f] <= claims'[f]
                       /\ Promised[f] \in Nat /\ Promised'[f] \in Nat
                       /\ Promised[f] <= Promised'[f]
    BY DEF Grown
  <2>1. /\ Promised[f] = claims[f] + (IF f \in ToSet(due) THEN 1 ELSE 0)
        /\ Promised'[f] = claims'[f] + (IF f \in ToSet(due') THEN 1 ELSE 0)
    BY DEF Promised, Owed
  <2>2. claims[f] \in Nat /\ claims'[f] \in Nat
    BY <1>0, <1>4
  <2>3. CASE f = e
    BY <1>4, <2>1, <2>2, <2>3
  <2>4. CASE f # e
    BY <1>4, <1>5, <2>1, <2>2, <2>4
  <2>. QED  BY <2>3, <2>4
<1>7. Kept(msgs, msgs')
  BY <1>0 DEF Kept
<1>8. BatchOK(n, msgs', claims', Promised')
  <2>1. PICK ms \in [Hints -> Messages] : ms = msgs /\ ms = msgs'
    BY <1>0 DEF LoopInv, Shape
  <2>2. PICK cl, pr : cl = claims' /\ pr = Promised'
    OBVIOUS
  <2>3. /\ BatchOK(l, ms, claims, Promised) /\ Kept(ms, ms)
        /\ Grown(claims, cl) /\ Grown(Promised, pr)
    BY <1>0, <1>6, <1>7, <2>1, <2>2
  <2>4. BatchOK(n, ms, cl, pr)
    BY <1>0, <1>3, <2>3, BatchKept
  <2>. QED  BY <2>1, <2>2, <2>4
<1>. QED  BY <1>0, <1>2, <1>3, <1>4, <1>6, <1>7, <1>8, MoveInv DEF LoopInv, Shape

\* A message that leaves the queue.
LEMMA GoneFacts ==
  ASSUME NEW m \in Messages, NEW why \in {"deleted", "dead", "lost"}
  PROVE  /\ Gone(m, why) \in Messages /\ Gone(m, why).status = why
         /\ Gone(m, why).receives = m.receives
<1>1. 0 \in 0..Visibility
  BY LoopAssumption
<1>. QED  BY <1>1 DEF Gone, Messages

\* Deleting messages leaves the others as they are.
LEMMA DeleteFacts ==
  ASSUME LoopInv, NEW d, Delete(d)
  PROVE  msgs' \in [Hints -> Messages] /\ Kept(msgs, msgs')
<1>1. msgs \in [Hints -> Messages]
  BY DEF LoopInv, Shape
<1>2. ASSUME NEW h \in Hints
      PROVE  /\ msgs'[h] \in Messages /\ msgs'[h].receives = msgs[h].receives
             /\ \/ msgs'[h] = msgs[h]
                \/ msgs'[h].status = "deleted" /\ msgs[h].status = "queued"
  <2>1. PICK m \in Messages : m = msgs[h]
    BY <1>1
  <2>2. msgs'[h] = m \/ (msgs'[h] = Gone(m, "deleted") /\ m.status = "queued")
    BY <2>1 DEF Delete
  <2>. QED  BY <2>1, <2>2, GoneFacts
<1>3. msgs' \in [Hints -> Messages]
  <2>1. msgs' = [h \in Hints |-> msgs'[h]]
    BY DEF Delete
  <2>. QED  BY <1>2, <2>1
<1>. QED  BY <1>2, <1>3 DEF Kept

\* The batch is acknowledged, in whole or in part.
LEMMA AcknowledgeInv ==
  ASSUME LoopInv, NEW w \in Workers, Acknowledge(w) \/ AcknowledgeFailed(w)
  PROVE  LoopInv'
<1>1. /\ loop[w] \in Loops /\ LoopOK(loop[w])
      /\ loop[w].pc = "acking" /\ UNCHANGED <<due, claims>>
      /\ loop' = [loop EXCEPT ![w] = Returned(loop[w])]
  BY LoopFacts DEF Acknowledge, AcknowledgeFailed
<1>2. PICK d : Delete(d)
  BY DEF Acknowledge, AcknowledgeFailed
<1>3. msgs' \in [Hints -> Messages] /\ Kept(msgs, msgs')
  BY <1>2, DeleteFacts
<1>4. Grown(claims, claims') /\ Grown(Promised, Promised')
  BY <1>1, PromisedSame DEF LoopInv
<1>5. /\ Returned(loop[w]) \in Loops /\ LoopOK(Returned(loop[w]))
      /\ Returned(loop[w]).batch = {}
  BY <1>1, ReturnedOK DEF LoopOK, Cycling
<1>6. BatchOK(Returned(loop[w]), msgs', claims', Promised')
  BY <1>5 DEF BatchOK
<1>. QED  BY <1>1, <1>3, <1>4, <1>5, <1>6, MoveInv DEF LoopInv, Shape

-----------------------------------------------------------------------------
(***************************************************************************)
(* Time, the database and the queue.                                       *)
(***************************************************************************)

\* A message stays hidden as long as the cycle that holds it may last.
LEMMA TickInv == ASSUME LoopInv, Tick PROVE LoopInv'
<1>1. /\ UNCHANGED <<due, claims>>
      /\ msgs \in [Hints -> Messages] /\ loop \in [Workers -> Loops]
      /\ loop' = [w \in Workers |-> Later(loop[w])]
  BY DEF Tick, LoopInv, Shape
<1>2. ASSUME NEW w \in Workers
      PROVE  /\ loop'[w] \in Loops /\ LoopOK(loop'[w]) /\ loop'[w].batch = loop[w].batch
             /\ loop'[w].pc = loop[w].pc /\ loop'[w].ended = loop[w].ended
             /\ loop[w].pc \in {"looping", "running", "acking"} =>
                  loop[w].cycleLeft > 0 /\ loop'[w].cycleLeft = loop[w].cycleLeft - 1
  <2>1. loop[w] \in Loops /\ LoopOK(loop[w]) /\ (loop[w].pc # "stopped" => loop[w].left > 0)
    BY LoopFacts DEF Tick
  <2>2. loop'[w] = Later(loop[w])
    BY <1>1
  <2>. QED  BY <2>1, <2>2, LaterOK
<1>3. ASSUME NEW h \in Hints
      PROVE  /\ msgs'[h] \in Messages /\ msgs'[h].status = msgs[h].status
             /\ msgs'[h].receives = msgs[h].receives
             /\ msgs[h].hidden > 0 => msgs'[h].hidden = msgs[h].hidden - 1
  <2>1. PICK m \in Messages : m = msgs[h]
    BY <1>1
  <2>2. PICK t \in 0..Visibility : t = Less(m.hidden)
    BY Numbers DEF Less, Messages
  <2>3. msgs'[h] = [m EXCEPT !.hidden = t]
    BY <2>1, <2>2 DEF Tick
  <2>4. /\ [m EXCEPT !.hidden = t] \in Messages /\ [m EXCEPT !.hidden = t].hidden = t
        /\ [m EXCEPT !.hidden = t].status = m.status
        /\ [m EXCEPT !.hidden = t].receives = m.receives
    BY DEF Messages
  <2>5. m.hidden > 0 => t = m.hidden - 1
    BY <2>2 DEF Less
  <2>. QED  BY <2>1, <2>3, <2>4, <2>5
<1>4. Shape'
  <2>1. msgs' = [h \in Hints |-> msgs'[h]] /\ loop' = [w \in Workers |-> loop'[w]]
    BY DEF Tick
  <2>2. msgs' \in [Hints -> Messages]
    BY <1>3, <2>1
  <2>3. loop' \in [Workers -> Loops]
    BY <1>2, <2>1
  <2>. QED  BY <1>1, <2>2, <2>3 DEF Shape, LoopInv
<1>5. ASSUME NEW w \in Workers PROVE BatchOK(loop'[w], msgs', claims', Promised')
  <2>. SUFFICES ASSUME NEW x \in loop[w].batch PROVE HandleOK(x, loop'[w], msgs', claims', Promised')
    BY <1>2 DEF BatchOK
  <2>1. HandleOK(x, loop[w], msgs, claims, Promised) /\ LoopOK(loop[w]) /\ loop[w] \in Loops
    BY LoopFacts DEF BatchOK
  <2>2. loop[w].pc \in {"looping", "running", "acking"}
    BY <2>1 DEF LoopOK, PlaceOK, Loops, Places
  <2>3. x.hint \in Hints /\ msgs[x.hint].hidden \in Nat /\ loop[w].cycleLeft \in Nat
    BY <1>1, <2>1, Numbers DEF HandleOK, Messages, Loops
  <2>4. msgs'[x.hint].status = "queued" => msgs'[x.hint].hidden > loop'[w].cycleLeft
    BY <1>2, <1>3, <2>1, <2>2, <2>3 DEF HandleOK
  <2>5. Promised' = Promised
    BY <1>1, PromisedSame DEF LoopInv
  <2>. QED  BY <1>1, <1>2, <1>3, <2>1, <2>3, <2>4, <2>5 DEF HandleOK
<1>. QED  BY <1>2, <1>4, <1>5 DEF LoopInv

\* An event becomes due.
LEMMA DueInv ==
  ASSUME LoopInv, NEW e \in Events, Commit(e) \/ FallDue(e) PROVE LoopInv'
<1>1. due \in Seq(Events) /\ due' = Append(due, e) /\ UNCHANGED <<claims, msgs, loop>>
  BY DEF Commit, FallDue, LoopInv, Shape
<1>2. ToSet(due) \subseteq ToSet(due')
  <2>. SUFFICES ASSUME NEW i \in 1..Len(due)
                PROVE  \E j \in 1..Len(due') : due'[j] = due[i]
    BY <1>1 DEF ToSet
  <2>1. i \in 1..Len(due') /\ due'[i] = due[i]
    BY <1>1
  <2>. QED  BY <2>1
<1>3. Grown(claims, claims) /\ Grown(Promised, Promised')
  <2>1. \A f \in Events : claims[f] \in Nat
    BY DEF LoopInv, Shape
  <2>2. \A f \in Events :
          /\ Promised[f] = claims[f] + (IF f \in ToSet(due) THEN 1 ELSE 0)
          /\ Promised'[f] = claims[f] + (IF f \in ToSet(due') THEN 1 ELSE 0)
    BY <1>1 DEF Promised, Owed
  <2>. QED  BY <1>2, <2>1, <2>2 DEF Grown
<1>4. Shape'
  BY <1>1 DEF LoopInv, Shape
<1>5. \A w \in Workers : BatchOK(loop[w], msgs, claims, Promised')
  <2>. SUFFICES ASSUME NEW w \in Workers PROVE BatchOK(loop[w], msgs, claims, Promised')
    OBVIOUS
  <2>1. loop[w] \in Loops /\ BatchOK(loop[w], msgs, claims, Promised)
        /\ msgs \in [Hints -> Messages]
    BY LoopFacts DEF LoopInv, Shape
  <2>2. Kept(msgs, msgs)
    BY DEF Kept
  <2>. QED  BY <1>3, <2>1, <2>2, BatchKept
<1>. QED  BY <1>1, <1>4, <1>5 DEF LoopInv

\* A message arrives, is redriven or is lost.
LEMMA MessageInv ==
  ASSUME LoopInv, NEW h \in Hints, Publish(h) \/ Redrive(h) \/ Lose(h) PROVE LoopInv'
<1>0. msgs \in [Hints -> Messages] /\ UNCHANGED <<due, claims, loop>>
  BY DEF Publish, Redrive, Lose, LoopInv, Shape
<1>1. PICK m \in Messages :
        /\ msgs' = [msgs EXCEPT ![h] = m] /\ m.receives = msgs[h].receives
        /\ \/ msgs[h].status = "unsent" /\ m.status = "queued" /\ m.hidden = msgs[h].hidden
           \/ m.status = "dead" /\ msgs[h].status = "queued" /\ msgs[h].hidden = 0
           \/ m.status = "lost" /\ msgs[h].status = "queued"
  <2>0. PICK o \in Messages : o = msgs[h]
    BY <1>0
  <2>1. CASE Publish(h)
    <3>1. /\ [o EXCEPT !.status = "queued"] \in Messages
          /\ [o EXCEPT !.status = "queued"].receives = o.receives
          /\ [o EXCEPT !.status = "queued"].hidden = o.hidden
          /\ [o EXCEPT !.status = "queued"].status = "queued"
      BY DEF Messages
    <3>2. PICK m \in Messages : /\ m = [o EXCEPT !.status = "queued"]
                                /\ m.receives = o.receives /\ m.hidden = o.hidden
                                /\ m.status = "queued"
      BY <3>1
    <3>3. msgs' = [msgs EXCEPT ![h] = m] /\ msgs[h].status = "unsent"
      BY <2>0, <2>1, <3>2 DEF Publish
    <3>. QED  BY <2>0, <3>2, <3>3
  <2>2. CASE Redrive(h)
    <3>1. PICK m \in Messages : m = Gone(o, "dead") /\ m.status = "dead"
                                /\ m.receives = o.receives
      BY GoneFacts
    <3>2. msgs' = [msgs EXCEPT ![h] = m] /\ msgs[h].status = "queued" /\ msgs[h].hidden = 0
      BY <2>0, <2>2, <3>1 DEF Redrive, Visible
    <3>. QED  BY <2>0, <3>1, <3>2
  <2>3. CASE Lose(h)
    <3>1. PICK m \in Messages : m = Gone(o, "lost") /\ m.status = "lost"
                                /\ m.receives = o.receives
      BY GoneFacts
    <3>2. msgs' = [msgs EXCEPT ![h] = m] /\ msgs[h].status = "queued"
      BY <2>0, <2>3, <3>1 DEF Lose
    <3>. QED  BY <2>0, <3>1, <3>2
  <2>. QED  BY <2>1, <2>2, <2>3
<1>2. msgs' \in [Hints -> Messages] /\ \A g \in Hints : g # h => msgs'[g] = msgs[g]
  BY <1>0, <1>1
<1>3. msgs'[h] = m
  BY <1>0, <1>1
<1>4. \A w \in Workers : BatchOK(loop[w], msgs', claims', Promised')
  <2>. SUFFICES ASSUME NEW w \in Workers, NEW x \in loop[w].batch
                PROVE  HandleOK(x, loop[w], msgs', claims', Promised')
    BY DEF BatchOK
  <2>1. /\ loop[w] \in Loops /\ HandleOK(x, loop[w], msgs, claims, Promised)
        /\ loop[w].cycleLeft \in Nat
    BY LoopFacts, Numbers DEF BatchOK, Loops
  <2>2. claims' = claims /\ Promised' = Promised
    BY <1>0, PromisedSame DEF LoopInv
  <2>3. CASE x.hint # h
    BY <1>2, <2>1, <2>2, <2>3 DEF HandleOK
  <2>4. CASE x.hint = h
    <3>1. m.status = "lost"
      BY <1>1, <2>1, <2>4 DEF HandleOK
    <3>. QED  BY <1>1, <1>3, <2>1, <2>2, <2>4, <3>1 DEF HandleOK
  <2>. QED  BY <2>3, <2>4
<1>. QED  BY <1>0, <1>2, <1>4 DEF LoopInv, Shape

-----------------------------------------------------------------------------
(***************************************************************************)
(* The theorems.                                                           *)
(***************************************************************************)

\* Nothing is due and nothing is queued.
LEMMA LoopInvInit == Init => LoopInv
<1>. SUFFICES ASSUME Init PROVE LoopInv
  OBVIOUS
<1>1. \A w \in Workers : loop[w] = Started
  BY DEF Init
<1>2. loop \in [Workers -> Loops]
  BY StartedOK DEF Init
<1>3. /\ msgs \in [Hints -> Messages] /\ \A h \in Hints : msgs[h].status = "unsent"
      /\ due \in Seq(Events) /\ claims \in [Events -> Nat]
  BY LoopAssumption DEF Init, Messages
<1>4. \A w \in Workers : LoopOK(loop[w]) /\ BatchOK(loop[w], msgs, claims, Promised)
  BY <1>1, StartedOK DEF BatchOK
<1>. QED  BY <1>2, <1>3, <1>4 DEF LoopInv, Shape

\* Every step preserves the invariant.
LEMMA LoopInvStep == LoopInv /\ [Next]_vars => LoopInv'
<1>. SUFFICES ASSUME LoopInv, [Next]_vars PROVE LoopInv'
  OBVIOUS
<1>1. ASSUME NEW w \in Workers, Step(w) PROVE LoopInv'
  <2>1. CASE EndLoop(w)
    BY <2>1, EndInv DEF EndLoop
  <2>2. CASE RunEmpty(w)
    <3>1. PICK why \in {"empty", "skipped"} :
            /\ why = "empty" => due = <<>>
            /\ loop' = [loop EXCEPT ![w] = Finish(loop[w], why)]
      BY <2>2 DEF RunEmpty
    <3>. QED  BY <2>2, <3>1, EndInv DEF RunEmpty
  <2>. QED  BY <1>1, <2>1, <2>2, WakeInv, CleanupDoneInv, ReceiveInv, ReceiveFailedInv,
               BeginRunInv, RunClaimInv, RunDoneInv, RunFailedInv, AcknowledgeInv
            DEF Step
<1>2. CASE UNCHANGED vars
  <2>1. Promised' = Promised
    BY <1>2, PromisedSame DEF vars, LoopInv
  <2>. QED  BY <1>2, <2>1 DEF vars, LoopInv, Shape
<1>. QED  BY <1>1, <1>2, TickInv, DueInv, MessageInv, StopStartInv DEF Next

\* LoopInv holds in every reachable state of the workers and the queue.
THEOREM LoopInvHolds == Spec => []LoopInv
BY LoopInvInit, LoopInvStep, PTL DEF Spec

\* When Acknowledge is called, the handles of the batch are the latest of their
\* messages, and no other worker can have received them.
THEOREM HandlesStayCurrent == Spec => []HandlesCurrent
<1>1. LoopInv => HandlesCurrent
  <2>. SUFFICES ASSUME LoopInv, NEW w \in Workers, loop[w].pc = "acking",
                       NEW x \in loop[w].batch
                PROVE  /\ msgs[x.hint].receives = x.receive
                       /\ ~Visible(x.hint)
                       /\ msgs[x.hint].status # "dead"
    BY DEF HandlesCurrent
  <2>1. HandleOK(x, loop[w], msgs, claims, Promised) /\ loop[w] \in Loops
    BY LoopFacts DEF BatchOK
  <2>2. msgs[x.hint].hidden \in Nat /\ loop[w].cycleLeft \in Nat
    BY <2>1, Numbers DEF HandleOK, Messages, Loops, LoopInv, Shape
  <2>. QED  BY <2>1, <2>2 DEF HandleOK, Visible
<1>. QED  BY <1>1, LoopInvHolds, PTL

\* The context of a cycle leaves every RunOnce its full time and Acknowledge too.
THEOREM CyclesFit == Spec => []CycleFits
<1>1. LoopInv => CycleFits
  <2>. SUFFICES ASSUME LoopInv, NEW w \in Workers
                PROVE  /\ loop[w].pc = "running" => loop[w].left + AckTimeout <= loop[w].cycleLeft
                       /\ loop[w].pc = "looping" => AckTimeout <= loop[w].cycleLeft
    BY DEF CycleFits
  <2>1. /\ TimeOK(loop[w]) /\ loop[w].left \in Nat /\ loop[w].cycleLeft \in Nat
        /\ loop[w].index \in 0..BatchSize
    BY LoopFacts, Numbers DEF LoopOK, Loops
  <2>2. CASE loop[w].pc = "running"
    <3>1. loop[w].index + 1 \in 0..BatchSize
      BY <2>1, <2>2, Numbers DEF TimeOK
    <3>2. Rest(loop[w].index + 1) \in Nat
      BY <3>1, RestFacts
    <3>. QED  BY <2>1, <2>2, <3>2, Numbers DEF TimeOK
  <2>3. CASE loop[w].pc = "looping"
    <3>1. Rest(loop[w].index) \in Nat
      BY <2>1, RestFacts
    <3>. QED  BY <2>1, <2>3, <3>1, Numbers DEF TimeOK
  <2>. QED  BY <2>2, <2>3
<1>. QED  BY <1>1, LoopInvHolds, PTL

\* Cleanup is never overdue by more than one cycle and one poll.
THEOREM CleanupsPunctual == Spec => []CleanupPunctual
<1>1. LoopInv => CleanupPunctual
  <2>. SUFFICES ASSUME LoopInv, NEW w \in Workers, loop[w].pc # "stopped"
                PROVE  -loop[w].nextCleanup <= CycleTimeout + PollInterval
    BY DEF CleanupPunctual
  <2>1. /\ CleanupOK(loop[w]) /\ loop[w].left \in Nat /\ loop[w].cycleLeft \in Nat
        /\ loop[w].nextCleanup \in Int /\ loop[w].pc \in Places
    BY LoopFacts, Numbers DEF LoopOK, Loops
  <2>. QED  BY <2>1, Numbers DEF CleanupOK, Cycling, Places
<1>. QED  BY <1>1, LoopInvHolds, PTL

\* Only Acknowledge deletes, and only hints of its batch: an event that was due
\* when its hint was received has been claimed since, unless the loop ended for
\* another reason.
THEOREM DeletedConsidered == Spec => DeletedIsConsidered
<1>. DEFINE D == \A h \in Hints :
                   msgs[h].status = "queued" /\ msgs'[h].status = "deleted" =>
                     \E w \in Workers :
                       /\ loop[w].pc = "acking" /\ h \notin Poison
                       /\ \E x \in loop[w].batch :
                            /\ x.hint = h
                            /\ \/ x.owed <= claims[EventOf[h]]
                               \/ loop[w].ended \in {"full", "skipped"}
<1>1. LoopInv /\ [Next]_vars => [D]_vars
  <2>. SUFFICES ASSUME LoopInv, Next, NEW h \in Hints,
                       msgs[h].status = "queued", msgs'[h].status = "deleted"
                PROVE  \E w \in Workers :
                         /\ loop[w].pc = "acking" /\ h \notin Poison
                         /\ \E x \in loop[w].batch :
                              /\ x.hint = h
                              /\ \/ x.owed <= claims[EventOf[h]]
                                 \/ loop[w].ended \in {"full", "skipped"}
    OBVIOUS
  <2>1. msgs \in [Hints -> Messages] /\ msgs'[h] # msgs[h]
    BY DEF LoopInv, Shape
  <2>2. ~Tick
    BY <2>1 DEF Tick, Messages
  <2>3. \A g \in Hints : ~(Publish(g) \/ Redrive(g) \/ Lose(g))
    <3>. SUFFICES ASSUME NEW g \in Hints, Publish(g) \/ Redrive(g) \/ Lose(g) PROVE FALSE
      OBVIOUS
    <3>1. PICK o \in Messages : o = msgs[g]
      BY <2>1
    <3>2. \/ msgs'[g].status = "queued" \/ msgs'[g].status = "dead"
          \/ msgs'[g].status = "lost"
      <4>1. Gone(o, "dead").status = "dead" /\ Gone(o, "lost").status = "lost"
        BY GoneFacts
      <4>2. CASE Publish(g)
        BY <2>1, <4>2 DEF Publish, Messages
      <4>3. CASE Redrive(g)
        BY <2>1, <3>1, <4>1, <4>3 DEF Redrive
      <4>4. CASE Lose(g)
        BY <2>1, <3>1, <4>1, <4>4 DEF Lose
      <4>. QED  BY <4>2, <4>3, <4>4
    <3>3. g # h => msgs'[h] = msgs[h]
      <4>1. \E m : msgs' = [msgs EXCEPT ![g] = m]
        BY DEF Publish, Redrive, Lose
      <4>. QED  BY <2>1, <4>1
    <3>. QED  BY <2>1, <3>2, <3>3
  <2>4. \A w \in Workers : ~Receive(w) /\ ~ReceiveFailed(w)
    <3>1. \A s \in Receivable : ~Hide(s)
      BY HideFacts
    <3>. QED  BY <3>1 DEF Receive, ReceiveFailed
  <2>5. PICK w \in Workers : Acknowledge(w) \/ AcknowledgeFailed(w)
    BY <2>1, <2>2, <2>3, <2>4
       DEF Next, Step, Commit, FallDue, Stop, Start, Wake, CleanupDone, BeginRun, EndLoop,
           RunClaim, RunEmpty, RunDone, RunFailed
  <2>6. loop[w].pc = "acking" /\ \E d \in SUBSET loop[w].batch : Delete(d)
    BY <2>5 DEF Acknowledge, AcknowledgeFailed
  <2>7. PICK x \in loop[w].batch : x.hint = h
    BY <2>1, <2>6 DEF Delete
  <2>8. HandleOK(x, loop[w], msgs, claims, Promised) /\ loop[w].ended \in {"full", "empty", "skipped"}
    BY <2>6, LoopFacts DEF BatchOK, LoopOK, PlaceOK
  <2>. QED  BY <2>6, <2>7, <2>8 DEF HandleOK
<1>. QED  BY <1>1, LoopInvHolds, PTL DEF Spec, DeletedIsConsidered
=============================================================================
