-------------------------- MODULE Deployment_proofs --------------------------
(***************************************************************************)
(* Proofs about Deployment, for any number of services and migration runs, *)
(* images of any age and any number of crashes and failures: the rotation  *)
(* of the gateway's identity never interrupts trust, and every migration   *)
(* is applied once and in order.                                           *)
(***************************************************************************)
EXTENDS Deployment, TLAPS

-----------------------------------------------------------------------------
(***************************************************************************)
(* The rotation.                                                           *)
(***************************************************************************)
Old == <<"old">>
Both == <<"old", "new">>
New == <<"new">>

Before == {"overlap", "restart"}
After == {"switch", "retire", "drop", "done"}

RotationShape ==
  /\ clock \in Nat /\ clock <= Horizon
  /\ secret \in [Scopes -> {Old, Both, New}]
  /\ service \in [Services -> Processes]
  /\ gateway \in Gateways
  /\ phase \in Before \cup After

\* The old certificate is not expired on any clock while it may be in use.
ClockOK == phase # "done" => \A d \in Offsets : clock + d < NotAfter["old"]

\* The new certificate is valid on every clock once it is in one of the secrets.
IssuedOK ==
  (phase # "overlap" \/ \E s \in Scopes : secret[s] # Old) =>
    \A d \in Offsets : NotBefore["new"] <= clock + d

\* What the secrets hold in each phase.
SecretsOK ==
  \A s \in Scopes :
    /\ phase = "overlap" => secret[s] \in {Old, Both}
    /\ phase \in {"restart", "switch"} => secret[s] = Both
    /\ phase = "retire" => secret[s] \in {Both, New}
    /\ phase \in {"drop", "done"} => secret[s] = New

\* The identity in use, and that every process trusts it.
IdentityOK ==
  /\ phase \in Before =>
       /\ identity = "old" /\ gateway.cert = "old"
       /\ \A c \in Services : service[c].pc # "down" => "old" \in service[c].roots
  /\ phase \in After =>
       /\ identity = "new" /\ (gateway.pc # "down" => gateway.cert = "new")
       /\ \A c \in Services : service[c].pc # "down" => "new" \in service[c].roots

RotationInv == RotationShape /\ ClockOK /\ IssuedOK /\ SecretsOK /\ IdentityOK

\* On every clock the old certificate is valid until the end, and the new one is
\* from the moment it is in a secret.
LEMMA Validity ==
  ASSUME RotationInv, NEW d \in Offsets
  PROVE  /\ clock + d \in Int
         /\ phase # "done" => Valid("old", clock + d)
         /\ (phase # "overlap" \/ \E s \in Scopes : secret[s] # Old) => Valid("new", clock + d)
<1>1. /\ d \in Int /\ clock \in Nat /\ Horizon \in Nat /\ clock <= Horizon
      /\ \A cert \in Certs : NotBefore[cert] \in Int /\ NotAfter[cert] \in Int
  BY RotationAssumption DEF RotationInv, RotationShape, Identities
<1>2. NotBefore["old"] <= d /\ Horizon + d < NotAfter["new"]
  BY OverlapAssumption DEF Valid
<1>3. NotBefore["old"] <= clock + d /\ clock + d < NotAfter["new"]
  BY <1>1, <1>2 DEF Certs
<1>. QED  BY <1>1, <1>3 DEF RotationInv, ClockOK, IssuedOK, Valid

\* A certificate that would be accepted at start-up is accepted by a client.
LEMMA ValidVerifies ==
  ASSUME NEW cert \in Certs, NEW t \in Int, Valid(cert, t)
  PROVE  t \in NotBefore[cert]..NotAfter[cert]
<1>1. NotBefore[cert] \in Int /\ NotAfter[cert] \in Int
  BY RotationAssumption DEF Identities
<1>. QED  BY <1>1 DEF Valid

\* What the secrets hold is accepted, and is the pool of whoever starts.
LEMMA PoolFacts ==
  ASSUME RotationInv, NEW s \in Scopes, NEW d \in Offsets
  PROVE  /\ phase \in Before => "old" \in databaseCARoots(secret[s], clock + d)
         /\ phase \in After => "new" \in databaseCARoots(secret[s], clock + d)
         /\ databaseCARoots(secret[s], clock + d) \subseteq Certs
<1>0. MaxAnchors \in Nat /\ MaxAnchors >= 2
  BY RotationAssumption, OverlapAssumption
<1>1. ToSet(Old) = {"old"} /\ ToSet(Both) = {"old", "new"} /\ ToSet(New) = {"new"}
  BY DEF Old, Both, New, ToSet
<1>2. Len(Old) \in 1..MaxAnchors /\ Len(Both) \in 1..MaxAnchors /\ Len(New) \in 1..MaxAnchors
  BY <1>0 DEF Old, Both, New
<1>3. PICK t : t = clock + d
  OBVIOUS
<1>a. Old # Both /\ Old # New
  BY DEF Old, Both, New
<1>b. /\ phase # "done" => Valid("old", t)
      /\ (phase # "overlap" \/ secret[s] # Old) => Valid("new", t)
  BY <1>3, Validity
<1>c. /\ Valid("old", t) => databaseCARoots(Old, t) = {"old"}
      /\ Valid("old", t) /\ Valid("new", t) => databaseCARoots(Both, t) = {"old", "new"}
      /\ Valid("new", t) => databaseCARoots(New, t) = {"new"}
  BY <1>1, <1>2 DEF databaseCARoots, Acceptable
<1>4. /\ phase = "overlap" => secret[s] \in {Old, Both}
      /\ phase \in {"restart", "switch"} => secret[s] = Both
      /\ phase = "retire" => secret[s] \in {Both, New}
      /\ phase \in {"drop", "done"} => secret[s] = New
      /\ phase \in Before \cup After
  BY DEF RotationInv, RotationShape, SecretsOK
<1>. QED  BY <1>3, <1>4, <1>a, <1>b, <1>c DEF Before, After, Certs

\* The old identity is in use everywhere.
LEMMA RotationInvInit == RotationInit => RotationInv
<1>. SUFFICES ASSUME RotationInit PROVE RotationInv
  OBVIOUS
<1>1. RotationShape /\ SecretsOK /\ IdentityOK /\ IssuedOK
  BY RotationAssumption
     DEF RotationInit, RotationShape, SecretsOK, IdentityOK, IssuedOK, Before, After,
         Old, Both, New, Processes, Gateways, Certs
<1>2. ClockOK
  BY RotationAssumption, OverlapAssumption DEF RotationInit, ClockOK, Valid
<1>. QED  BY <1>1, <1>2 DEF RotationInv

\* The processes start, open, crash and are launched.
LEMMA ProcessStep ==
  ASSUME RotationInv,
         \/ \E c \in Services : Start(c) \/ Open(c)
         \/ Validate \/ Exec \/ Crash
  PROVE  RotationInv'
<1>0. UNCHANGED <<clock, secret, identity, phase>>
  BY DEF Start, Open, Validate, Exec, Crash
<1>1. ASSUME service' \in [Services -> Processes], gateway' \in Gateways, IdentityOK'
      PROVE  RotationInv'
  BY <1>0, <1>1 DEF RotationInv, RotationShape, ClockOK, IssuedOK, SecretsOK
<1>. USE DEF RotationInv, RotationShape
<1>2. ASSUME NEW c \in Services, Start(c) PROVE RotationInv'
  <2>0. PICK d \in Offsets :
          service' = [service EXCEPT ![c] =
            [pc |-> "opening", roots |-> databaseCARoots(secret["runtime"], clock + d)]]
    BY <1>2 DEF Start
  <2>1. PICK roots : roots = databaseCARoots(secret["runtime"], clock + d)
    OBVIOUS
  <2>2. /\ phase \in Before => "old" \in roots
        /\ phase \in After => "new" \in roots
        /\ roots \subseteq Certs
    BY <2>1, PoolFacts DEF Scopes
  <2>3. service' = [service EXCEPT ![c] = [pc |-> "opening", roots |-> roots]]
        /\ UNCHANGED gateway
    BY <1>2, <2>0, <2>1 DEF Start
  <2>4. service' \in [Services -> Processes]
    BY <2>2, <2>3 DEF Processes
  <2>5. IdentityOK'
    BY <1>0, <2>2, <2>3 DEF IdentityOK
  <2>. QED  BY <1>1, <2>3, <2>4, <2>5
<1>3. ASSUME NEW c \in Services, Open(c) PROVE RotationInv'
  <2>1. service' = [service EXCEPT ![c].pc = "running"] /\ UNCHANGED gateway
        /\ service[c].pc = "opening"
    BY <1>3 DEF Open
  <2>2. service' \in [Services -> Processes]
    BY <2>1 DEF Processes
  <2>3. IdentityOK'
    BY <1>0, <2>1 DEF IdentityOK, Processes
  <2>. QED  BY <1>1, <2>1, <2>2, <2>3
<1>4. CASE Validate
  <2>1. gateway' = [pc |-> "validated", cert |-> identity] /\ UNCHANGED service
        /\ identity \in Certs
    BY <1>4 DEF Validate, IdentityOK, Certs
  <2>. QED  BY <1>0, <1>1, <2>1 DEF Gateways, IdentityOK, Before, After
<1>5. CASE Exec
  <2>1. gateway' = [gateway EXCEPT !.pc = "running"] /\ UNCHANGED service
        /\ gateway.pc = "validated"
    BY <1>5 DEF Exec
  <2>. QED  BY <1>0, <1>1, <2>1 DEF Gateways, IdentityOK
<1>6. CASE Crash
  <2>1. CASE gateway' = Down /\ UNCHANGED service
    BY <1>0, <1>1, <2>1 DEF Gateways, IdentityOK, Down
  <2>2. CASE \E c \in Services : service' = [service EXCEPT ![c] = Stopped]
    <3>1. PICK c \in Services : service' = [service EXCEPT ![c] = Stopped]
      BY <2>2
    <3>2. CASE UNCHANGED gateway
      BY <1>0, <1>1, <3>1, <3>2 DEF Processes, IdentityOK, Stopped
    <3>. QED  BY <1>6, <2>1, <3>2 DEF Crash
  <2>. QED  BY <1>6, <2>1, <2>2 DEF Crash
<1>. QED  BY <1>2, <1>3, <1>4, <1>5, <1>6

\* The operator never takes an anchor away that something still needs.
LEMMA RotateStep == ASSUME RotationInv, Rotate PROVE RotationInv'
<1>. USE DEF RotationInv, RotationShape
<1>0. UNCHANGED clock
  BY DEF Rotate, Distribute, Overlapped, Restart, Replace, Switched, Retired, Finish
<1>1. ASSUME NEW in, NEW bundle, Distribute(in, bundle),
             (in = "overlap" /\ bundle = Both) \/ (in = "retire" /\ bundle = New)
      PROVE  RotationInv'
  <2>1. PICK s \in Scopes : secret' = [secret EXCEPT ![s] = bundle]
    BY <1>1 DEF Distribute
  <2>2. UNCHANGED <<clock, identity, service, gateway, phase>> /\ phase = in
    BY <1>1 DEF Distribute
  <2>3. \A d \in Offsets : NotBefore["new"] <= clock + d
    <3>1. "new" \in ToSet(bundle)
      BY <1>1 DEF Both, New, ToSet
    <3>. QED  BY <1>1, <3>1 DEF Distribute, Valid
  <2>. QED  BY <1>1, <2>1, <2>2, <2>3 DEF ClockOK, IssuedOK, SecretsOK, IdentityOK
<1>2. ASSUME NEW in, NEW fit, Restart(in, fit) PROVE RotationInv'
  <2>1. PICK c \in Services : service' = [service EXCEPT ![c] = Stopped]
    BY <1>2 DEF Restart
  <2>2. UNCHANGED <<clock, secret, identity, gateway, phase>>
    BY <1>2 DEF Restart
  <2>. QED  BY <2>1, <2>2 DEF ClockOK, IssuedOK, SecretsOK, IdentityOK, Stopped, Processes
<1>3. CASE Overlapped
  <2>1. PICK s \in Scopes : secret[s] # Old
    BY <1>3 DEF Overlapped, Scopes, Old
  <2>. QED
    BY <1>3, <2>1
       DEF Overlapped, Proceed, ClockOK, IssuedOK, SecretsOK, IdentityOK, Before, After, Both
<1>4. CASE Replace
  <2>1. \A c \in Services : service[c].pc = "running" /\ "new" \in service[c].roots
    BY <1>4 DEF Replace, Verified, TrustsNew
  <2>2. /\ phase = "restart" /\ phase' = "switch" /\ identity' = "new" /\ gateway' = Down
        /\ UNCHANGED <<clock, secret, service>>
    BY <1>4 DEF Replace, Proceed
  <2>3. gateway' \in Gateways /\ gateway'.pc = "down"
    BY <2>2 DEF Down, Gateways
  <2>. QED  BY <2>1, <2>2, <2>3 DEF ClockOK, IssuedOK, SecretsOK, IdentityOK, Before, After
<1>5. CASE Switched
  BY <1>5 DEF Switched, Proceed, ClockOK, IssuedOK, SecretsOK, IdentityOK, Before, After
<1>6. CASE Retired
  BY <1>6 DEF Retired, Proceed, ClockOK, IssuedOK, SecretsOK, IdentityOK, Before, After, New
<1>7. CASE Finish
  BY <1>7 DEF Finish, Proceed, ClockOK, IssuedOK, SecretsOK, IdentityOK, Before, After
<1>. QED  BY <1>1, <1>2, <1>3, <1>4, <1>5, <1>6, <1>7 DEF Rotate, Both, New

\* The rotation is completed before the old certificate expires.
LEMMA RotationTickStep == ASSUME RotationInv, RotationTick PROVE RotationInv'
<1>. USE DEF RotationTick, RotationInv, RotationShape
<1>1. clock' = clock + 1 /\ UNCHANGED <<secret, identity, service, gateway, phase>>
  OBVIOUS
<1>2. RotationShape' /\ SecretsOK' /\ IdentityOK'
  BY <1>1, RotationAssumption DEF SecretsOK, IdentityOK
<1>3. \A d \in Offsets : clock' + d = clock + 1 + d /\ clock + d <= clock' + d
  BY <1>1, RotationAssumption
<1>4. ClockOK'
  BY <1>1, <1>3 DEF ClockOK
<1>5. IssuedOK'
  <2>1. \A d \in Offsets : d \in Int /\ NotBefore["new"] \in Int
    BY RotationAssumption DEF Identities, Certs
  <2>. QED  BY <1>1, <2>1 DEF IssuedOK
<1>. QED  BY <1>2, <1>4, <1>5

\* Every step preserves the invariant of the rotation.
LEMMA RotationInvStep == RotationInv /\ [Next]_vars => RotationInv'
<1>. SUFFICES ASSUME RotationInv, [Next]_vars PROVE RotationInv'
  OBVIOUS
<1>1. CASE UNCHANGED rotationVars
  BY <1>1
     DEF rotationVars, RotationInv, RotationShape, ClockOK, IssuedOK, SecretsOK, IdentityOK
<1>2. ASSUME NEW m \in Migrators, Migrate(m) \/ Abort(m) PROVE UNCHANGED rotationVars
  BY <1>2 DEF Migrate, LoadTrust, Connect, Execute, Lose, Again, Abort
<1>3. CASE \E c \in Services : Boot(c)
  BY <1>3, ProcessStep DEF Boot
<1>4. CASE Operate
  BY <1>4, RotateStep DEF Operate
<1>5. CASE Break \/ Launch
  BY <1>5, ProcessStep DEF Break, Launch
<1>6. CASE Pass
  BY <1>6, RotationTickStep DEF Pass
<1>7. CASE Ended \/ UNCHANGED vars
  BY <1>1, <1>7 DEF Ended, vars
<1>. QED  BY <1>1, <1>2, <1>3, <1>4, <1>5, <1>6, <1>7 DEF Next

\* RotationInv holds in every reachable state of a deployment.
THEOREM RotationInvHolds == Spec => []RotationInv
<1>1. Init => RotationInv
  BY RotationInvInit DEF Init
<1>. QED  BY <1>1, RotationInvStep, PTL DEF Spec

\* The certificate of a running gateway is verified by every clock.
LEMMA GatewayFacts ==
  ASSUME RotationInv, gateway.pc = "running", NEW d \in Offsets
  PROVE  /\ phase \in Before => gateway.cert = "old"
         /\ phase \in After => gateway.cert = "new"
         /\ clock + d \in NotBefore[gateway.cert]..NotAfter[gateway.cert]
<1>1. /\ phase \in Before => gateway.cert = "old"
      /\ phase \in After => gateway.cert = "new"
      /\ phase \in Before \cup After
  BY DEF RotationInv, RotationShape, IdentityOK
<1>2. Valid(gateway.cert, clock + d) /\ clock + d \in Int
  BY <1>1, Validity DEF Before, After
<1>3. gateway.cert \in Certs
  BY <1>1 DEF Certs
<1>. QED  BY <1>1, <1>2, <1>3, ValidVerifies

\* Whatever crashes in whichever step of the rotation, a running service can
\* open connections to a running gateway, by its own clock.
THEOREM TrustUninterrupted == Spec => []NoTrustOutage
<1>1. RotationInv => NoTrustOutage
  <2>. SUFFICES ASSUME RotationInv, gateway.pc = "running",
                       NEW c \in Services, NEW d \in Offsets, service[c].pc = "running"
                PROVE  Handshake(service[c].roots, d)
    BY DEF NoTrustOutage
  <2>1. gateway.cert \in service[c].roots
    BY GatewayFacts DEF RotationInv, RotationShape, IdentityOK
  <2>. QED  BY <2>1, GatewayFacts DEF Handshake
<1>. QED  BY <1>1, RotationInvHolds, PTL

\* What the secrets hold is accepted by databaseCARoots at every moment, each
\* anchor being neither future nor expired on the clock of the process that
\* starts, and whoever starts with it trusts the running gateway.
THEOREM RestartsTrusted == Spec => []RestartTrusts
<1>1. RotationInv => RestartTrusts
  <2>. SUFFICES ASSUME RotationInv, NEW s \in Scopes, NEW d \in Offsets
                PROVE  /\ databaseCARoots(secret[s], clock + d) # {}
                       /\ gateway.pc = "running" =>
                            Handshake(databaseCARoots(secret[s], clock + d), d)
    BY DEF RestartTrusts
  <2>1. PICK roots : roots = databaseCARoots(secret[s], clock + d)
    OBVIOUS
  <2>2. /\ phase \in Before => "old" \in roots
        /\ phase \in After => "new" \in roots
        /\ phase \in Before \cup After
    BY <2>1, PoolFacts DEF RotationInv, RotationShape
  <2>3. ASSUME gateway.pc = "running" PROVE Handshake(roots, d)
    BY <2>2, <2>3, GatewayFacts DEF Handshake
  <2>. QED  BY <2>1, <2>2, <2>3
<1>. QED  BY <1>1, RotationInvHolds, PTL

-----------------------------------------------------------------------------
(***************************************************************************)
(* The migrations.                                                         *)
(***************************************************************************)
Holding == {"locked", "applying"}

RunStates ==
  [pc : {"begin", "locked", "applying", "ok", "failed", "refused"},
   version : Nat, done : Seq(Nat)]

MigrationShape ==
  /\ schema \in Seq(Nat)
  /\ run \in [Migrators -> RunStates]

Sizes == {0} \cup {Files[m] : m \in Migrators}

SchemaOK ==
  /\ \A i \in 1..Len(schema) : schema[i] = i
  /\ Len(schema) \in Sizes

\* The advisory lock is held by the run that is past it, and by no other.
LockOK == \A m \in Migrators : run[m].pc \in Holding <=> lock = m

\* Under the lock: what was read is still the schema's version, and the files
\* executed since follow it.  Before that nothing is executed.
RunOK(m) ==
  IF run[m].pc = "applying"
  THEN /\ run[m].version = Len(schema)
       /\ \A i \in 1..Len(run[m].done) : run[m].done[i] = run[m].version + i
       /\ run[m].version + Len(run[m].done) <= Files[m]
  ELSE run[m].done = <<>>

MigrationInv ==
  MigrationShape /\ SchemaOK /\ LockOK /\ \A m \in Migrators : RunOK(m)

\* The version of a schema whose files were applied in order is their number.
LEMMA VersionIs ==
  ASSUME NEW s \in Seq(Nat), \A i \in 1..Len(s) : s[i] = i
  PROVE  (IF s = <<>> THEN 0 ELSE Max(ToSet(s))) = Len(s)
<1>1. CASE s = <<>>
  BY <1>1
<1>2. CASE s # <<>>
  <2>1. PICK n \in Nat : n = Len(s)
    OBVIOUS
  <2>2. n >= 1
    BY <1>2, <2>1
  <2>3. ToSet(s) = 1..n
    BY <2>1 DEF ToSet
  <2>4. n \in 1..n /\ \A y \in 1..n : n >= y
    BY <2>1, <2>2
  <2>5. Max(1..n) \in 1..n /\ \A y \in 1..n : Max(1..n) >= y
    BY <2>4, Zenon DEF Max
  <2>6. Max(1..n) = n
    BY <2>4, <2>5
  <2>. QED  BY <1>2, <2>1, <2>3, <2>6
<1>. QED  BY <1>1, <1>2

\* A run that has ended, or begins anew.
LEMMA FreshFacts ==
  \A pc \in {"begin", "ok", "failed", "refused"} :
    /\ [Fresh EXCEPT !.pc = pc] \in RunStates
    /\ [Fresh EXCEPT !.pc = pc].pc = pc /\ [Fresh EXCEPT !.pc = pc].done = <<>>
    /\ Fresh \in RunStates /\ Fresh.pc = "begin" /\ Fresh.done = <<>>
<1>1. Fresh \in RunStates /\ Fresh.pc = "begin" /\ Fresh.done = <<>>
  BY DEF Fresh, RunStates
<1>2. \A f \in RunStates : \A pc \in {"begin", "ok", "failed", "refused"} :
        /\ [f EXCEPT !.pc = pc] \in RunStates /\ [f EXCEPT !.pc = pc].pc = pc
        /\ [f EXCEPT !.pc = pc].done = f.done
  BY DEF RunStates
<1>. QED  BY <1>1, <1>2

\* Nothing lies between a number and the next.
LEMMA LastOne ==
  ASSUME NEW v \in Nat, NEW n \in Nat, NEW k \in Nat, v + n <= k, ~(v + n + 1 <= k)
  PROVE  v + n = k
OBVIOUS

\* A transaction that has executed all files of its image commits the schema of
\* that image.
LEMMA CommitFacts ==
  ASSUME MigrationInv, NEW m \in Migrators, run[m].pc = "applying", ~Pending(m),
         schema' = schema \o run[m].done
  PROVE  /\ schema' \in Seq(Nat) /\ SchemaOK' /\ Len(schema') = Files[m]
<1>1. PICK d \in Seq(Nat), v \in Nat, k \in Nat :
        d = run[m].done /\ v = run[m].version /\ k = Files[m]
  BY MigrationAssumption DEF MigrationInv, MigrationShape, RunStates
<1>a. RunOK(m) /\ schema \in Seq(Nat) /\ \A i \in 1..Len(schema) : schema[i] = i
  BY DEF MigrationInv, MigrationShape, SchemaOK
<1>b. /\ v = Len(schema) /\ v + Len(d) <= k
      /\ \A i \in 1..Len(d) : d[i] = v + i
  BY <1>1, <1>a DEF RunOK
<1>c. ~(v + Len(d) + 1 <= k)
  BY <1>1 DEF Pending, NextFile
<1>d. Len(schema) \in Nat /\ Len(d) \in Nat
  BY <1>1, <1>a
<1>2. /\ schema \in Seq(Nat) /\ Len(schema) \in Nat /\ Len(d) \in Nat /\ Files[m] \in Nat
      /\ \A i \in 1..Len(schema) : schema[i] = i
      /\ \A i \in 1..Len(d) : d[i] = Len(schema) + i
  BY <1>1, <1>a, <1>b, <1>d
<1>3. Len(schema) + Len(d) = Files[m]
  <2>1. PICK n \in Nat : n = Len(d)
    BY <1>d
  <2>2. v + n <= k /\ ~(v + n + 1 <= k)
    BY <1>b, <1>c, <2>1
  <2>3. v + n = k
    BY <2>2, LastOne
  <2>. QED  BY <1>1, <1>b, <2>1, <2>3
<1>4. schema' = schema \o d
  BY <1>1
<1>5. /\ schema' \in Seq(Nat) /\ Len(schema') = Files[m]
      /\ \A i \in 1..Len(schema') :
           schema'[i] = IF i <= Len(schema) THEN schema[i] ELSE d[i - Len(schema)]
  BY <1>2, <1>3, <1>4
<1>6. \A i \in 1..Len(schema') : schema'[i] = i
  <2>. SUFFICES ASSUME NEW i \in 1..Len(schema') PROVE schema'[i] = i
    OBVIOUS
  <2>1. CASE i <= Len(schema)
    BY <1>2, <1>5, <2>1
  <2>2. CASE ~(i <= Len(schema))
    <3>1. i - Len(schema) \in 1..Len(d)
      BY <1>2, <1>3, <1>5, <2>2
    <3>2. d[i - Len(schema)] = Len(schema) + (i - Len(schema))
      BY <1>2, <3>1
    <3>3. i \in Nat
      BY <1>2, <1>5
    <3>4. schema'[i] = d[i - Len(schema)]
      BY <1>5, <2>2
    <3>. QED  BY <1>2, <3>2, <3>3, <3>4
  <2>. QED  BY <2>1, <2>2
<1>. QED  BY <1>5, <1>6 DEF SchemaOK, Sizes

\* The transaction of a run ends, with or without its commit.
LEMMA EndStep ==
  ASSUME MigrationInv, NEW m \in Migrators, NEW pc \in {"ok", "failed", "refused"},
         End(m, pc),
         \/ UNCHANGED schema
         \/ run[m].pc = "applying" /\ ~Pending(m) /\ schema' = schema \o run[m].done
  PROVE  MigrationInv'
<1>1. /\ run' \in [Migrators -> RunStates] /\ run'[m].pc = pc /\ run'[m].done = <<>>
      /\ \A o \in Migrators \ {m} : run'[o] = run[o]
  BY FreshFacts DEF End, MigrationInv, MigrationShape
<1>2. lock' = IF lock = m THEN NULL ELSE lock
  BY DEF End
<1>3. LockOK'
  BY <1>1, <1>2, MigrationAssumption DEF LockOK, MigrationInv, Holding
<1>4. schema' \in Seq(Nat) /\ SchemaOK'
  <2>1. CASE UNCHANGED schema
    BY <2>1 DEF MigrationInv, MigrationShape, SchemaOK
  <2>. QED  BY <2>1, CommitFacts
<1>5. ASSUME NEW o \in Migrators PROVE RunOK(o)'
  <2>1. CASE o = m
    BY <1>1, <2>1 DEF RunOK
  <2>2. CASE o # m /\ UNCHANGED schema
    BY <1>1, <2>2 DEF RunOK, MigrationInv
  <2>3. CASE o # m /\ run[m].pc = "applying"
    BY <1>1, <2>3 DEF RunOK, MigrationInv, LockOK, Holding
  <2>. QED  BY <2>1, <2>2, <2>3
<1>. QED  BY <1>1, <1>3, <1>4, <1>5 DEF MigrationInv, MigrationShape

\* The statements of a transaction that does not end with them.
LEMMA StatementStep ==
  ASSUME MigrationInv, NEW m \in Migrators,
         \/ Lock(m) \/ ReadVersion(m) \/ Retry(m)
         \/ Apply(m) /\ ~Exists(NextFile(m))
  PROVE  MigrationInv'
<1>. DEFINE old == run[m]
<1>0. /\ UNCHANGED schema /\ old \in RunStates /\ old.version \in Nat /\ old.done \in Seq(Nat)
      /\ run \in [Migrators -> RunStates] /\ schema \in Seq(Nat) /\ Files[m] \in Nat
  BY MigrationAssumption
     DEF Lock, ReadVersion, Retry, Apply, MigrationInv, MigrationShape, RunStates
<1>1. ASSUME NEW new \in RunStates, run' = [run EXCEPT ![m] = new], RunOK(m)', LockOK'
      PROVE  MigrationInv'
  <2>1. \A o \in Migrators \ {m} : RunOK(o)'
    BY <1>0, <1>1 DEF RunOK, MigrationInv
  <2>. QED  BY <1>0, <1>1, <2>1 DEF MigrationInv, MigrationShape, SchemaOK
<1>2. CASE Lock(m)
  <2>1. /\ lock = NULL /\ lock' = m /\ old.pc = "begin"
        /\ run' = [run EXCEPT ![m] = [old EXCEPT !.pc = "locked"]]
    BY <1>2 DEF Lock, LockFree
  <2>2. /\ [old EXCEPT !.pc = "locked"] \in RunStates /\ [old EXCEPT !.pc = "locked"].pc = "locked"
        /\ [old EXCEPT !.pc = "locked"].done = old.done
    BY <1>0 DEF RunStates
  <2>3. run'[m].pc = "locked" /\ run'[m].done = old.done /\ \A o \in Migrators \ {m} : run'[o] = run[o]
    BY <1>0, <2>1, <2>2
  <2>4. LockOK'
    BY <2>1, <2>3, MigrationAssumption DEF LockOK, MigrationInv, Holding
  <2>5. RunOK(m)'
    BY <2>1, <2>3 DEF RunOK, MigrationInv
  <2>. QED  BY <1>1, <2>1, <2>2, <2>4, <2>5
<1>3. CASE ReadVersion(m)
  <2>1. PICK v \in Nat : v = Version /\ v = Len(schema)
    BY <1>0, VersionIs DEF MigrationInv, SchemaOK, Version
  <2>2. /\ UNCHANGED lock /\ old.pc = "locked" /\ v <= Files[m]
        /\ run' = [run EXCEPT ![m] = [old EXCEPT !.pc = "applying", !.version = v]]
    BY <1>0, <1>3, <2>1 DEF ReadVersion, Unsupported
  <2>. DEFINE new == [old EXCEPT !.pc = "applying", !.version = v]
  <2>3. new \in RunStates /\ new.pc = "applying" /\ new.version = v /\ new.done = old.done
    BY <1>0 DEF RunStates
  <2>. HIDE DEF new
  <2>4. run'[m] = new /\ \A o \in Migrators \ {m} : run'[o] = run[o]
    BY <1>0, <2>2 DEF new
  <2>5. LockOK'
    BY <2>2, <2>3, <2>4 DEF LockOK, MigrationInv, Holding
  <2>6. old.done = <<>>
    BY <2>2 DEF MigrationInv, RunOK
  <2>7. RunOK(m)'
    BY <1>0, <2>1, <2>2, <2>3, <2>4, <2>6 DEF RunOK
  <2>. QED  BY <1>1, <2>2, <2>3, <2>5, <2>7 DEF new
<1>4. CASE Apply(m) /\ ~Exists(NextFile(m))
  <2>1. PICK d \in Seq(Nat), v \in Nat : d = old.done /\ v = old.version
    BY <1>0
  <2>2. /\ UNCHANGED lock /\ old.pc = "applying" /\ v + Len(d) + 1 <= Files[m]
        /\ run' = [run EXCEPT ![m] = [old EXCEPT !.done = Append(d, v + Len(d) + 1)]]
    BY <1>4, <2>1 DEF Apply, Pending, NextFile
  <2>3. v = Len(schema) /\ \A i \in 1..Len(d) : d[i] = v + i
    BY <2>1, <2>2 DEF MigrationInv, RunOK
  <2>a. PICK x \in Nat : x = v + Len(d) + 1
    BY <2>1
  <2>b. Append(d, x) \in Seq(Nat) /\ Len(Append(d, x)) = Len(d) + 1
    BY <2>1, <2>a
  <2>d. /\ \A i \in 1..Len(d) : Append(d, x)[i] = d[i]
        /\ Append(d, x)[Len(d) + 1] = x
    BY <2>1, <2>a
  <2>4. PICK e \in Seq(Nat) : e = Append(d, x)
    BY <2>b
  <2>c. Len(d) \in Nat /\ Len(e) = Len(d) + 1
    BY <2>1, <2>4, <2>b
  <2>5. \A i \in 1..Len(e) : e[i] = v + i
    <3>. SUFFICES ASSUME NEW i \in 1..Len(e) PROVE e[i] = v + i
      OBVIOUS
    <3>1. i \in 1..Len(d) \/ i = Len(d) + 1
      BY <2>c
    <3>2. CASE i \in 1..Len(d)
      BY <2>3, <2>4, <2>d, <3>2
    <3>3. CASE i = Len(d) + 1
      BY <2>4, <2>a, <2>c, <2>d, <3>3
    <3>. QED  BY <3>1, <3>2, <3>3
  <2>. DEFINE new == [old EXCEPT !.done = e]
  <2>6. new \in RunStates /\ new.pc = "applying" /\ new.version = v /\ new.done = e
    BY <1>0, <2>1, <2>2 DEF RunStates
  <2>7. run' = [run EXCEPT ![m] = new]
    BY <2>2, <2>4, <2>a
  <2>. HIDE DEF new
  <2>8. run'[m] = new /\ \A o \in Migrators \ {m} : run'[o] = run[o]
    BY <1>0, <2>7
  <2>9. LockOK'
    BY <2>2, <2>6, <2>8 DEF LockOK, MigrationInv, Holding
  <2>10. RunOK(m)'
    <3>1. v + Len(e) <= Files[m]
      BY <1>0, <2>1, <2>2, <2>c
    <3>. QED  BY <1>0, <2>3, <2>5, <2>6, <2>8, <3>1 DEF RunOK
  <2>. QED  BY <1>1, <2>6, <2>7, <2>9, <2>10
<1>5. CASE Retry(m)
  <2>1. /\ UNCHANGED lock /\ old.pc = "failed" /\ run' = [run EXCEPT ![m] = Fresh]
        /\ Fresh \in RunStates /\ Fresh.pc = "begin" /\ Fresh.done = <<>>
    BY <1>5, FreshFacts DEF Retry
  <2>2. run'[m] = Fresh /\ \A o \in Migrators \ {m} : run'[o] = run[o]
    BY <1>0, <2>1
  <2>3. LockOK'
    BY <2>1, <2>2 DEF LockOK, MigrationInv, Holding
  <2>4. RunOK(m)'
    BY <2>1, <2>2 DEF RunOK
  <2>. QED  BY <1>1, <2>1, <2>3, <2>4
<1>. QED  BY <1>2, <1>3, <1>4, <1>5

\* Every step of Deployment preserves the invariant: the rotation and the
\* gateway leave the database's schema alone.
LEMMA MigrationInvStep ==
  ASSUME MigrationInv, [Next]_vars
  PROVE  MigrationInv'
<1>1. CASE UNCHANGED migrationVars
  BY <1>1 DEF migrationVars, MigrationInv, MigrationShape, SchemaOK, LockOK, RunOK
<1>2. ASSUME NEW m \in Migrators, Connect(m) PROVE MigrationInv'
  BY <1>1, <1>2, EndStep DEF Connect
<1>3. ASSUME NEW m \in Migrators, Execute(m) PROVE MigrationInv'
  <2>1. CASE Lock(m) \/ ReadVersion(m)
    BY <2>1, StatementStep
  <2>2. CASE Refuse(m)
    BY <2>2, EndStep DEF Refuse
  <2>3. CASE Apply(m)
    <3>1. CASE Exists(NextFile(m))
      BY <2>3, <3>1, EndStep DEF Apply
    <3>2. CASE ~Exists(NextFile(m))
      BY <2>3, <3>2, StatementStep
    <3>. QED  BY <3>1, <3>2
  <2>4. CASE Commit(m)
    BY <2>4, EndStep DEF Commit
  <2>. QED  BY <1>3, <2>1, <2>2, <2>3, <2>4 DEF Execute, Transact
<1>4. ASSUME NEW m \in Migrators, Lose(m) PROVE MigrationInv'
  BY <1>4, EndStep DEF Lose
<1>5. ASSUME NEW m \in Migrators, Abort(m) PROVE MigrationInv'
  BY <1>5, EndStep DEF Abort, Fail
<1>6. ASSUME NEW m \in Migrators, Again(m) PROVE MigrationInv'
  BY <1>6, StatementStep DEF Again
<1>7. ASSUME NEW m \in Migrators, LoadTrust(m) PROVE MigrationInv'
  BY <1>1, <1>7 DEF LoadTrust
<1>8. ASSUME NEW c \in Services, Boot(c) PROVE MigrationInv'
  BY <1>1, <1>8 DEF Boot
<1>9. CASE Operate \/ Break \/ Launch \/ Pass \/ Ended \/ UNCHANGED vars
  BY <1>1, <1>9 DEF Operate, Break, Launch, Pass, Ended, vars
<1>. QED
  BY <1>2, <1>3, <1>4, <1>5, <1>6, <1>7, <1>8, <1>9 DEF Next, Migrate

\* The database is empty or has the files of some image when the runs begin.
LEMMA MigrationInvInit ==
  ASSUME Init
  PROVE  MigrationInv
<1>1. PICK n \in Sizes : schema = [i \in 1..n |-> i]
  BY DEF Init, MigrationInit, Sizes
<1>2. n \in Nat
  BY MigrationAssumption DEF Sizes
<1>3. schema \in Seq(Nat) /\ Len(schema) = n /\ \A i \in 1..n : schema[i] = i
  BY <1>1, <1>2
<1>4. /\ lock = NULL /\ run = [m \in Migrators |-> Fresh]
      /\ Fresh \in RunStates /\ Fresh.pc = "begin" /\ Fresh.done = <<>>
  BY FreshFacts DEF Init, MigrationInit
<1>5. LockOK /\ \A m \in Migrators : RunOK(m)
  BY <1>4, MigrationAssumption DEF LockOK, RunOK, Holding
<1>. QED  BY <1>3, <1>4, <1>5 DEF MigrationInv, MigrationShape, SchemaOK

\* MigrationInv is invariant: one run at a time is past the advisory lock, and
\* what it has read and executed since follows the schema that the others left,
\* wherever cmd/migrate fails and whenever its connection is lost.
THEOREM MigrationInvHolds == Spec => []MigrationInv
<1>1. Init => MigrationInv
  BY MigrationInvInit
<1>2. MigrationInv /\ [Next]_vars => MigrationInv'
  BY MigrationInvStep
<1>. QED  BY <1>1, <1>2, PTL DEF Spec

\* cmd/migrate executes every file once and in order, for any number of runs
\* and images of any age; the schema is always that of some image.
THEOREM MigrationsInOrder == Spec => []AppliedInOrder
<1>1. MigrationInv => AppliedInOrder
  <2>. SUFFICES ASSUME MigrationInv PROVE AppliedInOrder
    OBVIOUS
  <2>1. /\ schema \in Seq(Nat) /\ Len(schema) \in Sizes
        /\ \A i \in 1..Len(schema) : schema[i] = i
    BY DEF MigrationInv, MigrationShape, SchemaOK
  <2>2. schema = [i \in 1..Len(schema) |-> i]
    BY <2>1
  <2>. QED  BY <2>1, <2>2 DEF AppliedInOrder, Sizes
<1>. QED  BY <1>1, MigrationInvHolds, PTL

\* A run whose transaction ends with anything but success does not succeed, and
\* no step of another run makes it succeed.
LEMMA EndIsNotSuccess ==
  ASSUME MigrationShape, NEW m \in Migrators, NEW o \in Migrators, run[o].pc # "ok",
         End(m, "failed") \/ End(m, "refused")
  PROVE  run'[o].pc # "ok"
BY FreshFacts DEF End, MigrationShape

\* Only the commit of a run's own transaction makes it succeed.
LEMMA SuccessIsCommit ==
  ASSUME MigrationInv, [Next]_vars,
         NEW o \in Migrators, run[o].pc # "ok", run'[o].pc = "ok"
  PROVE  run[o].pc = "applying" /\ ~Pending(o) /\ schema' = schema \o run[o].done
<1>. USE DEF MigrationInv
<1>1. ASSUME UNCHANGED migrationVars PROVE FALSE
  BY <1>1 DEF migrationVars
<1>2. ASSUME NEW m \in Migrators, Connect(m) \/ Lose(m) \/ Abort(m) PROVE FALSE
  BY <1>1, <1>2, EndIsNotSuccess DEF Connect, Lose, Abort, Fail
<1>3. ASSUME NEW m \in Migrators, Again(m) PROVE FALSE
  BY <1>3, FreshFacts DEF Again, Retry, MigrationShape
<1>4. ASSUME NEW m \in Migrators, Execute(m)
      PROVE  m = o /\ Commit(m)
  <2>1. CASE Lock(m)
    BY <2>1 DEF Lock, MigrationShape, RunStates
  <2>2. CASE ReadVersion(m)
    <3>1. PICK v : run' = [run EXCEPT ![m] = [run[m] EXCEPT !.pc = "applying", !.version = v]]
      BY <2>2 DEF ReadVersion
    <3>. QED  BY <3>1 DEF MigrationShape, RunStates
  <2>3. CASE Refuse(m)
    BY <2>3, EndIsNotSuccess DEF Refuse
  <2>4. CASE Apply(m)
    <3>1. CASE Exists(NextFile(m))
      BY <2>4, <3>1, EndIsNotSuccess DEF Apply
    <3>2. CASE ~Exists(NextFile(m))
      <4>1. PICK d : run' = [run EXCEPT ![m] = [run[m] EXCEPT !.done = d]]
        BY <2>4, <3>2 DEF Apply
      <4>. QED  BY <4>1 DEF MigrationShape, RunStates
    <3>. QED  BY <3>1, <3>2
  <2>5. CASE Commit(m)
    <3>1. CASE End(m, "failed")
      BY <3>1, EndIsNotSuccess
    <3>2. CASE End(m, "ok") /\ m # o
      BY <3>2 DEF End, MigrationShape
    <3>. QED  BY <2>5, <3>1, <3>2 DEF Commit
  <2>. QED  BY <1>4, <2>1, <2>2, <2>3, <2>4, <2>5 DEF Execute, Transact
<1>5. ASSUME NEW m \in Migrators, LoadTrust(m) PROVE FALSE
  BY <1>1, <1>5 DEF LoadTrust
<1>6. ASSUME NEW c \in Services, Boot(c) PROVE FALSE
  BY <1>1, <1>6 DEF Boot
<1>7. ASSUME Operate \/ Break \/ Launch \/ Pass \/ Ended \/ UNCHANGED vars PROVE FALSE
  BY <1>1, <1>7 DEF Operate, Break, Launch, Pass, Ended, vars
<1>8. PICK m \in Migrators : Execute(m)
  BY <1>2, <1>3, <1>5, <1>6, <1>7 DEF Next, Migrate
<1>. QED  BY <1>4, <1>8 DEF Commit

\* A run of cmd/migrate that reports success leaves the schema of its own image,
\* however deployments overlap.
THEOREM SuccessCurrent == Spec => SuccessIsCurrent
<1>1. MigrationInv /\ [Next]_vars =>
        [\A m \in Migrators :
           run[m].pc # "ok" /\ run'[m].pc = "ok" => Version' = Files[m]]_migrationVars
  <2>. SUFFICES ASSUME MigrationInv, [Next]_vars,
                       NEW m \in Migrators, run[m].pc # "ok", run'[m].pc = "ok"
                PROVE  Version' = Files[m]
    OBVIOUS
  <2>1. run[m].pc = "applying" /\ ~Pending(m) /\ schema' = schema \o run[m].done
    BY SuccessIsCommit
  <2>2. schema' \in Seq(Nat) /\ SchemaOK' /\ Len(schema') = Files[m]
    BY <2>1, CommitFacts
  <2>3. \A i \in 1..Len(schema') : schema'[i] = i
    BY <2>2 DEF SchemaOK
  <2>4. (IF schema' = <<>> THEN 0 ELSE Max(ToSet(schema'))) = Len(schema')
    BY <2>2, <2>3, VersionIs
  <2>. QED  BY <2>2, <2>4 DEF Version
<1>. QED  BY <1>1, MigrationInvHolds, PTL DEF Spec, SuccessIsCurrent
=============================================================================
