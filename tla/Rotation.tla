------------------------------ MODULE Rotation -------------------------------
(***************************************************************************)
(* The database gateway's identity and the clients' trust in it, while the *)
(* operator replaces the one and the other.  Clients read their bundle of  *)
(* anchors once, when they start; the gateway validates its certificate    *)
(* when it is launched.  Processes crash and start again between any two   *)
(* steps of the rotation, with whatever is configured by then.             *)
(*                                                                         *)
(* The operator is the repository's documented rotation sequence.          *)
(***************************************************************************)
EXTENDS Integers, Sequences, SequencesExt

CONSTANTS
  Services,      \* the long-running clients: API and worker
  NotBefore,     \* the first instant at which each certificate is valid,
  NotAfter,      \* and the instant at which it expires
  Offsets,       \* how far the clock of a process may be off
  MaxAnchors,    \* databaseCACountMax, 2
  Horizon,       \* bound: the last instant
  MaxCrashes     \* bound: crashes of gateway and services, all together

Certs == {"old", "new"}

\* The clients' secrets: one for the services, one for the migration runner.
Scopes == {"runtime", "migration"}

\* The gateway's identity, which is its clients' anchor, and the anchor by which
\* the gateway itself trusts the database.
Identities == Certs \cup {"backend"}

\* The half-open validity interval of the start-up checks.
Valid(cert, t) == NotBefore[cert] <= t /\ t < NotAfter[cert]

ASSUME RotationAssumption ==
  /\ {NotBefore, NotAfter} \subseteq [Identities -> Int]
  /\ Offsets \subseteq Int
  /\ {MaxAnchors, Horizon, MaxCrashes} \subseteq Nat

\* A bundle has room for both anchors; on every clock the old certificate is
\* valid when the rotation begins, and the new one outlasts the rotation.
ASSUME OverlapAssumption ==
  /\ MaxAnchors >= 2
  /\ \A d \in Offsets : Valid("old", d) /\ Horizon + d < NotAfter["new"]

VARIABLES
  clock,
  secret,     \* RELAY_DATABASE_CA in each secret
  identity,   \* GATEWAY_CERTIFICATE, as deployed
  service,    \* the process of each service, and the anchors in its memory
  gateway,    \* the gateway's process
  phase,      \* how far the operator is
  crashes

rotationVars == <<clock, secret, identity, service, gateway, phase, crashes>>

-----------------------------------------------------------------------------
\* What the pool is made of: one or two anchors, all of them valid.
Acceptable(bundle, t) ==
  Len(bundle) \in 1..MaxAnchors /\ \A cert \in ToSet(bundle) : Valid(cert, t)

\* Mutant: only the first anchor gets into the pool.
databaseCARoots_First(bundle, t) ==
  IF Acceptable(bundle, t) THEN {bundle[1]} ELSE {}

\* Mutant: the pool is made anew for each anchor.
databaseCARoots_Last(bundle, t) ==
  IF Acceptable(bundle, t) THEN {Last(bundle)} ELSE {}

\* Mutant: the loop stops one anchor too early, and the rest rejects the bundle.
databaseCARoots_Fewer(bundle, t) ==
  IF Acceptable(bundle, t) /\ Len(bundle) < MaxAnchors THEN ToSet(bundle) ELSE {}

\* The pool that a bundle leads to; {} if it is rejected.
databaseCARoots(bundle, t) ==
  IF Acceptable(bundle, t) THEN ToSet(bundle) ELSE {}

Stopped == [pc |-> "down", roots |-> {}]

Processes == [pc : {"down", "opening", "running"}, roots : SUBSET Certs]

Gateways == [pc : {"down", "validated", "running"}, cert : Certs]

RotationTypeOK ==
  /\ clock \in 0..Horizon
  /\ secret \in [Scopes -> Seq(Certs)]
  /\ identity \in Certs
  /\ service \in [Services -> Processes]
  /\ gateway \in Gateways
  /\ phase \in {"overlap", "restart", "switch", "retire", "drop", "done"}
  /\ crashes \in 0..MaxCrashes

\* The old identity is in use everywhere.
RotationInit ==
  /\ clock = 0
  /\ secret = [s \in Scopes |-> <<"old">>]
  /\ identity = "old"
  /\ service = [c \in Services |-> [pc |-> "running", roots |-> {"old"}]]
  /\ gateway = [pc |-> "running", cert |-> "old"]
  /\ phase = "overlap"
  /\ crashes = 0

-----------------------------------------------------------------------------
(***************************************************************************)
(* Processes.                                                              *)
(***************************************************************************)

\* main, up to ConfigureTLS, which accepts the bundle and keeps it; a process that
\* is refused exits and is started again.
Start(c) ==
  /\ service[c].pc = "down"
  /\ \E d \in Offsets :
       LET roots == databaseCARoots(secret["runtime"], clock + d)
       IN  /\ roots # {}
           /\ service' = [service EXCEPT ![c] = [pc |-> "opening", roots |-> roots]]
  /\ UNCHANGED <<clock, secret, identity, gateway, phase, crashes>>

\* notification.Open has checked the queue, and the service runs; if the check
\* fails, Crash.
Open(c) ==
  /\ service[c].pc = "opening"
  /\ service' = [service EXCEPT ![c].pc = "running"]
  /\ UNCHANGED <<clock, secret, identity, gateway, phase, crashes>>

\* launch: the configuration, its identity and the backend's anchor, is validated
\* at one instant.
Validate ==
  /\ gateway.pc = "down"
  /\ \E d \in Offsets : \A cert \in {identity, "backend"} : Valid(cert, clock + d)
  /\ gateway' = [pc |-> "validated", cert |-> identity]
  /\ UNCHANGED <<clock, secret, identity, service, phase, crashes>>

\* The private files are written and the pooler is executed.
Exec ==
  /\ gateway.pc = "validated"
  /\ gateway' = [gateway EXCEPT !.pc = "running"]
  /\ UNCHANGED <<clock, secret, identity, service, phase, crashes>>

Down == [gateway EXCEPT !.pc = "down"]

\* A process dies, or gives up while it starts: the queue's check, the files.
Crash ==
  /\ crashes < MaxCrashes
  /\ crashes' = crashes + 1
  /\ \/ /\ gateway.pc # "down"
        /\ gateway' = Down
        /\ UNCHANGED service
     \/ /\ \E c \in Services : service[c].pc # "down"
                             /\ service' = [service EXCEPT ![c] = Stopped]
        /\ UNCHANGED gateway
  /\ UNCHANGED <<clock, secret, identity, phase>>

\* A new connection of a client with those anchors is verified, by a clock that is
\* off by d; unlike the checks at start-up, verification accepts the very instant
\* of expiry.
Handshake(roots, d) ==
  /\ gateway.pc = "running"
  /\ gateway.cert \in roots
  /\ clock + d \in NotBefore[gateway.cert]..NotAfter[gateway.cert]

-----------------------------------------------------------------------------
(***************************************************************************)
(* The operator, in the order of the rotation sequence.                    *)
(***************************************************************************)
Proceed(from, to) == phase = from /\ phase' = to

\* A bundle is written to one of the two secrets; "certificates must currently be
\* valid", whichever clock tells.
Distribute(in, bundle) ==
  /\ phase = in
  /\ \A cert \in ToSet(bundle), d \in Offsets : Valid(cert, clock + d)
  /\ \E s \in Scopes : secret[s] # bundle /\ secret' = [secret EXCEPT ![s] = bundle]
  /\ UNCHANGED <<clock, identity, service, gateway, phase, crashes>>

\* The pools that are wanted after the overlap and after the retirement.
TrustsNew == {roots \in SUBSET Certs : "new" \in roots}
TrustsNewOnly == {{"new"}}

\* A running service that is not as it should be is stopped, to start again.
Restart(in, fit) ==
  /\ phase = in
  /\ \E c \in Services : /\ service[c].pc = "running" /\ service[c].roots \notin fit
                         /\ service' = [service EXCEPT ![c] = Stopped]
  /\ UNCHANGED <<clock, secret, identity, gateway, phase, crashes>>

\* Every service runs and its connections are verified.
Verified(fit) ==
  \A c \in Services :
    /\ service[c].pc = "running" /\ service[c].roots \in fit
    /\ \E d \in Offsets : Handshake(service[c].roots, d)

Overlapped ==
  /\ Proceed("overlap", "restart")
  /\ \A s \in Scopes : secret[s] = <<"old", "new">>
  /\ UNCHANGED <<clock, secret, identity, service, gateway, crashes>>

\* The gateway is replaced by one with the new identity.
Replace ==
  /\ Proceed("restart", "switch")
  /\ Verified(TrustsNew)
  /\ identity' = "new"
  /\ gateway' = Down
  /\ UNCHANGED <<clock, secret, service, crashes>>

Switched ==
  /\ Proceed("switch", "retire")
  /\ gateway.cert = "new" /\ Verified(TrustsNew)
  /\ UNCHANGED <<clock, secret, identity, service, gateway, crashes>>

Retired ==
  /\ Proceed("retire", "drop")
  /\ \A s \in Scopes : secret[s] = <<"new">>
  /\ UNCHANGED <<clock, secret, identity, service, gateway, crashes>>

Finish ==
  /\ Proceed("drop", "done")
  /\ Verified(TrustsNewOnly)
  /\ UNCHANGED <<clock, secret, identity, service, gateway, crashes>>

\* Time; the rotation is completed before the old certificate expires anywhere.
RotationTick ==
  /\ clock < Horizon
  /\ phase = "done" \/ \A d \in Offsets : clock + 1 + d < NotAfter["old"]
  /\ clock' = clock + 1
  /\ UNCHANGED <<secret, identity, service, gateway, phase, crashes>>

Rotate ==
  \/ Distribute("overlap", <<"old", "new">>) \/ Overlapped
  \/ Restart("restart", TrustsNew) \/ Replace
  \/ Switched
  \/ Distribute("retire", <<"new">>) \/ Retired
  \/ Restart("drop", TrustsNewOnly) \/ Finish

-----------------------------------------------------------------------------
(***************************************************************************)
(* Properties.                                                             *)
(***************************************************************************)

\* No outage of trust: in every step of the rotation, whatever crashed before,
\* a running service can open connections to a running gateway, by its own clock.
NoTrustOutage ==
  gateway.pc = "running" =>
    \A c \in Services, d \in Offsets :
      service[c].pc = "running" => Handshake(service[c].roots, d)

\* A crash can be recovered from at every moment: what the secrets hold is
\* accepted at start-up (databaseCARoots finds every anchor within its validity
\* on the clock of the process), and whoever starts with it trusts the running
\* gateway.
RestartTrusts ==
  \A s \in Scopes, d \in Offsets :
    LET roots == databaseCARoots(secret[s], clock + d)
    IN  roots # {} /\ (gateway.pc = "running" => Handshake(roots, d))

\* The old identity is out of use in the end.
RotationCompletes == <>(phase = "done")
=============================================================================
