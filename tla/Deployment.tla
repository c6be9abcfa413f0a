----------------------------- MODULE Deployment ------------------------------
(***************************************************************************)
(* Deployments while the gateway's identity is rotated.  A run of          *)
(* cmd/migrate loads its anchors when the task starts, opens one           *)
(* connection through the gateway and works in one transaction on it; a    *)
(* gateway that crashes or is replaced takes the connection with it.  The  *)
(* database notices that some time later, and whether a commit had         *)
(* arrived before is not known to the run.                                 *)
(***************************************************************************)
EXTENDS Migration, Rotation

VARIABLE session   \* of each run: its anchors, and its connection

vars == <<migrationVars, rotationVars, session>>

NoSession == [roots |-> {}, conn |-> "none"]

TypeOK ==
  /\ MigrationTypeOK
  /\ RotationTypeOK
  /\ session \in [Migrators -> [roots : SUBSET Certs, conn : {"none", "open", "lost"}]]

Init ==
  /\ MigrationInit
  /\ RotationInit
  /\ session = [m \in Migrators |-> NoSession]

-----------------------------------------------------------------------------
(***************************************************************************)
(* A run of cmd/migrate.                                                   *)
(***************************************************************************)
\* The task starts: ConfigureTLS with what the migration secret holds now.
LoadTrust(m) ==
  /\ run[m].pc = "begin" /\ session[m] = NoSession
  /\ \E d \in Offsets :
       LET roots == databaseCARoots(secret["migration"], clock + d)
       IN  roots # {} /\ session' = [session EXCEPT ![m].roots = roots]
  /\ UNCHANGED <<migrationVars, rotationVars>>

\* pgx.ConnectConfig; an error ends the run.
Connect(m) ==
  /\ session[m].roots # {} /\ session[m].conn = "none"
  /\ \/ /\ \E d \in Offsets : Handshake(session[m].roots, d)
        /\ session' = [session EXCEPT ![m].conn = "open"]
        /\ UNCHANGED migrationVars
     \/ /\ \E d \in Offsets : ~Handshake(session[m].roots, d)
        /\ session' = [session EXCEPT ![m] = NoSession]
        /\ End(m, "failed")
        /\ UNCHANGED <<schema, failures>>
  /\ UNCHANGED rotationVars

\* Whoever has ended has no session.
Close(m) ==
  session' = IF run'[m].pc \in {"ok", "failed", "refused"}
             THEN [session EXCEPT ![m] = NoSession] ELSE session

\* A statement of the transaction, on an open connection.
Execute(m) ==
  /\ session[m].conn = "open"
  /\ Transact(m)
  /\ Close(m)
  /\ UNCHANGED rotationVars

\* The connection is gone: the database rolls back and frees the lock, unless it
\* had received the commit; either way the run fails.
Lose(m) ==
  /\ session[m].conn = "lost"
  /\ End(m, "failed")
  /\ \/ UNCHANGED schema
     \/ /\ run[m].pc = "applying" /\ ~Pending(m)
        /\ schema' = schema \o run[m].done
  /\ session' = [session EXCEPT ![m] = NoSession]
  /\ UNCHANGED <<rotationVars, failures>>

Abort(m) == Fail(m) /\ Close(m) /\ UNCHANGED rotationVars

Again(m) == Retry(m) /\ UNCHANGED <<rotationVars, session>>

Migrate(m) == LoadTrust(m) \/ Connect(m) \/ Execute(m) \/ Lose(m) \/ Again(m)

-----------------------------------------------------------------------------
\* A gateway that goes down drops its connections.
Drop ==
  session' =
    IF gateway'.pc = "running" THEN session
    ELSE [m \in Migrators |->
            IF session[m].conn = "open" THEN [session[m] EXCEPT !.conn = "lost"]
            ELSE session[m]]

Operate == Rotate /\ Drop /\ UNCHANGED migrationVars
Break == Crash /\ Drop /\ UNCHANGED migrationVars
Launch == (Validate \/ Exec) /\ UNCHANGED <<migrationVars, session>>
Boot(c) == (Start(c) \/ Open(c)) /\ UNCHANGED <<migrationVars, session>>
Pass == RotationTick /\ UNCHANGED <<migrationVars, session>>

Ended ==
  /\ Finished /\ phase = "done" /\ clock = Horizon
  /\ UNCHANGED vars

Next ==
  \/ \E m \in Migrators : Migrate(m) \/ Abort(m)
  \/ \E c \in Services : Boot(c)
  \/ Operate \/ Break \/ Launch \/ Pass \/ Ended

Spec == Init /\ [][Next]_vars

\* What crashes is started again, the operator goes on, time passes, and the
\* deployment repeats a failed migration.
FairSpec ==
  /\ Spec
  /\ \A m \in Migrators : WF_vars(Migrate(m))
  /\ \A c \in Services : WF_vars(Boot(c))
  /\ WF_vars(Launch)
  /\ WF_vars(Operate)
  /\ WF_vars(Pass)
=============================================================================
