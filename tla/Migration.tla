------------------------------ MODULE Migration ------------------------------
(***************************************************************************)
(* cmd/migrate: the schema migrations that every deployment runs before    *)
(* its services.  Deployments may overlap, and images of different age     *)
(* know a different number of migration files.  One transaction takes an   *)
(* advisory lock, reads the version of the schema and executes the files   *)
(* above it; a file fails if what it creates exists already.               *)
(***************************************************************************)
EXTENDS Naturals, Sequences, SequencesExt, FiniteSetsExt

CONSTANTS
  NULL,
  Migrators,     \* runs of cmd/migrate
  Files,         \* how many migration files the image of each run has
  MaxFailures    \* bound: how often runs fail, all together

ASSUME MigrationAssumption ==
  /\ Files \in [Migrators -> Nat \ {0}]
  /\ MaxFailures \in Nat
  /\ NULL \notin Migrators

VARIABLES
  schema,      \* the versions in schema_migrations, in the order of commits
  lock,        \* who holds the advisory lock
  run,         \* the state of each run
  failures

migrationVars == <<schema, lock, run, failures>>

-----------------------------------------------------------------------------
Newest == Max({Files[m] : m \in Migrators})

\* done: version is what the run has applied, in its transaction, so far.
Runs ==
  [pc : {"begin", "locked", "applying", "ok", "failed", "refused"},
   version : 0..Newest, done : Seq(1..Newest)]

MigrationTypeOK ==
  /\ schema \in Seq(1..Newest)
  /\ lock \in Migrators \cup {NULL}
  /\ run \in [Migrators -> Runs]
  /\ failures \in 0..MaxFailures

Fresh == [pc |-> "begin", version |-> 0, done |-> <<>>]

\* An empty database, or one that an earlier deployment has left.
MigrationInit ==
  /\ \E n \in {0} \cup {Files[m] : m \in Migrators} : schema = [i \in 1..n |-> i]
  /\ lock = NULL
  /\ run = [m \in Migrators |-> Fresh]
  /\ failures = 0

\* COALESCE(max(version), 0), or 0 if the table does not exist.
Version == IF schema = <<>> THEN 0 ELSE Max(ToSet(schema))

\* Mutant: the lock is not waited for.
LockFree_Always == TRUE

LockFree == lock = NULL

\* pg_advisory_xact_lock.
Lock(m) ==
  /\ run[m].pc = "begin"
  /\ LockFree
  /\ lock' = m
  /\ run' = [run EXCEPT ![m].pc = "locked"]
  /\ UNCHANGED <<schema, failures>>

\* Mutant: a newer schema is taken for an up-to-date one.
Unsupported_Never(m) == FALSE

\* The schema is newer than this image.
Unsupported(m) == Version > Files[m]

\* The transaction ends, and with it the lock.
End(m, pc) ==
  /\ lock' = IF lock = m THEN NULL ELSE lock
  /\ run' = [run EXCEPT ![m] = [Fresh EXCEPT !.pc = pc]]

\* The version is read under the lock.
ReadVersion(m) ==
  /\ run[m].pc = "locked"
  /\ ~Unsupported(m)
  /\ run' = [run EXCEPT ![m] = [@ EXCEPT !.pc = "applying", !.version = Version]]
  /\ UNCHANGED <<schema, lock, failures>>

Refuse(m) ==
  /\ run[m].pc = "locked"
  /\ Unsupported(m)
  /\ End(m, "refused")
  /\ UNCHANGED <<schema, failures>>

\* Mutant: the file of the schema's own version is executed again.
NextFile_Again(m) ==
  IF run[m].done = <<>> /\ run[m].version > 0 THEN run[m].version
  ELSE run[m].version + Len(run[m].done) + 1

\* The file after those that the schema had and those executed since.
NextFile(m) == run[m].version + Len(run[m].done) + 1

\* Files of the image are left.
Pending(m) == NextFile(m) <= Files[m]

\* CREATE TABLE and the PRIMARY KEY of schema_migrations refuse a second time.
Exists(n) == n \in ToSet(schema)

\* The file is executed; an error ends the run.
Apply(m) ==
  /\ run[m].pc = "applying"
  /\ Pending(m)
  /\ IF Exists(NextFile(m)) THEN End(m, "failed")
     ELSE /\ run' = [run EXCEPT ![m].done = Append(@, NextFile(m))]
          /\ UNCHANGED lock
  /\ UNCHANGED <<schema, failures>>

\* Commit; perhaps the answer is lost and the run reports a failure.
Commit(m) ==
  /\ run[m].pc = "applying"
  /\ ~Pending(m)
  /\ schema' = schema \o run[m].done
  /\ \/ End(m, "ok") /\ UNCHANGED failures
     \/ /\ failures < MaxFailures
        /\ failures' = failures + 1
        /\ End(m, "failed")

\* A statement fails, 30 seconds pass, or the process dies: rollback.
Fail(m) ==
  /\ run[m].pc \in {"begin", "locked", "applying"}
  /\ failures < MaxFailures
  /\ failures' = failures + 1
  /\ End(m, "failed")
  /\ UNCHANGED schema

\* The deployment runs it again.
Retry(m) ==
  /\ run[m].pc = "failed"
  /\ run' = [run EXCEPT ![m] = Fresh]
  /\ UNCHANGED <<schema, lock, failures>>

\* The transaction's next statement.
Transact(m) == Lock(m) \/ ReadVersion(m) \/ Refuse(m) \/ Apply(m) \/ Commit(m)

Finished == \A m \in Migrators : run[m].pc \in {"ok", "refused"}

-----------------------------------------------------------------------------
(***************************************************************************)
(* Properties.                                                             *)
(***************************************************************************)

\* Every migration is executed once and in order, whatever runs overlap, fail
\* or are repeated after a commit whose answer was lost; and the schema is always
\* that of some image, never half of an image's files.
AppliedInOrder ==
  /\ schema = [n \in 1..Len(schema) |-> n]
  /\ Len(schema) \in {0} \cup {Files[m] : m \in Migrators}

\* A run that reports success has found or left the schema of its own image: an
\* older image that overlaps with a newer deployment does not report success.
SuccessIsCurrent ==
  [][\A m \in Migrators :
       run[m].pc # "ok" /\ run'[m].pc = "ok" => Version' = Files[m]]_migrationVars

\* The newest image's run succeeds in the end.
EventuallyNewest == <>(Version = Newest)
=============================================================================
