------------------------------- MODULE Migrator -------------------------------
(***************************************************************************)
(* packages/database/src/migrate.ts: deployments that start together, or   *)
(* one after another, apply the numbered files of their release.  Each     *)
(* takes the advisory lock on one pooled connection, reads the ledger once *)
(* and runs every missing file in a transaction on a second connection     *)
(* (withTransaction of pool.ts), where the primary key of the ledger makes *)
(* concurrent inserts of one name wait for each other.                     *)
(*                                                                         *)
(* The lock belongs to a database session.  A query that times out on the  *)
(* client keeps its session, which goes back to the pool: it may be given  *)
(* the lock later, or keep it, until the process ends the pool.  Behind a  *)
(* pooler that multiplexes sessions the lock protects nobody.              *)
(***************************************************************************)
EXTENDS Naturals, Sequences, SequencesExt

CONSTANTS
  Migrators,   \* runs of the migrator
  Release,     \* the files of each, [name, checksum], in order of their names
  Nobody,
  MaxRuns      \* bound: how often each run is started

\* The files are numbered, and no release leaves a number out: one that came
\* after a larger number would be applied after it.
ASSUME MigratorAssumption ==
  /\ Migrators # {} /\ Nobody \notin Migrators
  /\ MaxRuns \in Nat
  /\ \A m \in Migrators :
       /\ Release[m] \in Seq([name : Nat, checksum : STRING])
       /\ \A i \in 1 .. Len(Release[m]) : Release[m][i].name = i

VARIABLES
  table,     \* schema_migrations: whether it exists and has its row security
  ledger,    \* its rows
  schema,    \* the files whose effects are committed, in that order
  lock,      \* the run whose session has the advisory lock
  waiting,   \* runs whose session waits for it
  step,      \* how far each run is
  known,     \* the ledger as each read it
  file,      \* the file each looks at
  inserted,  \* runs whose open transaction has inserted its ledger row
  starts     \* how often each was started

migratorVars == <<table, ledger, schema, lock, waiting, step, known, file, inserted, starts>>

Tables == {"absent", "open", "protected"}
Steps == {"off", "ledger", "creating", "securing", "locking", "reading", "files", "applying",
          "recording", "committing", "unlocking", "applied", "failed"}
Ended == {"off", "applied", "failed"}

MigratorStart(already) ==
  /\ table = "absent" /\ ledger = {} /\ schema = <<>>
  /\ lock = Nobody /\ waiting = {}
  /\ step = [m \in Migrators |-> "off"]
  /\ known = [m \in Migrators |-> {}]
  /\ file = [m \in Migrators |-> 0]
  /\ inserted = {}
  /\ starts = [m \in Migrators |-> already]

MigratorInit == MigratorStart(0)

Step(m, next) == step' = [step EXCEPT ![m] = next]
Current(m) == Release[m][file[m]]
SameTables == UNCHANGED <<table, ledger, schema>>
SameLock == UNCHANGED <<lock, waiting>>
SamePlace == UNCHANGED <<known, file, starts>>

\* The pool of a process is its own, and empty: no session is left of the
\* last run of m.
StartMigrator(m) ==
  /\ step[m] \in Ended /\ starts[m] < MaxRuns
  /\ m \notin waiting \cup inserted /\ lock # m
  /\ starts' = [starts EXCEPT ![m] = @ + 1]
  /\ known' = [known EXCEPT ![m] = {}]
  /\ file' = [file EXCEPT ![m] = 0]
  /\ Step(m, "ledger")
  /\ SameTables /\ SameLock /\ UNCHANGED inserted

------------------------------------------------------------------------------
(* ensureLedger, before the lock: three statements, each committed alone.    *)

LookForLedger(m) ==
  /\ step[m] = "ledger"
  /\ Step(m, IF table = "absent" THEN "creating" ELSE "securing")
  /\ SameTables /\ SameLock /\ SamePlace /\ UNCHANGED inserted

\* "if not exists" was decided before: two that create it collide.
CreateLedger(m) ==
  /\ step[m] = "creating"
  /\ IF table = "absent"
     THEN table' = "open" /\ Step(m, "securing")
     ELSE UNCHANGED table /\ Step(m, "failed")
  /\ SameLock /\ SamePlace /\ UNCHANGED <<ledger, schema, inserted>>

\* Row security and the revokes.  Two that do it at once may collide too.
SecureLedger(m) ==
  /\ step[m] = "securing"
  /\ table' = "protected"
  /\ \/ Step(m, "locking")
     \/ (\E o \in Migrators \ {m} : step[o] = "securing") /\ Step(m, "failed")
  /\ SameLock /\ SamePlace /\ UNCHANGED <<ledger, schema, inserted>>

------------------------------------------------------------------------------
(* The lock.                                                                 *)

\* pg_advisory_lock waits in its session.
RequestLock(m) ==
  /\ step[m] = "locking" /\ m \notin waiting
  /\ waiting' = waiting \cup {m}
  /\ SameTables /\ SamePlace /\ UNCHANGED <<lock, step, inserted>>

\* The session may be granted the lock when its query has timed out already.
GrantLock(m) ==
  /\ m \in waiting /\ lock = Nobody
  /\ lock' = m
  /\ waiting' = waiting \ {m}
  /\ IF step[m] = "locking" THEN Step(m, "reading") ELSE UNCHANGED step
  /\ SameTables /\ SamePlace /\ UNCHANGED inserted

\* query_timeout: the client gives up and the session goes on waiting.
LockTimesOut(m) ==
  /\ step[m] = "locking" /\ m \in waiting
  /\ Step(m, "unlocking")
  /\ SameTables /\ SameLock /\ SamePlace /\ UNCHANGED inserted

\* pg_advisory_unlock, which may fail or time out; its error is swallowed and
\* the connection goes back to the pool as it is.
Unlock(m) ==
  /\ step[m] = "unlocking"
  /\ \/ lock' = IF lock = m THEN Nobody ELSE lock
     \/ UNCHANGED lock
  /\ Step(m, IF file[m] > Len(Release[m]) THEN "applied" ELSE "failed")
  /\ SameTables /\ SamePlace /\ UNCHANGED <<waiting, inserted>>

\* closePool: the sessions of a run that has ended are closed, and with them
\* their lock and their place in its queue.
ClosePool(m) ==
  /\ step[m] \in Ended /\ (lock = m \/ m \in waiting)
  /\ lock' = IF lock = m THEN Nobody ELSE lock
  /\ waiting' = waiting \ {m}
  /\ SameTables /\ SamePlace /\ UNCHANGED <<step, inserted>>

\* The pooler hands the session, and the lock with it, to somebody else.
LockLost(m) ==
  /\ lock = m /\ step[m] \notin Ended
  /\ lock' = Nobody
  /\ SameTables /\ SamePlace /\ UNCHANGED <<waiting, step, inserted>>

------------------------------------------------------------------------------
(* The files.                                                                *)

ReadLedger(m) ==
  /\ step[m] = "reading"
  /\ \/ /\ known' = [known EXCEPT ![m] = ledger]
        /\ file' = [file EXCEPT ![m] = 1]
        /\ Step(m, "files")
     \/ Step(m, "unlocking") /\ UNCHANGED <<known, file>>
  /\ SameTables /\ SameLock /\ UNCHANGED <<inserted, starts>>

HasName(row, name) == row.name = name

\* The file is in the ledger as it was read: its checksum must be the same.
SkipFile(m) ==
  /\ step[m] = "files" /\ file[m] <= Len(Release[m])
  /\ \E row \in known[m] :
       /\ HasName(row, Current(m).name)
       /\ IF row = Current(m)
          THEN file' = [file EXCEPT ![m] = @ + 1] /\ UNCHANGED step
          ELSE UNCHANGED file /\ Step(m, "unlocking")
  /\ SameTables /\ SameLock /\ UNCHANGED <<known, inserted, starts>>

FilesDone(m) ==
  /\ step[m] = "files" /\ file[m] > Len(Release[m])
  /\ Step(m, "unlocking")
  /\ SameTables /\ SameLock /\ SamePlace /\ UNCHANGED inserted

\* withTransaction: a second connection, which may not be had in time.
BeginFile(m) ==
  /\ step[m] = "files" /\ file[m] <= Len(Release[m])
  /\ \A row \in known[m] : ~ HasName(row, Current(m).name)
  /\ \/ Step(m, "applying")
     \/ Step(m, "unlocking")
  /\ SameTables /\ SameLock /\ SamePlace /\ UNCHANGED inserted

\* The file's own statements: they may fail, on what is there already or by
\* the timeout of the transaction, and are seen by nobody before the commit.
RunFile(m) ==
  /\ step[m] = "applying"
  /\ \/ Step(m, "recording")
     \/ Step(m, "unlocking")
  /\ SameTables /\ SameLock /\ SamePlace /\ UNCHANGED inserted

\* The primary key: an insert waits for the open transaction that inserted
\* the name, and fails when the name is committed.
InsertWaits(m) ==
  \E o \in inserted : HasName(Current(o), Current(m).name)

RecordFile(m) ==
  /\ step[m] = "recording" /\ ~ InsertWaits(m)
  /\ IF \E row \in ledger : HasName(row, Current(m).name)
     THEN Step(m, "unlocking") /\ UNCHANGED inserted
     ELSE Step(m, "committing") /\ inserted' = inserted \cup {m}
  /\ SameTables /\ SameLock /\ SamePlace

\* One commit for the file's effects and its row.
RowCommitsLater(row) == UNCHANGED ledger  \* mutated form: recorded outside of it
RowCommits(row) == ledger' = ledger \cup {row}

Commits(m) ==
  /\ schema' = Append(schema, Current(m))
  /\ RowCommits(Current(m))
  /\ inserted' = inserted \ {m}

CommitFile(m) ==
  /\ step[m] = "committing"
  /\ Commits(m)
  /\ Step(m, "files")
  /\ file' = [file EXCEPT ![m] = @ + 1]
  /\ SameLock /\ UNCHANGED <<table, known, starts>>

\* The insert times out or fails otherwise, or the run does not hear of its
\* commit: of that the transaction may go on in the database.
TransactionFails(m) ==
  /\ step[m] \in {"recording", "committing"}
  /\ Step(m, "unlocking")
  /\ SameTables /\ SameLock /\ SamePlace /\ UNCHANGED inserted

\* A transaction whose client has given up commits, when the COMMIT had been
\* sent, or rolls back; whichever, as late as it likes.
TransactionSettles(m) ==
  /\ m \in inserted /\ step[m] # "committing"
  /\ \/ Commits(m)
     \/ inserted' = inserted \ {m} /\ UNCHANGED <<ledger, schema>>
  /\ SameLock /\ SamePlace /\ UNCHANGED <<table, step>>

\* The process dies, and its sessions with it.
MigratorDies(m) ==
  /\ step[m] \notin Ended
  /\ Step(m, "failed")
  /\ lock' = IF lock = m THEN Nobody ELSE lock
  /\ waiting' = waiting \ {m}
  /\ SameTables /\ SamePlace /\ UNCHANGED inserted

MigratorStep(m) ==
  \/ LookForLedger(m) \/ CreateLedger(m) \/ SecureLedger(m)
  \/ RequestLock(m) \/ GrantLock(m) \/ LockTimesOut(m) \/ Unlock(m) \/ ClosePool(m)
  \/ ReadLedger(m) \/ SkipFile(m) \/ FilesDone(m)
  \/ BeginFile(m) \/ RunFile(m) \/ RecordFile(m) \/ CommitFile(m)
  \/ TransactionFails(m) \/ TransactionSettles(m)

MigratorNext ==
  \E m \in Migrators : StartMigrator(m) \/ MigratorStep(m) \/ MigratorDies(m) \/ LockLost(m)

MigratorSpec == MigratorInit /\ [][MigratorNext]_migratorVars

------------------------------------------------------------------------------
(* Properties.                                                               *)

\* Whatever fails, and whether or not the lock holds: the schema is made of
\* the first files of one release, each applied once and in order, the ledger
\* says exactly that, and a run that reports success left all of its files.
SchemaIsARelease ==
  /\ \E m \in Migrators : IsPrefix(schema, Release[m])
  /\ ledger = ToSet(schema)
  /\ \A m \in Migrators : step[m] = "applied" => IsPrefix(Release[m], schema)
=============================================================================
