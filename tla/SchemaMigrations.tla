-------------------------- MODULE SchemaMigrations --------------------------
(***************************************************************************)
(* projection_postgres_migrations.py (retrieval/postgres_migrations.py is  *)
(* its twin): several deployments, each with migration files of its own,   *)
(* bring one database up to date.  A migrator takes an advisory lock, and  *)
(* everything it does after that is one transaction.                       *)
(***************************************************************************)
EXTENDS Naturals, Sequences, SequencesExt

CONSTANTS
  Migrator,
  Local,     \* per migrator its files, in order: [version, text]
  NoMigrator

ASSUME MigratorAssumption == NoMigrator \notin Migrator
ASSUME LocalAssumption == \A m \in Migrator : Local[m] \in Seq(ToSet(Local[m]))

VARIABLES
  history,   \* the rows of schema_migrations, each committed with its file's SQL
  migrator,  \* the holder of the advisory lock
  applied,   \* what the holder's transaction has applied so far
  report     \* what each migrator was last told, "none" for a database error

migrationVars == <<history, migrator, applied, report>>

MigrationInit ==
  /\ history = <<>>
  /\ migrator = NoMigrator /\ applied = <<>>
  /\ report = [m \in Migrator |-> "none"]

Say(m, what) == report' = [report EXCEPT ![m] = what]
Unlock == migrator' = NoMigrator /\ applied' = <<>>

\* pg_advisory_xact_lock(); any number of migrators may wait for it
LockSchema(m) ==
  /\ migrator = NoMigrator
  /\ migrator' = m
  /\ Say(m, "none")
  /\ UNCHANGED <<history, applied>>

\* mutant: only the number of migrations is compared
ValidHistory_Length(m) == Len(history) <= Len(Local[m])

\* _validate_applied_history(): the rows are a prefix of the local files, by
\* version, file name and checksum.
ValidHistory(m) == IsPrefix(history, Local[m])

\* A database that is ahead, on another branch or different in a checksum is
\* left alone.
RejectHistory(m) ==
  /\ migrator = m
  /\ ~ValidHistory(m)
  /\ Unlock
  /\ Say(m, "history_error")
  /\ UNCHANGED history

\* one file and its row
ApplyNext(m) ==
  /\ migrator = m
  /\ ValidHistory(m)
  /\ Len(history) + Len(applied) < Len(Local[m])
  /\ applied' = Append(applied, Local[m][Len(history) + Len(applied) + 1])
  /\ UNCHANGED <<history, migrator, report>>

\* The transaction commits; the answer may be lost.
CommitMigrations(m) ==
  /\ migrator = m
  /\ ValidHistory(m)
  /\ Len(history) + Len(applied) = Len(Local[m])
  /\ history' = history \o applied
  /\ Unlock
  /\ Say(m, "current") \/ UNCHANGED report

\* a statement fails, or the connection is lost: all of it is rolled back
FailMigration(m) ==
  /\ migrator = m
  /\ Unlock
  /\ UNCHANGED <<history, report>>

MigrationNext ==
  \E m \in Migrator :
    \/ LockSchema(m) \/ RejectHistory(m) \/ ApplyNext(m)
    \/ CommitMigrations(m) \/ FailMigration(m)

-----------------------------------------------------------------------------
(* Properties.                                                             *)

\* Whatever deployments do, and however they fail, the database is one that a
\* single deployment could have made: what has been applied is a prefix of one
\* list of files, each once and in order; a deployment that was told it is
\* current finds all its files there as long as the database lives, and one
\* that was refused disagrees with it.
HistoryIsOneDeployments ==
  /\ history # <<>> => \E m \in Migrator : IsPrefix(history, Local[m])
  /\ \A m \in Migrator :
       /\ report[m] = "current" => IsPrefix(Local[m], history)
       /\ report[m] = "history_error" => ~IsPrefix(history, Local[m])
=============================================================================
