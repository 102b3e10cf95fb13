------------------------- MODULE ProjectionDatabase -------------------------
(***************************************************************************)
(* The projection store on a database that deployments migrate while it is *)
(* in use.  The first migration makes the tables; before it takes effect   *)
(* every statement that names one fails.                                   *)
(***************************************************************************)
EXTENDS SchemaMigrations, ProjectionStore

CONSTANT Initial  \* 0001_initial.sql

databaseVars == <<migrationVars, storeVars>>

DatabaseInit == MigrationInit /\ StoreInit

Migrated == Initial \in ToSet(history)

\* The advisory locks of puts and of migrations are different keys.
Migrate == MigrationNext /\ UNCHANGED storeVars

Use == Migrated /\ StoreNext /\ UNCHANGED migrationVars

\* a call on a database without tables: connect, lock, the first SELECT fails
UseTooEarly ==
  /\ ~Migrated
  /\ \E c \in Client : StartJob(c) \/ TakeLock(c) \/ FailCall(c)
  /\ UNCHANGED migrationVars

DatabaseNext == Migrate \/ Use \/ UseTooEarly
DatabaseSpec == DatabaseInit /\ [][DatabaseNext]_databaseVars
=============================================================================
