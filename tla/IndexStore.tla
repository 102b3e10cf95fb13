----------------------------- MODULE IndexStore -----------------------------
(***************************************************************************)
(* retrieval/postgres.py and the commands of retrieval/runtime.py on it:   *)
(* processes that publish knowledge indexes and switch aliases, each store *)
(* call a transaction of its own under one advisory lock.                  *)
(*                                                                         *)
(* The name of an index is the hash of its content, so an index stands for *)
(* its content here.  A transaction sees what is committed and what it     *)
(* wrote itself, each statement anew (READ COMMITTED, the default); its    *)
(* rows appear together at the commit.  A connection may be lost at any    *)
(* moment, that of the commit included.                                    *)
(***************************************************************************)
EXTENDS Naturals, FiniteSets

CONSTANTS
  Command,        \* runs of a command, or of a program that uses the store
  Index,
  NoIndex,
  Alias,
  NoAlias,
  NoCommand,
  Tasks,           \* what a command may have been asked to do
  OriginOf,       \* where each index comes from
  NamespaceOf,    \* "current", "staging", "test" or "free" of each alias
  Entries,        \* rows of an index beside its version row
  Lossy,          \* indexes whose vectors are no float32 values
  Preloaded,      \* indexes stored before
  MaxFaults       \* bound on lost connections

Kind ==
  {"publish", "publish-evaluation", "alias-switch", "alias-resolve", "store.publish"}
Origin == {"publication", "evaluation_fixture", "golden_fixture"}
Publishing(j) == j.kind \in {"publish", "publish-evaluation", "store.publish"}

ASSUME StoreAssumption ==
  /\ NoIndex \notin Index /\ NoAlias \notin Alias /\ NoCommand \notin Command
  /\ OriginOf \in [Index -> Origin]
  /\ NamespaceOf \in [Alias -> {"current", "staging", "test", "free"}]
  /\ Entries \in Nat \ {0}
  /\ Preloaded \subseteq Index \ Lossy
  /\ MaxFaults \in Nat

\* the parser and the index builders: publish makes publication indexes with
\* float32 vectors, and only a switch needs an alias at all costs
ASSUME JobAssumption ==
  /\ Tasks \subseteq [kind : Kind, index : Index, alias : Alias \cup {NoAlias},
                     evaluation : BOOLEAN, golden : BOOLEAN]
  /\ \A j \in Tasks :
       /\ j.kind = "publish" =>
            OriginOf[j.index] = "publication" /\ ~j.evaluation /\ ~j.golden
       /\ j.kind = "publish-evaluation" =>
            OriginOf[j.index] = "evaluation_fixture" /\ ~j.golden
       /\ j.kind \in {"publish", "publish-evaluation"} => j.index \notin Lossy
       /\ j.kind \in {"alias-switch", "alias-resolve"} => j.alias # NoAlias

VARIABLES
  versions,   \* committed rows of retrieval.index_versions
  entries,    \* per index, committed rows of retrieval.index_entries
  alias,      \* committed rows of retrieval.current_index_aliases
  holder,     \* who holds the advisory lock of the store
  job,        \* per command, what it does
  storeCall,  \* the store call it is at
  at,         \* and where it is inside that call
  wrote,      \* the rows its transaction wrote
  found,      \* the index its transaction read from the alias
  changed,    \* what its last publish() or switch_alias() returned
  exit,       \* "running", "ok" or why it failed
  faults

vars == <<versions, entries, alias, holder, job, storeCall, at, wrote, found, changed, exit, faults>>

Nothing == [version |-> FALSE, entries |-> 0, alias |-> NoIndex]
InTransaction == {"locked", "absent", "writing", "reading", "upsert", "commit"}
Failures ==
  {"refused", "missing", "policy", "corrupt", "mismatch", "rejected", "lost"}

\* the type invariant
TypeOK ==
  /\ versions \subseteq Index
  /\ entries \in [Index -> 0 .. Entries]
  /\ alias \in [Alias -> Index \cup {NoIndex}]
  /\ holder \in Command \cup {NoCommand}
  /\ job \in [Command -> Tasks]
  /\ storeCall \in [Command -> {"start", "publish", "load", "switch", "resolve", "done"}]
  /\ at \in [Command -> {"begin"} \cup InTransaction]
  /\ wrote \in [Command -> [version : BOOLEAN, entries : 0 .. Entries,
                            alias : Index \cup {NoIndex}]]
  /\ found \in [Command -> Index \cup {NoIndex}]
  /\ changed \in [Command -> BOOLEAN]
  /\ exit \in [Command -> {"running", "ok"} \cup Failures]
  /\ faults \in 0 .. MaxFaults
-----------------------------------------------------------------------------
(* Policies, in the program and again in the database.                     *)

\* the prefixes would be reserved for fixtures, but not against publications
AliasAccepts_NoReserved(a, i) ==
  CASE OriginOf[i] = "publication" -> TRUE
    [] OriginOf[i] = "evaluation_fixture" -> NamespaceOf[a] = "staging"
    [] OriginOf[i] = "golden_fixture" -> NamespaceOf[a] = "test"

\* _validate_alias_origin
AliasAccepts(a, i) ==
  CASE OriginOf[i] = "publication" -> NamespaceOf[a] \in {"current", "free"}
    [] OriginOf[i] = "evaluation_fixture" -> NamespaceOf[a] = "staging"
    [] OriginOf[i] = "golden_fixture" -> NamespaceOf[a] = "test"

\* _validate_fixture_activation: publish-evaluation opts in by itself
Activated(j) ==
  /\ OriginOf[j.index] = "evaluation_fixture" =>
       j.evaluation \/ j.kind = "publish-evaluation"
  /\ OriginOf[j.index] = "golden_fixture" => j.golden

\* the trigger enforce_alias_origin_namespace and the foreign key of the alias
DatabaseAccepts(a, i) ==
  /\ i \in versions
  /\ NamespaceOf[a] = "current" => OriginOf[i] = "publication"
  /\ OriginOf[i] = "publication" => NamespaceOf[a] \notin {"staging", "test"}
  /\ OriginOf[i] = "evaluation_fixture" => NamespaceOf[a] = "staging"
  /\ OriginOf[i] = "golden_fixture" => NamespaceOf[a] = "test"

\* the CLI's own checks of arguments, before and after it read the index
ArgumentsRefused(j) ==
  /\ j.kind = "publish-evaluation"
  /\ \/ ~j.evaluation
     \/ j.alias # NoAlias /\ NamespaceOf[j.alias] # "staging"
SwitchRefused(j) ==
  /\ j.kind = "alias-switch"
  /\ OriginOf[j.index] = "evaluation_fixture"
  /\ NamespaceOf[j.alias] # "staging"
-----------------------------------------------------------------------------
FirstCall(j) ==
  CASE Publishing(j) -> "publish"
    [] j.kind = "alias-switch" -> "load"
    [] j.kind = "alias-resolve" -> "resolve"

NextCall(j, c) ==
  CASE c = "publish" -> IF j.kind = "store.publish" THEN "done" ELSE "load"
    [] c = "load" -> IF j.alias = NoAlias THEN "done" ELSE "switch"
    [] c = "switch" -> "resolve"
    [] c = "resolve" -> "done"

Init ==
  /\ versions = Preloaded
  /\ entries = [i \in Index |-> IF i \in Preloaded THEN Entries ELSE 0]
  /\ alias = [a \in Alias |-> NoIndex]
  /\ holder = NoCommand
  /\ job \in [Command -> Tasks]
  /\ storeCall = [c \in Command |-> "start"]
  /\ at = [c \in Command |-> "begin"]
  /\ wrote = [c \in Command |-> Nothing]
  /\ found = [c \in Command |-> NoIndex]
  /\ changed = [c \in Command |-> FALSE]
  /\ exit = [c \in Command |-> "running"]
  /\ faults = 0

tables == <<versions, entries, alias>>

IsAt(c, calling, place) ==
  /\ exit[c] = "running"
  /\ storeCall[c] = calling
  /\ at[c] = place

MoveTo(c, place) == at' = [at EXCEPT ![c] = place]

\* a transaction lock goes with its transaction
FreeLock(c) == holder' = IF holder = c THEN NoCommand ELSE holder

Stop(c, why) ==
  /\ exit' = [exit EXCEPT ![c] = why]
  /\ storeCall' = [storeCall EXCEPT ![c] = "done"]
  /\ at' = [at EXCEPT ![c] = "begin"]
  /\ wrote' = [wrote EXCEPT ![c] = Nothing]

\* an exception inside the transaction: it is rolled back
Fail(c, why) ==
  /\ Stop(c, why)
  /\ FreeLock(c)
  /\ UNCHANGED <<tables, job, found, changed, faults>>
-----------------------------------------------------------------------------
Start(c) ==
  /\ exit[c] = "running" /\ storeCall[c] = "start"
  /\ IF ArgumentsRefused(job[c])
     THEN Fail(c, "refused")
     ELSE /\ storeCall' = [storeCall EXCEPT ![c] = FirstCall(job[c])]
          /\ UNCHANGED <<tables, holder, job, at, wrote, found, changed, exit, faults>>

\* the store would rely on the primary keys alone
Lock_None(c) ==
  /\ exit[c] = "running" /\ storeCall[c] # "start" /\ at[c] = "begin"
  /\ MoveTo(c, "locked")
  /\ UNCHANGED <<tables, holder, job, storeCall, wrote, found, changed, exit, faults>>

\* connect, BEGIN, pg_advisory_xact_lock
Lock(c) ==
  /\ exit[c] = "running" /\ storeCall[c] # "start" /\ at[c] = "begin"
  /\ holder = NoCommand
  /\ holder' = c
  /\ MoveTo(c, "locked")
  /\ UNCHANGED <<tables, job, storeCall, wrote, found, changed, exit, faults>>

\* _load: the rows are there, as many as the version row says; then the
\* content is what its hash says, for nobody can change a row
Visible(c, i) ==
  IF i \in versions THEN entries[i]
  ELSE IF wrote[c].version THEN wrote[c].entries ELSE 0
Loads(i) == i \in versions /\ entries[i] = Entries
Unloadable(i) == IF i \in versions THEN "corrupt" ELSE "missing"

PublishLooks(c) ==
  LET i == job[c].index IN
  /\ IsAt(c, "publish", "locked")
  /\ IF i \notin versions
     THEN /\ MoveTo(c, "absent")
          /\ UNCHANGED <<tables, holder, job, storeCall, wrote, found, changed, exit, faults>>
     ELSE IF Loads(i)
     THEN /\ changed' = [changed EXCEPT ![c] = FALSE]
          /\ MoveTo(c, "commit")
          /\ UNCHANGED <<tables, holder, job, storeCall, wrote, found, exit, faults>>
     ELSE Fail(c, "corrupt")

\* the connection would commit every statement of its own
InsertVersionRow_Autocommit(c) ==
  /\ IsAt(c, "publish", "absent")
  /\ versions' = versions \cup {job[c].index}
  /\ wrote' = [wrote EXCEPT ![c].version = TRUE]
  /\ MoveTo(c, "writing")
  /\ UNCHANGED <<entries, alias, holder, job, storeCall, found, changed, exit, faults>>

\* the primary key makes it wait for, or clash with, another writer's row
InsertVersionRow(c) ==
  LET i == job[c].index IN
  /\ IsAt(c, "publish", "absent")
  /\ \A d \in Command \ {c} : ~(wrote[d].version /\ job[d].index = i)
  /\ IF i \in versions
     THEN Fail(c, "rejected")
     ELSE /\ wrote' = [wrote EXCEPT ![c].version = TRUE]
          /\ MoveTo(c, "writing")
          /\ UNCHANGED <<tables, holder, job, storeCall, found, changed, exit, faults>>

InsertEntry(c) ==
  /\ IsAt(c, "publish", "writing")
  /\ wrote[c].entries < Entries
  /\ wrote' = [wrote EXCEPT ![c].entries = @ + 1]
  /\ MoveTo(c, IF wrote[c].entries + 1 = Entries THEN "reading" ELSE "writing")
  /\ UNCHANGED <<tables, holder, job, storeCall, found, changed, exit, faults>>

ReadBack(c) ==
  LET i == job[c].index IN
  /\ IsAt(c, "publish", "reading")
  /\ IF Visible(c, i) # Entries \/ i \in Lossy
     THEN Fail(c, "corrupt")
     ELSE /\ changed' = [changed EXCEPT ![c] = TRUE]
          /\ MoveTo(c, "commit")
          /\ UNCHANGED <<tables, holder, job, storeCall, wrote, found, exit, faults>>

Load(c) ==
  LET i == job[c].index IN
  /\ IsAt(c, "load", "locked")
  /\ IF Loads(i)
     THEN /\ MoveTo(c, "commit")
          /\ UNCHANGED <<tables, holder, job, storeCall, wrote, found, changed, exit, faults>>
     ELSE Fail(c, Unloadable(i))

SwitchLooks(c) ==
  LET i == job[c].index
      a == job[c].alias
  IN
  /\ IsAt(c, "switch", "locked")
  /\ IF ~Loads(i) THEN Fail(c, Unloadable(i))
     ELSE IF ~(AliasAccepts(a, i) /\ Activated(job[c])) THEN Fail(c, "policy")
     ELSE /\ changed' = [changed EXCEPT ![c] = alias[a] # i]
          /\ MoveTo(c, IF alias[a] = i THEN "commit" ELSE "upsert")
          /\ UNCHANGED <<tables, holder, job, storeCall, wrote, found, exit, faults>>

\* ON CONFLICT DO UPDATE waits for another writer of the row
UpsertAlias(c) ==
  LET i == job[c].index
      a == job[c].alias
  IN
  /\ IsAt(c, "switch", "upsert")
  /\ \A d \in Command \ {c} : ~(wrote[d].alias # NoIndex /\ job[d].alias = a)
  /\ IF DatabaseAccepts(a, i)
     THEN /\ wrote' = [wrote EXCEPT ![c].alias = i]
          /\ MoveTo(c, "commit")
          /\ UNCHANGED <<tables, holder, job, storeCall, found, changed, exit, faults>>
     ELSE Fail(c, "rejected")

ResolveAlias(c) ==
  LET a == job[c].alias
      i == alias[a]
  IN
  /\ IsAt(c, "resolve", "locked")
  /\ IF i = NoIndex THEN Fail(c, "missing")
     ELSE IF ~Loads(i) THEN Fail(c, Unloadable(i))
     ELSE IF ~AliasAccepts(a, i) THEN Fail(c, "policy")
     ELSE /\ found' = [found EXCEPT ![c] = i]
          /\ MoveTo(c, "commit")
          /\ UNCHANGED <<tables, holder, job, storeCall, wrote, changed, exit, faults>>
-----------------------------------------------------------------------------
\* the upsert would move every alias there is
Apply_EveryAlias(c) ==
  LET i == job[c].index
      w == wrote[c]
  IN
  /\ versions' = versions \cup (IF w.version THEN {i} ELSE {})
  /\ entries' = [entries EXCEPT ![i] = IF w.version THEN w.entries ELSE @]
  /\ alias' = [a \in Alias |-> IF w.alias # NoIndex THEN w.alias ELSE alias[a]]

\* the rows of the transaction become visible, all at once
Apply(c) ==
  LET i == job[c].index
      w == wrote[c]
  IN
  /\ versions' = versions \cup (IF w.version THEN {i} ELSE {})
  /\ entries' = [entries EXCEPT ![i] = IF w.version THEN w.entries ELSE @]
  /\ alias' = [a \in Alias |-> IF w.alias # NoIndex /\ a = job[c].alias THEN w.alias ELSE alias[a]]

\* what the command makes of the call's result
Verdict(c) ==
  IF storeCall[c] = "load" /\ SwitchRefused(job[c]) THEN "refused"
  ELSE IF storeCall[c] = "resolve" /\ job[c].kind # "alias-resolve" /\ found[c] # job[c].index
       THEN "mismatch"
  ELSE IF NextCall(job[c], storeCall[c]) = "done" THEN "ok"
  ELSE "running"

Commit(c) ==
  /\ exit[c] = "running" /\ at[c] = "commit"
  /\ Apply(c)
  /\ FreeLock(c)
  /\ exit' = [exit EXCEPT ![c] = Verdict(c)]
  /\ storeCall' = [storeCall EXCEPT ![c] = IF Verdict(c) = "running" THEN NextCall(job[c], @) ELSE "done"]
  /\ MoveTo(c, "begin")
  /\ wrote' = [wrote EXCEPT ![c] = Nothing]
  /\ UNCHANGED <<job, found, changed, faults>>

\* the command would connect again, for ever
ConnectionLost_Retries(c) ==
  /\ exit[c] = "running" /\ storeCall[c] # "start" /\ at[c] # "begin"
  /\ MoveTo(c, "begin")
  /\ wrote' = [wrote EXCEPT ![c] = Nothing]
  /\ FreeLock(c)
  /\ UNCHANGED <<tables, job, storeCall, found, changed, exit, faults>>

\* the server rolls the transaction back, or was never reached
ConnectionLost(c) ==
  /\ exit[c] = "running" /\ storeCall[c] # "start"
  /\ faults < MaxFaults
  /\ faults' = faults + 1
  /\ Stop(c, "lost")
  /\ FreeLock(c)
  /\ UNCHANGED <<tables, job, found, changed>>

\* the server commits, but its answer never arrives
AnswerLost(c) ==
  /\ exit[c] = "running" /\ at[c] = "commit"
  /\ faults < MaxFaults
  /\ faults' = faults + 1
  /\ Apply(c)
  /\ Stop(c, "lost")
  /\ FreeLock(c)
  /\ UNCHANGED <<job, found, changed>>

Step(c) ==
  \/ Start(c) \/ Lock(c)
  \/ PublishLooks(c) \/ InsertVersionRow(c) \/ InsertEntry(c) \/ ReadBack(c)
  \/ Load(c)
  \/ SwitchLooks(c) \/ UpsertAlias(c)
  \/ ResolveAlias(c)
  \/ Commit(c)

Finished ==
  /\ \A c \in Command : exit[c] # "running"
  /\ UNCHANGED vars

Next ==
  \/ \E c \in Command : Step(c) \/ ConnectionLost(c) \/ AnswerLost(c)
  \/ Finished

Spec == Init /\ [][Next]_vars

\* a command keeps running, and PostgreSQL grants the lock to its waiters in turn
Fairness == \A c \in Command : WF_vars(Step(c)) /\ SF_vars(Lock(c))
FairSpec == Spec /\ Fairness
-----------------------------------------------------------------------------
\* A version of which some entries are missing is never seen by anyone, and
\* entries never without their version: publish() inserts them one by one,
\* and the connection may go in between (postgres.py, publish).
NoPartialVersion ==
  \A i \in Index : entries[i] = IF i \in versions THEN Entries ELSE 0

Admits(namespace, origin) ==
  \/ origin = "publication" /\ namespace \in {"current", "free"}
  \/ origin = "evaluation_fixture" /\ namespace = "staging"
  \/ origin = "golden_fixture" /\ namespace = "test"
Entitled == {e \in Alias \X Index : Admits(NamespaceOf[e[1]], OriginOf[e[2]])}
Published == {i \in Index : Loads(i)}
Promise == INSTANCE AliasStore WITH published <- Published

\* The store implements its promise: published indexes stay, and an alias
\* moves alone and only to a published index of an origin that its namespace
\* admits (switch_alias, _validate_alias_origin and the trigger).
KeepsPromise == Promise!Spec

\* What publish() and switch_alias() return is what their transaction did:
\* True when the table changed by it, False when it was so already.  And an
\* alias moves to a fixture only in the name of a command that asked for this
\* alias, this index and opted in to this kind of fixture
\* (_validate_fixture_activation; the database does not repeat this check).
MovesAreAskedForAndTold ==
  [][/\ \A c \in Command : at[c] = "commit" /\ at'[c] = "begin" /\ exit'[c] # "lost" =>
          LET i == job[c].index IN
          /\ storeCall[c] = "publish" => (changed[c] <=> i \notin versions) /\ i \in versions'
          /\ storeCall[c] = "switch" => (changed[c] <=> alias[job[c].alias] # i)
                                    /\ alias'[job[c].alias] = i
     /\ \A a \in Alias : alias'[a] # alias[a] =>
          \E c \in Command :
            /\ job[c].alias = a /\ job[c].index = alias'[a]
            /\ OriginOf[alias'[a]] = "evaluation_fixture" => job[c].evaluation
            /\ OriginOf[alias'[a]] = "golden_fixture" => job[c].golden]_vars

\* A command does not fail without a cause of its own: the database rejects
\* nothing the program let through, stored indexes are never corrupt, an index
\* just published is found, and an alias just switched resolves to something
\* else only if another command switched it to that in between.
FailuresAreExplained ==
  \A c \in Command :
    /\ exit[c] # "rejected"
    /\ exit[c] = "corrupt" => job[c].index \in Lossy
    /\ exit[c] = "missing" => ~Publishing(job[c])
    /\ exit[c] = "policy" => /\ ~(AliasAccepts(job[c].alias, job[c].index) /\ Activated(job[c]))
                             /\ job[c].kind # "publish-evaluation"
    /\ exit[c] = "mismatch" =>
         \E d \in Command \ {c} : /\ job[d].index = found[c]
                                  /\ job[d].alias = job[c].alias
                                  /\ job[d].kind # "alias-resolve"

\* Every command ends: whoever holds the lock lets go of it, alive or not.
EveryCommandEnds == \A c \in Command : <>(exit[c] # "running")
=============================================================================
