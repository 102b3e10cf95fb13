--------------------------- MODULE ProjectionStore ---------------------------
(***************************************************************************)
(* The store of document projections: projection_postgres.py and the       *)
(* triggers of migrations/document_projection/0001_initial.sql.            *)
(*                                                                         *)
(* Store clients put whole projections, each in one transaction under an   *)
(* advisory lock, and load them without a lock in four statements.  SQL    *)
(* clients write to the tables directly and are held by the triggers only. *)
(* Transactions read what is committed when each statement begins (READ    *)
(* COMMITTED).  The row of a version is locked by whoever writes to the    *)
(* version, so one transaction at a time has uncommitted rows of it.       *)
(*                                                                         *)
(* An atom's row is its identity and whether it is unclassified; a payload *)
(* is the projection whose record it holds.  TRUNCATE and clients that     *)
(* drop the triggers are left out.                                         *)
(***************************************************************************)
EXTENDS Naturals, FiniteSets

CONSTANTS
  Client,       \* store clients
  Sql,          \* SQL clients
  Jobs,         \* per store client, what it may do: [op, id]
  Projection,
  LockOf,       \* the advisory lock of each projection: 64 bits of its hash
  Atom, Binding,
  RecordOf,     \* [atoms, bindings, links] of each projection
  Tampered,     \* bound: the projections SQL clients write to
  Metadata,     \* bound: version rows they insert: [payload, atoms, bindings]
  AtomRow,      \* bound: atom rows they insert: [id, unclassified]
  NoClient

ASSUME ClientAssumption ==
  /\ Client \cap Sql = {} /\ NoClient \notin Client \cup Sql
  /\ Jobs \in [Client -> SUBSET [op : {"put", "load"}, id : Projection]]
  /\ Tampered \subseteq Projection
  /\ AtomRow \subseteq [id : Atom, unclassified : BOOLEAN]
  /\ Metadata \subseteq [payload : Projection, atoms : Nat, bindings : Nat]

\* What a record is refused without when it is made: its categories bind
\* atoms of the document that are not also set aside.
ASSUME RecordAssumption ==
  \A p \in Projection :
    LET record == RecordOf[p] IN
    /\ record.atoms \subseteq [id : Atom, unclassified : BOOLEAN] /\ IsFiniteSet(record.atoms)
    /\ record.bindings \subseteq Binding /\ IsFiniteSet(record.bindings)
    /\ record.links \subseteq record.bindings \X {a \in Atom : [id |-> a, unclassified |-> FALSE] \in record.atoms}

VARIABLES
  db,        \* what is committed, per projection
  writer,    \* who holds the row of each version
  draft,     \* the version as the writer's transaction sees it
  advisory,  \* who holds each advisory lock
  call,      \* what each store client is doing
  told       \* the last answer of each store client

storeVars == <<db, writer, draft, advisory, call, told>>

Absent == [exists |-> FALSE]

\* foreign is history: did an SQL client have a hand in it?
Version(payload, atoms, bindings, foreign) ==
  [exists |-> TRUE, payload |-> payload, atoms |-> atoms, bindings |-> bindings,
   sealed |-> FALSE, foreign |-> foreign, atomRows |-> {}, bindingRows |-> {}, links |-> {}]

StoreInit ==
  /\ db = [p \in Projection |-> Absent]
  /\ writer = [p \in Projection |-> NoClient]
  /\ draft = [p \in Projection |-> Absent]
  /\ advisory = [k \in {LockOf[p] : p \in Projection} |-> NoClient]
  /\ call = [c \in Client |-> [at |-> "idle"]]
  /\ told = [c \in Client |-> [answer |-> "nothing"]]

-----------------------------------------------------------------------------
(* Transactions and triggers.                                              *)

\* the version as client x's next statement would lock it
Seen(x, p) == IF writer[p] = x THEN draft[p] ELSE db[p]
Lockable(x, p) == writer[p] \in {x, NoClient}

Write(x, p, version) ==
  /\ writer' = [writer EXCEPT ![p] = x]
  /\ draft' = [draft EXCEPT ![p] = version]

Held(x) == {p \in Projection : writer[p] = x}

Release(x) ==
  /\ writer' = [p \in Projection |-> IF writer[p] = x THEN NoClient ELSE writer[p]]
  /\ draft' = [p \in Projection |-> IF writer[p] = x THEN Absent ELSE draft[p]]
  /\ advisory' = [k \in DOMAIN advisory |-> IF advisory[k] = x THEN NoClient ELSE advisory[k]]

CommitRows(x) == db' = [p \in Projection |-> IF writer[p] = x THEN draft[p] ELSE db[p]]

\* Unique indexes: an uncommitted row of the same version or payload makes
\* the insert wait, a committed one makes it fail.
InsertWaits(x, p, payload) ==
  \E q \in Projection :
    writer[q] \notin {x, NoClient} /\ draft[q].exists /\ (q = p \/ draft[q].payload = payload)

InsertFails(x, p, payload) ==
  \E q \in Projection :
    Seen(x, q).exists /\ (q = p \/ Seen(x, q).payload = payload)

\* mutant: sealed versions take rows
RequireBuilding_Exists(x, p) == Lockable(x, p) /\ Seen(x, p).exists

\* require_building_projection(): SELECT state ... FOR UPDATE
RequireBuilding(x, p) ==
  Lockable(x, p) /\ Seen(x, p).exists /\ ~Seen(x, p).sealed

Bound(v, a) == \E link \in v.links : link[2] = a

\* mutant: counts alone
SealGuard_CountsOnly(v) ==
  Cardinality(v.atomRows) = v.atoms /\ Cardinality(v.bindingRows) = v.bindings

\* guard_projection_version_mutation(): the counts, and every atom is either
\* bound or unclassified, and every binding binds something
SealGuard(v) ==
  /\ Cardinality(v.atomRows) = v.atoms /\ Cardinality(v.bindingRows) = v.bindings
  /\ \A row \in v.atomRows : row.unclassified <=> ~Bound(v, row.id)
  /\ \A b \in v.bindingRows : \E link \in v.links : link[1] = b

-----------------------------------------------------------------------------
(* Store clients.                                                          *)

Whole(p) ==
  [exists |-> TRUE, payload |-> p, sealed |-> TRUE, foreign |-> FALSE,
   atoms |-> Cardinality(RecordOf[p].atoms), bindings |-> Cardinality(RecordOf[p].bindings),
   atomRows |-> RecordOf[p].atoms, bindingRows |-> RecordOf[p].bindings,
   links |-> RecordOf[p].links]

\* the readiness and metadata a version must show, to put and to a load
SameMetadata(p, v) ==
  v.sealed /\ v.payload = p /\ v.atoms = Whole(p).atoms /\ v.bindings = Whole(p).bindings

\* _reconstruct_record(): every row is the record's, and none is missing
Rebuilds(p, v) ==
  /\ SameMetadata(p, v)
  /\ \A column \in {"atomRows", "bindingRows", "links"} : v[column] = Whole(p)[column]

Goto(c, label) == call' = [call EXCEPT ![c].at = label]
Answer(c, what) ==
  /\ told' = [told EXCEPT ![c] = [op |-> call[c].op, id |-> call[c].id, answer |-> what]]
  /\ call' = [call EXCEPT ![c] = [at |-> "idle"]]

StartJob(c) ==
  /\ call[c].at = "idle"
  /\ \E job \in Jobs[c] :
       call' = [call EXCEPT ![c] =
                  [at |-> IF job.op = "put" THEN "lock" ELSE "version", op |-> job.op, id |-> job.id]]
  /\ told' = [told EXCEPT ![c] = [answer |-> "nothing"]]
  /\ UNCHANGED <<db, writer, draft, advisory>>

\* mutant: the lock is not waited for
TakeLock_Shared(c) ==
  /\ call[c].at = "lock"
  /\ advisory' = [advisory EXCEPT ![LockOf[call[c].id]] = c]
  /\ Goto(c, "existing")
  /\ UNCHANGED <<db, writer, draft, told>>

\* _lock()
TakeLock(c) ==
  /\ call[c].at = "lock"
  /\ advisory[LockOf[call[c].id]] = NoClient
  /\ advisory' = [advisory EXCEPT ![LockOf[call[c].id]] = c]
  /\ Goto(c, "existing")
  /\ UNCHANGED <<db, writer, draft, told>>

\* An existing version must be the one that would have been stored.  A sealed
\* version no longer changes, so its comparison in four statements is one step.
FindExisting(c) ==
  /\ call[c].at = "existing"
  /\ LET p == call[c].id
         v == db[p]
     IN IF ~v.exists
        THEN Goto(c, "insert") /\ UNCHANGED <<writer, draft, advisory, told>>
        ELSE /\ Release(c)
             /\ Answer(c, IF ~SameMetadata(p, v) THEN "conflict"
                          ELSE IF Rebuilds(p, v) THEN "exists" ELSE "corrupt")
  /\ UNCHANGED db

\* The version's row, once no uncommitted one is in its way
InsertVersion(c) ==
  /\ call[c].at = "insert"
  /\ LET p == call[c].id IN
       /\ ~InsertWaits(c, p, p) /\ ~InsertFails(c, p, p)
       /\ Write(c, p, [Whole(p) EXCEPT !.sealed = FALSE, !.atomRows = {}, !.bindingRows = {},
                                       !.links = {}])
  /\ Goto(c, "rows")
  /\ UNCHANGED <<db, advisory, told>>

\* A row of the same identity or payload was committed after the lock was
\* taken: a database error like any other, named here for what caused it.
LoseInsert(c) ==
  /\ call[c].at = "insert"
  /\ ~InsertWaits(c, call[c].id, call[c].id) /\ InsertFails(c, call[c].id, call[c].id)
  /\ Release(c)
  /\ Answer(c, "unique_violation")
  /\ UNCHANGED db

\* The rows, the seal and the comparison with what was asked for, which no
\* other transaction can see or disturb before the commit.
FillAndSeal(c) ==
  /\ call[c].at = "rows"
  /\ LET p == call[c].id IN
       /\ SealGuard(Whole(p))
       /\ Write(c, p, Whole(p))
  /\ Goto(c, "commit")
  /\ UNCHANGED <<db, advisory, told>>

\* The answer to a commit may be lost.
CommitPut(c) ==
  /\ call[c].at = "commit"
  /\ CommitRows(c)
  /\ Release(c)
  /\ Answer(c, "stored") \/ Answer(c, "database_error")

\* A lock timeout, a unique violation, a statement that fails, a connection
\* that is lost: the transaction is rolled back.
FailCall(c) ==
  /\ call[c].at # "idle"
  /\ Release(c)
  /\ Answer(c, "database_error")
  /\ UNCHANGED db

\* _load(): four statements, each of which sees what is committed when it
\* begins.  Of what they return, whether it is the record's is all that counts.
ReadVersion(c) ==
  /\ call[c].at = "version"
  /\ LET p == call[c].id IN
       IF db[p].exists
       THEN /\ call' = [call EXCEPT ![c] =
                          [at |-> "atomRows", op |-> "load", id |-> p, agrees |-> SameMetadata(p, db[p])]]
            /\ UNCHANGED told
       ELSE Answer(c, "not_found")
  /\ UNCHANGED <<db, writer, draft, advisory>>

ReadRows(c, column, next) ==
  /\ call[c].at = column
  /\ LET p == call[c].id IN
       call' = [call EXCEPT ![c].at = next, ![c].agrees = @ /\ db[p][column] = Whole(p)[column]]
  /\ UNCHANGED <<db, writer, draft, advisory, told>>

ReadAtoms(c) == ReadRows(c, "atomRows", "bindingRows")
ReadBindings(c) == ReadRows(c, "bindingRows", "links")

\* the fourth statement and _reconstruct_record()
ReadLinks(c) ==
  /\ call[c].at = "links"
  /\ LET p == call[c].id IN
       Answer(c, IF call[c].agrees /\ db[p].links = Whole(p).links THEN "record" ELSE "corrupt")
  /\ UNCHANGED <<db, writer, draft, advisory>>

-----------------------------------------------------------------------------
(* SQL clients.                                                            *)

SqlInsertVersion(x, p) ==
  /\ \E row \in Metadata :
       /\ ~InsertWaits(x, p, row.payload) /\ ~InsertFails(x, p, row.payload)
       /\ Write(x, p, Version(row.payload, row.atoms, row.bindings, TRUE))
  /\ UNCHANGED <<db, advisory, call, told>>

\* a row of a table that require_building_projection() guards
SqlInsertRow(x, p, column, row) ==
  /\ RequireBuilding(x, p)
  /\ row \notin Seen(x, p)[column]
  /\ Write(x, p, [Seen(x, p) EXCEPT ![column] = @ \cup {row}, !.foreign = TRUE])
  /\ UNCHANGED <<db, advisory, call, told>>

SqlInsertAtom(x, p) ==
  \E row \in AtomRow :
    /\ RequireBuilding(x, p) => \A other \in Seen(x, p).atomRows : other.id # row.id
    /\ SqlInsertRow(x, p, "atomRows", row)

SqlInsertBinding(x, p) == \E b \in Binding : SqlInsertRow(x, p, "bindingRows", b)

\* foreign keys, and reject_unclassified_binding_atom()
SqlInsertLink(x, p) ==
  \E b \in Binding, a \in Atom :
    /\ RequireBuilding(x, p) =>
         /\ b \in Seen(x, p).bindingRows
         /\ [id |-> a, unclassified |-> FALSE] \in Seen(x, p).atomRows
    /\ SqlInsertRow(x, p, "links", <<b, a>>)

\* the one update the triggers allow
SqlSeal(x, p) ==
  /\ RequireBuilding(x, p)
  /\ SealGuard(Seen(x, p))
  /\ Write(x, p, [Seen(x, p) EXCEPT !.sealed = TRUE, !.foreign = TRUE])
  /\ UNCHANGED <<db, advisory, call, told>>

SqlCommit(x) ==
  /\ Held(x) # {}
  /\ CommitRows(x) /\ Release(x)
  /\ UNCHANGED <<call, told>>

\* rolled back: by the client, a failed statement or the deadlock detector
SqlAbort(x) ==
  /\ Held(x) # {}
  /\ Release(x)
  /\ UNCHANGED <<db, call, told>>

StoreNext ==
  \/ \E c \in Client :
       \/ StartJob(c) \/ TakeLock(c) \/ FindExisting(c) \/ InsertVersion(c) \/ LoseInsert(c)
       \/ FillAndSeal(c) \/ CommitPut(c) \/ FailCall(c)
       \/ ReadVersion(c) \/ ReadAtoms(c) \/ ReadBindings(c) \/ ReadLinks(c)
  \/ \E x \in Sql : SqlCommit(x) \/ SqlAbort(x)
  \/ \E x \in Sql, p \in Tampered :
       \/ SqlInsertVersion(x, p) \/ SqlInsertAtom(x, p) \/ SqlInsertBinding(x, p)
       \/ SqlInsertLink(x, p) \/ SqlSeal(x, p)

-----------------------------------------------------------------------------
(* Properties.                                                             *)

Answers(c) == call[c].at # "idle" /\ call'[c].at = "idle"
IsRecord(v, p) == v.exists /\ [v EXCEPT !.foreign = FALSE] = Whole(p)

\* An answer says what is in the database, whatever else runs: "stored" is
\* said by the commit that made an absent projection whole and by no other,
\* "exists" and a loaded record say that it is whole, everything that is
\* wrong with a version, or in the way of one, is an SQL client's doing, and
\* a put that failed left nothing or (its answer was lost) all of it.
AnswersAreTrue ==
  [][\A c \in Client : Answers(c) =>
       LET p == told'[c].id IN
       CASE told'[c].answer = "stored" -> ~db[p].exists /\ IsRecord(db'[p], p)
         [] told'[c].answer \in {"exists", "record"} -> IsRecord(db[p], p)
         [] told'[c].answer \in {"conflict", "corrupt"} -> db[p].foreign
         [] told'[c].answer = "unique_violation" -> \E q \in Projection : db[q].exists /\ db[q].foreign
         [] OTHER -> db'[p] = db[p] \/ (~db[p].exists /\ IsRecord(db'[p], p))]_storeVars

\* What is in the database stays: no step removes a version or one of its
\* rows, or changes its metadata, and a sealed version never changes at all.
HistoryOnlyGrows ==
  [][\A p \in Projection : db[p].exists =>
       /\ db'[p].exists
       /\ db[p].sealed => db'[p] = db[p]
       /\ <<db'[p].payload, db'[p].atoms, db'[p].bindings>> = <<db[p].payload, db[p].atoms, db[p].bindings>>
       /\ db[p].atomRows \subseteq db'[p].atomRows /\ db[p].bindingRows \subseteq db'[p].bindingRows
       /\ db[p].links \subseteq db'[p].links]_db

\* Every atom of a sealed version, whoever wrote it, is bound by a category or
\* set aside as unclassified, never both and never neither; every category
\* binds an atom of the version; no two versions hold one payload.
SealedIsClassified ==
  /\ \A p \in Projection : db[p].exists /\ db[p].sealed =>
       /\ {row.id : row \in {r \in db[p].atomRows : ~r.unclassified}} = {link[2] : link \in db[p].links}
       /\ db[p].bindingRows = {link[1] : link \in db[p].links}
       /\ Cardinality(db[p].atomRows) = db[p].atoms
  /\ \A p, q \in Projection :
       db[p].exists /\ db[q].exists /\ db[p].payload = db[q].payload => p = q
=============================================================================
