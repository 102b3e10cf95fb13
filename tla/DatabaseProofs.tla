---------------------------- MODULE DatabaseProofs ----------------------------
(***************************************************************************)
(* What the two PostgreSQL databases hold and say: the projections, for    *)
(* any number of store clients, SQL clients, projections and deployments,  *)
(* and the knowledge indexes, for any commands on them.                    *)
(***************************************************************************)
EXTENDS ProjectionDatabase, IndexStore, FiniteSetTheorems, SequenceTheorems, TLAPS

-----------------------------------------------------------------------------
(* Migrations.                                                             *)

File == UNION {ToSet(Local[m]) : m \in Migrator}

\* What a migration transaction has applied follows on from what is
\* committed, in the order of its own files.
MigrationInv ==
  /\ history \in Seq(File) /\ applied \in Seq(File)
  /\ report \in [Migrator -> {"none", "current", "history_error"}]
  /\ applied # <<>> =>
       /\ migrator \in Migrator
       /\ IsPrefix(history \o applied, Local[migrator])
  /\ HistoryIsOneDeployments

\* A prefix agrees with the whole at each of its places.
LEMMA PrefixMeans ==
  ASSUME NEW S, NEW s \in Seq(S), NEW t \in Seq(S)
  PROVE  IsPrefix(s, t) <=> Len(s) <= Len(t) /\ \A i \in 1..Len(s) : s[i] = t[i]
<1> SUFFICES ASSUME Len(s) <= Len(t)
             PROVE  SubSeq(s, 1, Len(s)) = SubSeq(t, 1, Len(s)) <=> \A i \in 1..Len(s) : s[i] = t[i]
  BY DEF IsPrefix
<1>1. Len(s) \in Nat /\ Len(t) \in Nat
  BY LenProperties
<1>2. SubSeq(s, 1, Len(s)) = s
  BY SubSeqFull
<1>3. \A i \in 1..Len(s) : t[i] \in S
  BY <1>1, ElementOfSeq
<1>4. SubSeq(t, 1, Len(s)) \in Seq(S)
  BY <1>1, <1>3, SubSeqProperties
<1>5. Len(SubSeq(t, 1, Len(s))) = Len(s) /\ \A i \in 1..Len(s) : SubSeq(t, 1, Len(s))[i] = t[i]
  BY <1>1, <1>3, SubSeqProperties
<1>6. (\A i \in 1..Len(s) : s[i] = t[i]) => s = SubSeq(t, 1, Len(s))
  BY <1>4, <1>5, SeqEqual
<1> QED
  BY <1>2, <1>5, <1>6

\* What is not a prefix does not become one by growing.
LEMMA PrefixOfPrefix ==
  ASSUME NEW S, NEW r \in Seq(S), NEW s \in Seq(S), NEW t \in Seq(S),
         IsPrefix(r, s), IsPrefix(s, t)
  PROVE  IsPrefix(r, t)
<1>1. Len(r) \in Nat /\ Len(s) \in Nat /\ Len(t) \in Nat
  BY LenProperties
<1>2. Len(r) <= Len(s) /\ \A i \in 1..Len(r) : r[i] = s[i]
  BY PrefixMeans
<1>3. Len(s) <= Len(t) /\ \A i \in 1..Len(s) : s[i] = t[i]
  BY PrefixMeans
<1> QED
  BY <1>1, <1>2, <1>3, PrefixMeans

\* The next file after a prefix makes a longer prefix.
LEMMA PrefixGrows ==
  ASSUME NEW S, NEW s \in Seq(S), NEW t \in Seq(S), NEW all \in Seq(S),
         IsPrefix(s \o t, all), Len(s) + Len(t) < Len(all)
  PROVE  /\ Append(t, all[Len(s) + Len(t) + 1]) \in Seq(S)
         /\ IsPrefix(s \o Append(t, all[Len(s) + Len(t) + 1]), all)
<1> DEFINE e == all[Len(s) + Len(t) + 1]
           more == Append(t, e)
           st == s \o t
           longer == s \o more
<1>1. Len(s) \in Nat /\ Len(t) \in Nat /\ Len(all) \in Nat
  BY LenProperties
<1>2. e \in S
  BY <1>1, ElementOfSeq
<1>3. /\ more \in Seq(S) /\ Len(more) = Len(t) + 1
      /\ \A i \in 1..Len(t) : more[i] = t[i]
      /\ more[Len(t) + 1] = e
  BY <1>2, AppendProperties
<1>4. /\ st \in Seq(S) /\ Len(st) = Len(s) + Len(t) /\ IsPrefix(st, all)
      /\ \A i \in 1..Len(s) + Len(t) : st[i] = IF i <= Len(s) THEN s[i] ELSE t[i - Len(s)]
  BY ConcatProperties
<1> HIDE DEF more, st
<1>5. /\ longer \in Seq(S) /\ Len(longer) = Len(s) + Len(more)
      /\ \A i \in 1..Len(s) + Len(more) : longer[i] = IF i <= Len(s) THEN s[i] ELSE more[i - Len(s)]
  BY <1>3, ConcatProperties
<1> HIDE DEF longer
<1>6. \A i \in 1..Len(s) + Len(t) : st[i] = all[i]
  <2>1. \A i \in 1..Len(st) : st[i] = all[i]
    BY <1>4, PrefixMeans
  <2> QED
    BY <1>4, <2>1
<1>7. ASSUME NEW i \in 1..Len(longer) PROVE longer[i] = all[i]
  <2>1. CASE i = Len(s) + Len(t) + 1
    BY <1>1, <1>3, <1>5, <2>1
  <2>2. CASE i \in 1..Len(s)
    <3>1. i \in 1..Len(s) + Len(t) /\ i \in 1..Len(s) + Len(more) /\ i <= Len(s)
      BY <1>1, <1>3, <2>2
    <3> QED
      BY <1>4, <1>5, <1>6, <3>1
  <2>3. CASE i \in Len(s) + 1..Len(s) + Len(t)
    <3>1. /\ i \in 1..Len(s) + Len(t) /\ i \in 1..Len(s) + Len(more)
          /\ ~(i <= Len(s)) /\ i - Len(s) \in 1..Len(t)
      BY <1>1, <1>3, <2>3
    <3>2. longer[i] = more[i - Len(s)] /\ st[i] = t[i - Len(s)]
      BY <1>4, <1>5, <3>1
    <3> QED
      BY <1>3, <1>6, <3>1, <3>2
  <2> QED
    BY <1>1, <1>3, <1>5, <2>1, <2>2, <2>3
<1>8. Len(longer) <= Len(all)
  BY <1>1, <1>3, <1>5
<1>9. IsPrefix(longer, all)
  BY <1>5, <1>7, <1>8, PrefixMeans
<1> QED
  BY <1>3, <1>9 DEF more, longer

\* All of a list is that list.
LEMMA PrefixOfFullLength ==
  ASSUME NEW S, NEW s \in Seq(S), NEW t \in Seq(S), IsPrefix(s, t), Len(s) = Len(t)
  PROVE  s = t
  BY PrefixMeans, SeqEqual

LEMMA PrefixOfItself ==
  ASSUME NEW S, NEW s \in Seq(S)
  PROVE  IsPrefix(s, s)
<1>1. Len(s) \in Nat
  BY LenProperties
<1> QED
  BY <1>1, PrefixMeans

LEMMA LocalFiles ==
  ASSUME NEW m \in Migrator
  PROVE  Local[m] \in Seq(File)
<1>1. ToSet(Local[m]) \subseteq File
  BY DEF File
<1> QED
  BY <1>1, LocalAssumption, SeqMonotonic

LEMMA MigrationInvInit == MigrationInit => MigrationInv
<1> SUFFICES ASSUME MigrationInit PROVE MigrationInv
  OBVIOUS
<1>1. <<>> \in Seq(File)
  BY EmptySeq
<1>2. \A m \in Migrator : report[m] = "none"
  BY DEF MigrationInit
<1> QED
  BY <1>1, <1>2 DEF MigrationInit, MigrationInv, HistoryIsOneDeployments

LEMMA MigrationInvNext == MigrationInv /\ [MigrationNext]_migrationVars => MigrationInv'
<1> SUFFICES ASSUME MigrationInv, [MigrationNext]_migrationVars PROVE MigrationInv'
  OBVIOUS
<1>1. CASE UNCHANGED migrationVars
  BY <1>1 DEF migrationVars, MigrationInv, HistoryIsOneDeployments
<1>2. ASSUME NEW m \in Migrator,
             LockSchema(m) \/ RejectHistory(m) \/ FailMigration(m)
      PROVE  MigrationInv'
  <2>1. /\ history' = history /\ applied' \in {applied, <<>>}
        /\ applied' = <<>> \/ migrator' = migrator
        /\ report' \in [Migrator -> {"none", "current", "history_error"}]
    <3>1. CASE LockSchema(m)
      <4>1. applied = <<>>
        <5>1. migrator \notin Migrator
          BY <3>1, MigratorAssumption DEF LockSchema
        <5> QED
          BY <5>1 DEF MigrationInv
      <4> QED
        BY <3>1, <4>1 DEF LockSchema, Say, MigrationInv
    <3>2. CASE RejectHistory(m)
      BY <3>2 DEF RejectHistory, Unlock, Say, MigrationInv
    <3>3. CASE FailMigration(m)
      BY <3>3 DEF FailMigration, Unlock, MigrationInv
    <3> QED
      BY <1>2, <3>1, <3>2, <3>3
  <2>2. \A n \in Migrator : report'[n] \in {report[n], "none"} \/ (report'[n] = "history_error" /\ ~IsPrefix(history, Local[n]))
    BY <1>2 DEF LockSchema, RejectHistory, FailMigration, Say, ValidHistory, MigrationInv
  <2>3. HistoryIsOneDeployments'
    BY <2>1, <2>2 DEF HistoryIsOneDeployments, MigrationInv
  <2>4. <<>> \in Seq(File)
    BY EmptySeq
  <2> QED
    BY <2>1, <2>3, <2>4 DEF MigrationInv
<1>3. ASSUME NEW m \in Migrator, ApplyNext(m) PROVE MigrationInv'
  <2> DEFINE more == Append(applied, Local[m][Len(history) + Len(applied) + 1])
  <2>1. /\ history' = history /\ migrator' = migrator /\ report' = report /\ migrator = m
        /\ IsPrefix(history, Local[m]) /\ Len(history) + Len(applied) < Len(Local[m])
        /\ applied' = more
    BY <1>3 DEF ApplyNext, ValidHistory
  <2>2. IsPrefix(history \o applied, Local[m])
    <3>1. CASE applied = <<>>
      BY <2>1, <3>1, ConcatEmptySeq DEF MigrationInv
    <3> QED
      BY <2>1, <3>1 DEF MigrationInv
  <2>3. more \in Seq(File) /\ IsPrefix(history \o more, Local[m])
    BY <2>1, <2>2, LocalFiles, PrefixGrows DEF MigrationInv
  <2> QED
    BY <2>1, <2>3 DEF MigrationInv, HistoryIsOneDeployments
<1>4. ASSUME NEW m \in Migrator, CommitMigrations(m) PROVE MigrationInv'
  <2>1. /\ migrator = m /\ IsPrefix(history, Local[m])
        /\ Len(history) + Len(applied) = Len(Local[m])
        /\ history' = history \o applied /\ applied' = <<>>
        /\ report' = [report EXCEPT ![m] = "current"] \/ report' = report
    BY <1>4 DEF CommitMigrations, ValidHistory, Unlock, Say
  <2>2. Local[m] \in Seq(File) /\ history \in Seq(File) /\ applied \in Seq(File)
    BY LocalFiles DEF MigrationInv
  <2>3. IsPrefix(history \o applied, Local[m])
    <3>1. CASE applied = <<>>
      BY <2>1, <2>2, <3>1, ConcatEmptySeq
    <3> QED
      BY <2>1, <3>1 DEF MigrationInv
  <2>4. history \o applied \in Seq(File) /\ Len(history \o applied) = Len(history) + Len(applied)
    BY <2>2, ConcatProperties
  <2>5. history' = Local[m]
    BY <2>1, <2>2, <2>3, <2>4, PrefixOfFullLength
  <2>6. IsPrefix(history, history') /\ IsPrefix(Local[m], history')
    BY <2>1, <2>2, <2>5, PrefixOfItself
  <2>7. report' \in [Migrator -> {"none", "current", "history_error"}]
    BY <2>1 DEF MigrationInv
  <2>8. ASSUME NEW n \in Migrator
        PROVE  /\ report'[n] = "current" => IsPrefix(Local[n], history')
               /\ report'[n] = "history_error" => ~IsPrefix(history', Local[n])
    <3>0. Local[n] \in Seq(File) /\ history' \in Seq(File)
      BY <2>2, <2>5, LocalFiles
    <3>1. CASE n = m /\ report'[n] = "current"
      BY <2>6, <3>1
    <3>2. CASE report'[n] = report[n]
      <4>1. CASE report[n] = "current"
        <5>1. IsPrefix(Local[n], history)
          BY <4>1 DEF MigrationInv, HistoryIsOneDeployments
        <5> QED
          BY <2>2, <2>6, <3>0, <3>2, <4>1, <5>1, PrefixOfPrefix
      <4>2. CASE report[n] = "history_error"
        <5>1. ~IsPrefix(history, Local[n])
          BY <4>2 DEF MigrationInv, HistoryIsOneDeployments
        <5>2. ~IsPrefix(history', Local[n])
          BY <2>2, <2>6, <3>0, <5>1, PrefixOfPrefix
        <5> QED
          BY <3>2, <4>2, <5>2
      <4> QED
        BY <3>2, <4>1, <4>2
    <3> QED
      BY <2>1, <3>1, <3>2 DEF MigrationInv
  <2>9. HistoryIsOneDeployments'
    BY <2>5, <2>8, <2>2, PrefixOfItself DEF HistoryIsOneDeployments
  <2>10. <<>> \in Seq(File)
    BY EmptySeq
  <2> QED
    BY <2>1, <2>2, <2>5, <2>7, <2>9, <2>10 DEF MigrationInv
<1> QED
  BY <1>1, <1>2, <1>3, <1>4 DEF MigrationNext

LEMMA MigrationInvariance == DatabaseSpec => []MigrationInv
<1>1. DatabaseInit => MigrationInv
  BY MigrationInvInit DEF DatabaseInit
<1>2. [DatabaseNext]_databaseVars => [MigrationNext]_migrationVars
  BY DEF DatabaseNext, databaseVars, Migrate, Use, UseTooEarly
<1> QED
  BY <1>1, <1>2, MigrationInvNext, PTL DEF DatabaseSpec

\* Whatever deployments do and however they fail, the database is one that a
\* single deployment could have made, and their answers about it stay true.
THEOREM OneDeployment == DatabaseSpec => []HistoryIsOneDeployments
<1>1. MigrationInv => HistoryIsOneDeployments
  BY DEF MigrationInv
<1> QED
  BY <1>1, MigrationInvariance, PTL

-----------------------------------------------------------------------------
(* The rows of a version.                                                  *)

VersionRecord ==
  [exists : {TRUE}, payload : Projection, atoms : Nat, bindings : Nat,
   sealed : BOOLEAN, foreign : BOOLEAN,
   atomRows : SUBSET [id : Atom, unclassified : BOOLEAN],
   bindingRows : SUBSET Binding, links : SUBSET (Binding \X Atom)]

\* the foreign keys of the links, and that no link binds an atom set aside
Keyed(v) ==
  \A link \in v.links :
    link[1] \in v.bindingRows /\ [id |-> link[2], unclassified |-> FALSE] \in v.atomRows

\* What the triggers and keys leave of a version, whoever wrote it
Lawful(v) == v \in VersionRecord /\ Keyed(v) /\ (v.sealed => SealGuard(v))

\* What may become of a version that is not sealed
Extends(v, w) ==
  /\ w.payload = v.payload /\ w.atoms = v.atoms /\ w.bindings = v.bindings
  /\ v.atomRows \subseteq w.atomRows /\ v.bindingRows \subseteq w.bindingRows
  /\ v.links \subseteq w.links

-----------------------------------------------------------------------------
(* The database.                                                           *)

\* a version as it will be if every transaction commits
Latest(p) == IF writer[p] = NoClient THEN db[p] ELSE draft[p]

\* A draft exists, and may only add to an unsealed version.
DraftOK(p) ==
  writer[p] # NoClient =>
    /\ Lawful(draft[p])
    /\ db[p].exists => ~db[p].sealed /\ Extends(db[p], draft[p])
    /\ writer[p] \in Sql => draft[p].foreign

CommittedOK(p) ==
  db[p].exists => Lawful(db[p]) /\ (db[p].foreign \/ db[p] = Whole(p))

DatabaseInv ==
  /\ db \in [Projection -> VersionRecord \cup {Absent}]
  /\ draft \in [Projection -> VersionRecord \cup {Absent}]
  /\ writer \in [Projection -> Client \cup Sql \cup {NoClient}]
  /\ \A p \in Projection : CommittedOK(p) /\ DraftOK(p)
  /\ \A p, q \in Projection :
       Latest(p).exists /\ Latest(q).exists /\ Latest(p).payload = Latest(q).payload => p = q

-----------------------------------------------------------------------------
(* The clients.                                                            *)

Call ==
  [at : {"idle"}]
  \cup [at : {"lock", "existing", "insert", "rows", "commit"}, op : {"put"}, id : Projection]
  \cup [at : {"version"}, op : {"load"}, id : Projection]
  \cup [at : {"atomRows", "bindingRows", "links"}, op : {"load"}, id : Projection, agrees : BOOLEAN]

\* the version as InsertVersion writes it
Begun(p) ==
  [Whole(p) EXCEPT !.sealed = FALSE, !.atomRows = {}, !.bindingRows = {}, !.links = {}]

\* A put holds the advisory lock from its second statement on, and the row of
\* its projection once it has inserted it; a projection it has not found is
\* still absent, or an SQL client made it.
PutOK(c) ==
  /\ call[c].at \in {"existing", "insert", "rows", "commit"} => advisory[LockOf[call[c].id]] = c
  /\ call[c].at = "insert" /\ db[call[c].id].exists => db[call[c].id].foreign
  /\ call[c].at \in {"rows", "commit"} =>
       /\ writer[call[c].id] = c /\ ~db[call[c].id].exists
       /\ draft[call[c].id] = (IF call[c].at = "rows" THEN Begun(call[c].id) ELSE Whole(call[c].id))
  /\ \A p \in Projection : writer[p] = c => call[c].at \in {"rows", "commit"} /\ call[c].id = p

\* What a load has found to agree is sealed, and so stays; what it has found
\* to differ has an SQL client's hand in it.
LoadOK(c) ==
  call[c].at \in {"atomRows", "bindingRows", "links"} =>
    LET p == call[c].id
        v == db[call[c].id]
    IN /\ v.exists
       /\ ~call[c].agrees => v.foreign
       /\ call[c].agrees =>
            /\ SameMetadata(p, v)
            /\ call[c].at # "atomRows" => v.atomRows = Whole(p).atomRows
            /\ call[c].at = "links" => v.bindingRows = Whole(p).bindingRows

ClientInv ==
  /\ call \in [Client -> Call]
  /\ advisory \in [{LockOf[p] : p \in Projection} -> Client \cup Sql \cup {NoClient}]
  /\ \A c \in Client : PutOK(c) /\ LoadOK(c)

StoreInv == DatabaseInv /\ ClientInv
-----------------------------------------------------------------------------
(* Lemmas about versions.                                                  *)

LEMMA RecordIsKeyed ==
  ASSUME NEW p \in Projection, NEW link \in RecordOf[p].links
  PROVE  /\ link[1] \in RecordOf[p].bindings /\ link \in Binding \X Atom
         /\ [id |-> link[2], unclassified |-> FALSE] \in RecordOf[p].atoms
<1> DEFINE Bindable == {a \in Atom : [id |-> a, unclassified |-> FALSE] \in RecordOf[p].atoms}
<1>1. RecordOf[p].bindings \subseteq Binding
  BY RecordAssumption
<1>2. RecordOf[p].links \subseteq RecordOf[p].bindings \X Bindable
  BY RecordAssumption
<1>3. link \in RecordOf[p].bindings \X Bindable
  BY <1>2
<1>4. link[1] \in RecordOf[p].bindings /\ link[2] \in Bindable /\ link = <<link[1], link[2]>>
  BY <1>3
<1> QED
  BY <1>1, <1>4

LEMMA WholeIsARecord ==
  ASSUME NEW p \in Projection
  PROVE  /\ Whole(p) \in VersionRecord /\ Keyed(Whole(p))
         /\ Whole(p).exists /\ Whole(p).sealed /\ ~Whole(p).foreign /\ Whole(p).payload = p
<1>1. /\ RecordOf[p].atoms \subseteq [id : Atom, unclassified : BOOLEAN]
      /\ RecordOf[p].bindings \subseteq Binding
      /\ Cardinality(RecordOf[p].atoms) \in Nat /\ Cardinality(RecordOf[p].bindings) \in Nat
  BY RecordAssumption, FS_CardinalityType
<1>2. RecordOf[p].links \subseteq Binding \X Atom
  BY RecordIsKeyed
<1>3. Whole(p) \in VersionRecord
  BY <1>1, <1>2 DEF Whole, VersionRecord
<1>4. Keyed(Whole(p))
  BY RecordIsKeyed DEF Whole, Keyed
<1> QED
  BY <1>3, <1>4 DEF Whole

LEMMA WholeIsLawful ==
  ASSUME NEW p \in Projection, SealGuard(Whole(p))
  PROVE  Lawful(Whole(p)) /\ Whole(p).exists
  BY WholeIsARecord DEF Lawful

\* a version without rows, as a put or an SQL client begins it
LEMMA BegunIsLawful ==
  ASSUME NEW p \in Projection
  PROVE  /\ Lawful(Begun(p)) /\ Begun(p).exists /\ ~Begun(p).sealed
         /\ Begun(p).payload = p /\ Extends(Begun(p), Whole(p))
<1> DEFINE v == Whole(p)
           w == [v EXCEPT !.sealed = FALSE, !.atomRows = {}, !.bindingRows = {}, !.links = {}]
<1>1. v \in VersionRecord /\ v.exists /\ v.payload = p
  BY WholeIsARecord
<1> HIDE DEF v
<1>2. /\ w \in VersionRecord /\ w.exists /\ ~w.sealed
      /\ w.payload = p /\ w.links = {} /\ w.atomRows = {} /\ w.bindingRows = {}
      /\ w.atoms = v.atoms /\ w.bindings = v.bindings
  BY <1>1 DEF VersionRecord
<1> HIDE DEF w
<1>3. Lawful(w) /\ Extends(w, v)
  BY <1>1, <1>2 DEF Lawful, Keyed, Extends
<1>4. w = Begun(p)
  BY DEF Begun, v, w
<1> QED
  BY <1>2, <1>3, <1>4 DEF v

LEMMA NewVersionIsLawful ==
  ASSUME NEW row \in Metadata
  PROVE  LET v == Version(row.payload, row.atoms, row.bindings, TRUE) IN
         Lawful(v) /\ v.exists /\ v.foreign /\ v.payload = row.payload
  BY ClientAssumption DEF Version, Lawful, VersionRecord, Keyed

LEMMA AbsentIsNone == ~Absent.exists
  BY DEF Absent

\* A row more of an unsealed version: the version it was, and more.
LEMMA RowIsLawful ==
  ASSUME NEW v \in VersionRecord, Keyed(v), ~v.sealed,
         NEW column \in {"atomRows", "bindingRows", "links"}, NEW row,
         column = "atomRows" => row \in [id : Atom, unclassified : BOOLEAN],
         column = "bindingRows" => row \in Binding,
         column = "links" => /\ row \in Binding \X Atom
                             /\ row[1] \in v.bindingRows
                             /\ [id |-> row[2], unclassified |-> FALSE] \in v.atomRows
  PROVE  LET w == [v EXCEPT ![column] = @ \cup {row}, !.foreign = TRUE] IN
         Lawful(w) /\ w.exists /\ w.foreign /\ Extends(v, w) /\ ~w.sealed
<1> DEFINE w == [v EXCEPT ![column] = @ \cup {row}, !.foreign = TRUE]
<1>1. CASE column = "atomRows"
  <2>1. /\ w \in VersionRecord /\ w.exists = v.exists /\ w.foreign = TRUE /\ w.sealed = v.sealed
        /\ w.payload = v.payload /\ w.atoms = v.atoms /\ w.bindings = v.bindings
        /\ w.atomRows = v.atomRows \cup {row} /\ w.bindingRows = v.bindingRows /\ w.links = v.links
    BY <1>1 DEF VersionRecord
  <2> HIDE DEF w
  <2> QED
    BY <2>1 DEF Lawful, Keyed, Extends, VersionRecord
<1>2. CASE column = "bindingRows"
  <2>1. /\ w \in VersionRecord /\ w.exists = v.exists /\ w.foreign = TRUE /\ w.sealed = v.sealed
        /\ w.payload = v.payload /\ w.atoms = v.atoms /\ w.bindings = v.bindings
        /\ w.atomRows = v.atomRows /\ w.bindingRows = v.bindingRows \cup {row} /\ w.links = v.links
    BY <1>2 DEF VersionRecord
  <2> HIDE DEF w
  <2> QED
    BY <2>1 DEF Lawful, Keyed, Extends, VersionRecord
<1>3. CASE column = "links"
  <2>1. /\ w \in VersionRecord /\ w.exists = v.exists /\ w.foreign = TRUE /\ w.sealed = v.sealed
        /\ w.payload = v.payload /\ w.atoms = v.atoms /\ w.bindings = v.bindings
        /\ w.atomRows = v.atomRows /\ w.bindingRows = v.bindingRows /\ w.links = v.links \cup {row}
    BY <1>3 DEF VersionRecord
  <2> HIDE DEF w
  <2> QED
    BY <1>3, <2>1 DEF Lawful, Keyed, Extends, VersionRecord
<1> QED
  BY <1>1, <1>2, <1>3

\* the seal, where the trigger allows it
LEMMA SealIsLawful ==
  ASSUME NEW v \in VersionRecord, Keyed(v), SealGuard(v)
  PROVE  LET w == [v EXCEPT !.sealed = TRUE, !.foreign = TRUE] IN
         Lawful(w) /\ w.exists /\ w.foreign /\ Extends(v, w)
<1> DEFINE w == [v EXCEPT !.sealed = TRUE, !.foreign = TRUE]
<1>1. /\ w \in VersionRecord /\ w.exists = v.exists /\ w.foreign = TRUE
      /\ w.payload = v.payload /\ w.atoms = v.atoms /\ w.bindings = v.bindings
      /\ w.atomRows = v.atomRows /\ w.bindingRows = v.bindingRows /\ w.links = v.links
  BY DEF VersionRecord
<1> HIDE DEF w
<1>2. SealGuard(w)
  BY <1>1 DEF SealGuard, Bound
<1>3. Lawful(w) /\ w.exists /\ w.foreign /\ Extends(v, w)
  BY <1>1, <1>2 DEF Lawful, Keyed, Extends, VersionRecord
<1> QED
  BY <1>3 DEF w

LEMMA ExtendsMore ==
  ASSUME NEW u, NEW v, NEW w, Extends(u, v), Extends(v, w)
  PROVE  Extends(u, w)
  BY DEF Extends

-----------------------------------------------------------------------------
(* Lemmas about transactions.                                              *)

\* What a transaction sees of a version it may lock is the latest version.
LEMMA SeenIsLatest ==
  ASSUME NEW x, x # NoClient, NEW q, writer[q] \in {x, NoClient}
  PROVE  Seen(x, q) = Latest(q)
  BY DEF Seen, Latest

LEMMA LatestIsLawful ==
  ASSUME DatabaseInv, NEW q \in Projection, Latest(q).exists
  PROVE  Lawful(Latest(q))
  BY DEF DatabaseInv, Latest, CommittedOK, DraftOK

\* One transaction writes one version, new or more of what it was, and its
\* payload is nobody else's.
LEMMA WriteKeepsDatabase ==
  ASSUME DatabaseInv, NEW x \in Client \cup Sql, NEW p \in Projection, NEW version,
         Write(x, p, version), db' = db, Lawful(version),
         db[p].exists => ~db[p].sealed /\ Extends(db[p], version),
         x \in Sql => version.foreign,
         \A q \in Projection : q # p /\ Latest(q).exists => Latest(q).payload # version.payload
  PROVE  DatabaseInv'
<1>1. x # NoClient
  BY ClientAssumption
<1>2. /\ writer' = [writer EXCEPT ![p] = x] /\ draft' = [draft EXCEPT ![p] = version]
      /\ version \in VersionRecord /\ db' = db
  BY DEF Write, Lawful
<1>3. writer' \in [Projection -> Client \cup Sql \cup {NoClient}]
  BY <1>2 DEF DatabaseInv
<1>4. draft' \in [Projection -> VersionRecord \cup {Absent}]
  BY <1>2 DEF DatabaseInv
<1>5. /\ writer'[p] = x /\ draft'[p] = version
      /\ \A q \in Projection \ {p} : writer'[q] = writer[q] /\ draft'[q] = draft[q]
  BY <1>2 DEF DatabaseInv
<1>6. ASSUME NEW q \in Projection PROVE CommittedOK(q)' /\ DraftOK(q)'
  <2>1. CommittedOK(q)'
    BY <1>2 DEF DatabaseInv, CommittedOK
  <2>2. CASE q = p
    BY <1>2, <1>5, <2>1, <2>2 DEF DraftOK
  <2>3. CASE q # p
    BY <1>2, <1>5, <2>1, <2>3 DEF DatabaseInv, DraftOK
  <2> QED
    BY <2>2, <2>3
<1>7. Latest(p)' = version /\ \A q \in Projection \ {p} : Latest(q)' = Latest(q)
  BY <1>1, <1>2, <1>5 DEF Latest
<1>8. \A q, r \in Projection :
        Latest(q)'.exists /\ Latest(r)'.exists /\ Latest(q)'.payload = Latest(r)'.payload => q = r
  BY <1>7 DEF DatabaseInv
<1> QED
  BY <1>2, <1>3, <1>4, <1>6, <1>8 DEF DatabaseInv

\* A transaction ends: with what it drafted, or without.
LEMMA EndKeepsDatabase ==
  ASSUME DatabaseInv, NEW x \in Client \cup Sql, Release(x),
         \/ db' = db
         \/ /\ CommitRows(x)
            /\ \A p \in Projection : writer[p] = x => draft[p].foreign \/ draft[p] = Whole(p)
  PROVE  DatabaseInv'
<1>1. x # NoClient
  BY ClientAssumption
<1>2. /\ writer' = [p \in Projection |-> IF writer[p] = x THEN NoClient ELSE writer[p]]
      /\ draft' = [p \in Projection |-> IF writer[p] = x THEN Absent ELSE draft[p]]
  BY DEF Release
<1>3. \A p \in Projection :
        \/ writer[p] = x /\ db'[p] \in {db[p], draft[p]} /\ writer'[p] = NoClient
        \/ writer[p] # x /\ db'[p] = db[p] /\ writer'[p] = writer[p] /\ draft'[p] = draft[p]
  BY <1>2 DEF CommitRows
<1>4. /\ db' \in [Projection -> VersionRecord \cup {Absent}]
      /\ draft' \in [Projection -> VersionRecord \cup {Absent}]
      /\ writer' \in [Projection -> Client \cup Sql \cup {NoClient}]
  BY <1>2 DEF DatabaseInv, CommitRows
<1>5. ASSUME NEW p \in Projection PROVE CommittedOK(p)' /\ DraftOK(p)'
  <2>1. CommittedOK(p) /\ DraftOK(p)
    BY DEF DatabaseInv
  <2>2. CASE writer[p] = x /\ db'[p] = draft[p]
    <3>1. db[p] = draft[p] \/ draft[p].foreign \/ draft[p] = Whole(p)
      BY <2>2 DEF CommitRows
    <3>2. Lawful(draft[p]) /\ writer'[p] = NoClient
      BY <1>1, <1>3, <2>1, <2>2 DEF DraftOK
    <3> QED
      BY <2>1, <2>2, <3>1, <3>2 DEF CommittedOK, DraftOK
  <2>3. CASE writer[p] = x /\ db'[p] = db[p]
    BY <1>3, <2>1, <2>3 DEF CommittedOK, DraftOK
  <2>4. CASE writer[p] # x
    BY <1>3, <2>1, <2>4 DEF CommittedOK, DraftOK
  <2> QED
    BY <1>3, <2>2, <2>3, <2>4
<1>6. ASSUME NEW p \in Projection, Latest(p)'.exists
      PROVE  Latest(p).exists /\ Latest(p).payload = Latest(p)'.payload
  <2>1. CommittedOK(p) /\ DraftOK(p)
    BY DEF DatabaseInv
  <2>2. CASE writer[p] = x
    <3>1. Latest(p)' = db'[p] /\ Latest(p) = draft[p] /\ db'[p] \in {db[p], draft[p]}
      BY <1>1, <1>3, <2>2 DEF Latest
    <3>2. Lawful(draft[p]) /\ (db[p].exists => Extends(db[p], draft[p]))
      BY <1>1, <2>1, <2>2 DEF DraftOK
    <3> QED
      BY <1>6, <3>1, <3>2 DEF Lawful, VersionRecord, Extends
  <2>3. CASE writer[p] # x
    BY <1>3, <1>6, <2>3 DEF Latest
  <2> QED
    BY <2>2, <2>3
<1>7. \A p, q \in Projection :
        Latest(p)'.exists /\ Latest(q)'.exists /\ Latest(p)'.payload = Latest(q)'.payload => p = q
  BY <1>6 DEF DatabaseInv
<1> QED
  BY <1>4, <1>5, <1>7 DEF DatabaseInv

LEMMA StutterKeepsDatabase ==
  ASSUME DatabaseInv, UNCHANGED <<db, writer, draft>>
  PROVE  DatabaseInv'
  BY DEF DatabaseInv, CommittedOK, DraftOK, Latest

\* A version that may be inserted is nowhere in the database, committed or not.
LEMMA InsertIsNew ==
  ASSUME DatabaseInv, NEW x \in Client \cup Sql, NEW p \in Projection, NEW payload,
         ~InsertWaits(x, p, payload), ~InsertFails(x, p, payload)
  PROVE  /\ ~db[p].exists
         /\ writer[p] \in {x, NoClient}
         /\ \A q \in Projection : Latest(q).exists => q # p /\ Latest(q).payload # payload
<1>1. x # NoClient
  BY ClientAssumption
<1>2. ASSUME NEW q \in Projection, writer[q] \notin {x, NoClient}
      PROVE  draft[q].exists /\ q # p /\ draft[q].payload # payload /\ Latest(q) = draft[q]
  <2>1. draft[q].exists
    BY <1>2 DEF DatabaseInv, DraftOK, Lawful, VersionRecord
  <2> QED
    BY <1>2, <2>1 DEF InsertWaits, Latest
<1>3. ASSUME NEW q \in Projection, writer[q] \in {x, NoClient}, Latest(q).exists
      PROVE  q # p /\ Latest(q).payload # payload
  <2>1. Seen(x, q) = Latest(q)
    BY <1>1, <1>3, SeenIsLatest
  <2> QED
    BY <1>3, <2>1 DEF InsertFails
<1>4. ASSUME db[p].exists PROVE Latest(p).exists
  BY <1>4 DEF DatabaseInv, DraftOK, Latest, Lawful, VersionRecord
<1> QED
  BY <1>2, <1>3, <1>4

-----------------------------------------------------------------------------
(* Lemmas about clients.                                                   *)

\* What becomes of a committed version
Grows(p) ==
  db[p].exists =>
    /\ db'[p].exists /\ Extends(db[p], db'[p])
    /\ db[p].sealed => db'[p] = db[p]
    /\ db[p].foreign => db'[p].foreign

\* A step of client x leaves alone what other clients hold, and commits
\* nothing but what x has drafted.
OwnStep(x) ==
  /\ \A d \in Client \ {x} : call'[d] = call[d]
  /\ \A k \in DOMAIN advisory :
       advisory'[k] = advisory[k] \/ (advisory[k] \in {x, NoClient} /\ advisory'[k] \in {x, NoClient})
  /\ \A p \in Projection :
       \/ writer'[p] = writer[p] /\ draft'[p] = draft[p] /\ db'[p] = db[p]
       \/ writer[p] \in {x, NoClient} /\ writer'[p] \in {x, NoClient}
  /\ \A p \in Projection : db'[p] = db[p] \/ (writer[p] = x /\ db'[p] = draft[p])

LEMMA CommittedGrows ==
  ASSUME StoreInv, NEW x \in Client \cup Sql, NEW p \in Projection,
         db'[p] = db[p] \/ (writer[p] = x /\ db'[p] = draft[p])
  PROVE  Grows(p)
<1>1. CASE db'[p] = db[p]
  BY <1>1 DEF Grows, Extends
<1>2. CASE writer[p] = x /\ db'[p] = draft[p]
  <2>1. x # NoClient
    BY ClientAssumption
  <2>2. /\ Lawful(draft[p]) /\ (db[p].exists => ~db[p].sealed /\ Extends(db[p], draft[p]))
        /\ x \in Sql => draft[p].foreign
    BY <1>2, <2>1 DEF StoreInv, DatabaseInv, DraftOK
  <2>3. x \in Client => ~db[p].exists
    BY <1>2 DEF StoreInv, ClientInv, PutOK
  <2> QED
    BY <1>2, <2>2, <2>3 DEF Grows, Lawful, VersionRecord
<1> QED
  BY <1>1, <1>2

\* The invariant of a put or a load is out of the others' reach.
LEMMA OthersAreKept ==
  ASSUME StoreInv, NEW x \in Client \cup Sql, OwnStep(x), NEW d \in Client, d # x
  PROVE  PutOK(d)' /\ LoadOK(d)'
<1>1. d # NoClient /\ call'[d] = call[d] /\ call[d] \in Call /\ PutOK(d) /\ LoadOK(d)
  BY ClientAssumption DEF OwnStep, StoreInv, ClientInv
<1>2. \A p \in Projection :
        /\ Grows(p)
        /\ writer'[p] = d <=> writer[p] = d
        /\ writer[p] = d => draft'[p] = draft[p] /\ db'[p] = db[p]
        /\ advisory[LockOf[p]] = d => advisory'[LockOf[p]] = d
  BY <1>1, CommittedGrows DEF OwnStep, StoreInv, ClientInv
<1>3. ASSUME NEW p \in Projection, advisory[LockOf[p]] = d, ~db[p].exists, db'[p].exists
      PROVE  db'[p].foreign
  <2>1. writer[p] = x /\ db'[p] = draft[p]
    BY <1>3 DEF OwnStep
  <2>2. x \notin Client
    <3>1. x \in Client => advisory[LockOf[p]] = x
      BY <2>1 DEF StoreInv, ClientInv, PutOK
    <3> QED
      BY <1>3, <3>1
  <2> QED
    BY <2>1, <2>2, ClientAssumption DEF StoreInv, DatabaseInv, DraftOK
<1>4. call[d].at # "idle" => call[d].id \in Projection
  BY <1>1 DEF Call
<1>5. PutOK(d)'
  <2>1. call[d].at \in {"existing", "insert", "rows", "commit"} => advisory'[LockOf[call[d].id]] = d
    BY <1>1, <1>2, <1>4 DEF PutOK
  <2>2. call[d].at = "insert" /\ db'[call[d].id].exists => db'[call[d].id].foreign
    <3> SUFFICES ASSUME call[d].at = "insert", db'[call[d].id].exists PROVE db'[call[d].id].foreign
      OBVIOUS
    <3>1. CASE db[call[d].id].exists
      BY <1>1, <1>2, <1>4, <3>1 DEF PutOK, Grows
    <3>2. CASE ~db[call[d].id].exists
      BY <1>1, <1>3, <1>4, <3>2 DEF PutOK
    <3> QED
      BY <3>1, <3>2
  <2>3. call[d].at \in {"rows", "commit"} =>
          /\ writer'[call[d].id] = d /\ ~db'[call[d].id].exists
          /\ draft'[call[d].id] = (IF call[d].at = "rows" THEN Begun(call[d].id) ELSE Whole(call[d].id))
    BY <1>1, <1>2, <1>4 DEF PutOK
  <2>4. \A p \in Projection : writer'[p] = d => call[d].at \in {"rows", "commit"} /\ call[d].id = p
    BY <1>1, <1>2 DEF PutOK
  <2> QED
    BY <1>1, <2>1, <2>2, <2>3, <2>4 DEF PutOK, Begun, Whole
<1>6. LoadOK(d)'
  <2> SUFFICES ASSUME call[d].at \in {"atomRows", "bindingRows", "links"} PROVE LoadOK(d)'
    BY <1>1 DEF LoadOK
  <2>1. Grows(call[d].id)
    BY <1>2, <1>4
  <2>2. CASE call[d].agrees
    BY <1>1, <2>1, <2>2 DEF LoadOK, Grows, SameMetadata, Whole
  <2>3. CASE ~call[d].agrees
    BY <1>1, <2>1, <2>3 DEF LoadOK, Grows
  <2> QED
    BY <2>2, <2>3
<1> QED
  BY <1>5, <1>6

\* A client that holds no version has nothing to lose.
LEMMA IdleIsOK ==
  ASSUME NEW c \in Client, call'[c] = [at |-> "idle"],
         \A p \in Projection : writer'[p] # c
  PROVE  PutOK(c)' /\ LoadOK(c)'
  BY DEF PutOK, LoadOK

-----------------------------------------------------------------------------
(* Every step keeps the invariant.                                         *)

\* What is left to show of a step of client x
LEMMA StepKeepsInv ==
  ASSUME StoreInv, NEW x \in Client \cup Sql, OwnStep(x), DatabaseInv',
         call' \in [Client -> Call],
         advisory' \in [{LockOf[p] : p \in Projection} -> Client \cup Sql \cup {NoClient}],
         x \in Client => PutOK(x)' /\ LoadOK(x)'
  PROVE  StoreInv'
<1>1. \A d \in Client : PutOK(d)' /\ LoadOK(d)'
  BY OthersAreKept
<1> QED
  BY <1>1 DEF StoreInv, ClientInv

LEMMA StoreInvInit == StoreInit => StoreInv
<1> SUFFICES ASSUME StoreInit PROVE StoreInv
  OBVIOUS
<1>1. /\ \A p \in Projection : db[p] = Absent /\ writer[p] = NoClient /\ draft[p] = Absent
      /\ \A c \in Client : call[c].at = "idle" /\ call[c] \in Call /\ c # NoClient
  BY ClientAssumption DEF StoreInit, Call
<1>2. DatabaseInv
  BY <1>1, AbsentIsNone DEF StoreInit, DatabaseInv, CommittedOK, DraftOK, Latest
<1>3. \A c \in Client : PutOK(c) /\ LoadOK(c)
  BY <1>1 DEF PutOK, LoadOK
<1>4. call \in [Client -> Call]
  BY <1>1 DEF StoreInit
<1>5. advisory \in [{LockOf[p] : p \in Projection} -> Client \cup Sql \cup {NoClient}]
  BY DEF StoreInit
<1> QED
  BY <1>2, <1>3, <1>4, <1>5 DEF StoreInv, ClientInv

LEMMA ReleaseIsOwn ==
  ASSUME StoreInv, NEW x \in Client \cup Sql, Release(x), db' = db \/ CommitRows(x),
         \A d \in Client \ {x} : call'[d] = call[d]
  PROVE  /\ OwnStep(x)
         /\ advisory' \in [{LockOf[p] : p \in Projection} -> Client \cup Sql \cup {NoClient}]
         /\ \A p \in Projection : writer'[p] # x
<1>1. x # NoClient
  BY ClientAssumption
<1>2. \A k \in DOMAIN advisory :
        advisory'[k] = advisory[k] \/ (advisory[k] \in {x, NoClient} /\ advisory'[k] \in {x, NoClient})
  BY DEF Release
<1>3. \A p \in Projection :
        /\ writer'[p] # x
        /\ \/ writer'[p] = writer[p] /\ draft'[p] = draft[p] /\ db'[p] = db[p]
           \/ writer[p] \in {x, NoClient} /\ writer'[p] \in {x, NoClient}
        /\ db'[p] = db[p] \/ (writer[p] = x /\ db'[p] = draft[p])
  BY <1>1 DEF Release, CommitRows
<1>4. advisory' \in [{LockOf[p] : p \in Projection} -> Client \cup Sql \cup {NoClient}]
  BY DEF Release, StoreInv, ClientInv
<1> QED
  BY <1>2, <1>3, <1>4 DEF OwnStep

LEMMA AnswerIsOwn ==
  ASSUME StoreInv, NEW c \in Client, NEW what, Answer(c, what)
  PROVE  /\ call' \in [Client -> Call] /\ call'[c] = [at |-> "idle"]
         /\ \A d \in Client \ {c} : call'[d] = call[d]
  BY DEF Answer, StoreInv, ClientInv, Call

\* A put that ends, however it ends
LEMMA EndedPutKeeps ==
  ASSUME StoreInv, NEW c \in Client, NEW what, Answer(c, what), Release(c),
         db' = db \/ (CommitRows(c) /\ call[c].at = "commit")
  PROVE  StoreInv'
<1>1. \A p \in Projection : writer[p] = c /\ call[c].at = "commit" => draft[p] = Whole(p)
  BY DEF StoreInv, ClientInv, PutOK
<1>2. DatabaseInv'
  BY <1>1, EndKeepsDatabase DEF StoreInv
<1>3. /\ OwnStep(c) /\ \A p \in Projection : writer'[p] # c
      /\ advisory' \in [{LockOf[p] : p \in Projection} -> Client \cup Sql \cup {NoClient}]
  BY AnswerIsOwn, ReleaseIsOwn
<1>4. PutOK(c)' /\ LoadOK(c)'
  BY <1>3, AnswerIsOwn, IdleIsOK
<1> QED
  BY <1>2, <1>3, <1>4, AnswerIsOwn, StepKeepsInv

\* A step that only reads
LEMMA ReadKeeps ==
  ASSUME StoreInv, NEW c \in Client, UNCHANGED <<db, writer, draft, advisory>>,
         call' \in [Client -> Call], \A d \in Client \ {c} : call'[d] = call[d],
         call[c].at \notin {"existing", "insert", "rows", "commit"},
         call'[c].at \notin {"existing", "insert", "rows", "commit"},
         LoadOK(c)'
  PROVE  StoreInv'
<1>1. DatabaseInv'
  BY StutterKeepsDatabase DEF StoreInv
<1>2. OwnStep(c)
  BY DEF OwnStep
<1>3. PutOK(c)'
  BY DEF StoreInv, ClientInv, PutOK
<1> QED
  BY <1>1, <1>2, <1>3, StepKeepsInv DEF StoreInv, ClientInv

LEMMA StartJobKeeps ==
  ASSUME StoreInv, NEW c \in Client, StartJob(c)
  PROVE  StoreInv'
<1>1. PICK asked \in Jobs[c] :
        call' = [call EXCEPT ![c] =
                   [at |-> IF asked.op = "put" THEN "lock" ELSE "version", op |-> asked.op, id |-> asked.id]]
  BY DEF StartJob
<1>2. asked.op \in {"put", "load"} /\ asked.id \in Projection
  BY ClientAssumption
<1>3. [at |-> IF asked.op = "put" THEN "lock" ELSE "version", op |-> asked.op, id |-> asked.id] \in Call
  <2>1. CASE asked.op = "put"
    BY <1>2, <2>1 DEF Call
  <2>2. CASE asked.op = "load"
    BY <1>2, <2>2 DEF Call
  <2> QED
    BY <1>2, <2>1, <2>2
<1>4. /\ call' \in [Client -> Call] /\ call'[c].at \in {"lock", "version"}
      /\ \A d \in Client \ {c} : call'[d] = call[d]
  BY <1>1, <1>3 DEF StoreInv, ClientInv
<1>5. LoadOK(c)'
  BY <1>4 DEF LoadOK
<1> QED
  BY <1>4, <1>5, ReadKeeps DEF StartJob

LEMMA TakeLockKeeps ==
  ASSUME StoreInv, NEW c \in Client, TakeLock(c)
  PROVE  StoreInv'
<1> DEFINE p == call[c].id
<1>1. call[c] \in Call /\ call[c].at = "lock" /\ advisory[LockOf[p]] = NoClient
  BY DEF TakeLock, StoreInv, ClientInv
<1>2. p \in Projection
  BY <1>1 DEF Call
<1>3. /\ call' \in [Client -> Call] /\ call'[c].at = "existing" /\ call'[c].id = p
      /\ \A d \in Client \ {c} : call'[d] = call[d]
  BY <1>1 DEF TakeLock, Goto, StoreInv, ClientInv, Call
<1>4. /\ advisory' \in [{LockOf[q] : q \in Projection} -> Client \cup Sql \cup {NoClient}]
      /\ advisory'[LockOf[p]] = c
      /\ \A k \in DOMAIN advisory :
           advisory'[k] = advisory[k] \/ (advisory[k] \in {c, NoClient} /\ advisory'[k] \in {c, NoClient})
  BY <1>1, <1>2 DEF TakeLock, StoreInv, ClientInv
<1>5. OwnStep(c)
  BY <1>3, <1>4 DEF OwnStep, TakeLock
<1>6. PutOK(c)' /\ LoadOK(c)'
  BY <1>1, <1>3, <1>4 DEF TakeLock, StoreInv, ClientInv, PutOK, LoadOK
<1>7. DatabaseInv'
  BY StutterKeepsDatabase DEF TakeLock, StoreInv
<1> QED
  BY <1>3, <1>4, <1>5, <1>6, <1>7, StepKeepsInv

LEMMA FindExistingKeeps ==
  ASSUME StoreInv, NEW c \in Client, FindExisting(c)
  PROVE  StoreInv'
<1> DEFINE p == call[c].id
<1>1. CASE ~db[p].exists
  <2>1. call[c] \in Call /\ call[c].at = "existing" /\ db' = db
    BY DEF FindExisting, StoreInv, ClientInv
  <2>2. Goto(c, "insert") /\ UNCHANGED <<writer, draft, advisory>>
    BY <1>1 DEF FindExisting
  <2>3. /\ call' \in [Client -> Call] /\ call'[c].at = "insert" /\ call'[c].id = p
        /\ \A d \in Client \ {c} : call'[d] = call[d]
    BY <2>1, <2>2 DEF Goto, StoreInv, ClientInv, Call
  <2>4. OwnStep(c)
    BY <2>1, <2>2, <2>3 DEF OwnStep
  <2>5. PutOK(c)' /\ LoadOK(c)'
    BY <1>1, <2>1, <2>2, <2>3 DEF StoreInv, ClientInv, PutOK, LoadOK
  <2>6. DatabaseInv'
    BY <2>1, <2>2, StutterKeepsDatabase DEF StoreInv
  <2> QED
    BY <2>2, <2>3, <2>4, <2>5, <2>6, StepKeepsInv DEF StoreInv, ClientInv
<1>2. CASE db[p].exists
  BY <1>2, EndedPutKeeps DEF FindExisting
<1> QED
  BY <1>1, <1>2

LEMMA InsertVersionKeeps ==
  ASSUME StoreInv, NEW c \in Client, InsertVersion(c)
  PROVE  StoreInv'
<1> DEFINE p == call[c].id
<1>1. /\ call[c] \in Call /\ call[c].at = "insert" /\ db' = db /\ advisory' = advisory
      /\ ~InsertWaits(c, p, p) /\ ~InsertFails(c, p, p)
  BY DEF InsertVersion, StoreInv, ClientInv
<1>2. Write(c, p, Begun(p)) /\ Goto(c, "rows")
  BY DEF InsertVersion, Begun
<1>3. p \in Projection
  BY <1>1 DEF Call
<1> HIDE DEF p
<1>4. /\ ~db[p].exists /\ writer[p] \in {c, NoClient}
      /\ \A q \in Projection : Latest(q).exists => q # p /\ Latest(q).payload # p
  BY <1>1, <1>3, InsertIsNew DEF StoreInv
<1>5. Lawful(Begun(p)) /\ Begun(p).payload = p
  BY <1>3, BegunIsLawful
<1>6. c \notin Sql
  BY ClientAssumption
<1>7. DatabaseInv'
  BY <1>1, <1>2, <1>3, <1>4, <1>5, <1>6, WriteKeepsDatabase DEF StoreInv
<1>8. /\ call' \in [Client -> Call] /\ call'[c].at = "rows" /\ call'[c].id = p
      /\ \A d \in Client \ {c} : call'[d] = call[d]
  BY <1>1, <1>2 DEF Goto, StoreInv, ClientInv, Call, p
<1>9. /\ writer'[p] = c /\ draft'[p] = Begun(p)
      /\ \A q \in Projection \ {p} : writer'[q] = writer[q] /\ draft'[q] = draft[q]
  BY <1>2, <1>3 DEF Write, StoreInv, DatabaseInv
<1>10. OwnStep(c)
  BY <1>1, <1>4, <1>8, <1>9 DEF OwnStep
<1>11. PutOK(c) /\ call[c].id = p
  BY DEF StoreInv, ClientInv, p
<1>12. \A q \in Projection : Begun(q)' = Begun(q)
  BY DEF Begun, Whole
<1>13. PutOK(c)' /\ LoadOK(c)'
  BY <1>1, <1>3, <1>4, <1>8, <1>9, <1>11, <1>12 DEF PutOK, LoadOK
<1> QED
  BY <1>1, <1>7, <1>8, <1>10, <1>13, StepKeepsInv DEF StoreInv, ClientInv

LEMMA FillAndSealKeeps ==
  ASSUME StoreInv, NEW c \in Client, FillAndSeal(c)
  PROVE  StoreInv'
<1> DEFINE p == call[c].id
<1>1. /\ call[c] \in Call /\ call[c].at = "rows" /\ db' = db /\ advisory' = advisory
      /\ SealGuard(Whole(p)) /\ Write(c, p, Whole(p)) /\ Goto(c, "commit")
  BY DEF FillAndSeal, StoreInv, ClientInv
<1>2. p \in Projection /\ c \notin Sql /\ c # NoClient
  BY <1>1, ClientAssumption DEF Call
<1>3. PutOK(c) /\ call[c].id = p
  BY DEF StoreInv, ClientInv
<1> HIDE DEF p
<1>4. writer[p] = c /\ ~db[p].exists /\ draft[p] = Begun(p)
  BY <1>1, <1>3 DEF PutOK
<1>5. Lawful(Whole(p)) /\ Whole(p).payload = p
  BY <1>1, <1>2, WholeIsLawful, WholeIsARecord
<1>6. Latest(p).exists /\ Latest(p).payload = p
  BY <1>2, <1>4, BegunIsLawful DEF Latest
<1>7. \A q \in Projection : q # p /\ Latest(q).exists => Latest(q).payload # p
  BY <1>2, <1>6 DEF StoreInv, DatabaseInv
<1>8. DatabaseInv'
  BY <1>1, <1>2, <1>4, <1>5, <1>7, WriteKeepsDatabase DEF StoreInv
<1>9. /\ call' \in [Client -> Call] /\ call'[c].at = "commit" /\ call'[c].id = p
      /\ \A d \in Client \ {c} : call'[d] = call[d]
  BY <1>1 DEF Goto, StoreInv, ClientInv, Call, p
<1>10. /\ writer'[p] = c /\ draft'[p] = Whole(p)
       /\ \A q \in Projection \ {p} : writer'[q] = writer[q] /\ draft'[q] = draft[q]
  BY <1>1, <1>2 DEF Write, StoreInv, DatabaseInv
<1>11. OwnStep(c)
  BY <1>1, <1>4, <1>9, <1>10 DEF OwnStep
<1>12. \A q \in Projection : Whole(q)' = Whole(q)
  BY DEF Whole
<1>13. PutOK(c)' /\ LoadOK(c)'
  BY <1>1, <1>2, <1>3, <1>4, <1>9, <1>10, <1>12 DEF PutOK, LoadOK
<1> QED
  BY <1>1, <1>8, <1>9, <1>11, <1>13, StepKeepsInv DEF StoreInv, ClientInv

\* What a committed version shows of itself when no SQL client touched it
LEMMA OwnIsWhole ==
  ASSUME StoreInv, NEW p \in Projection, db[p].exists, ~db[p].foreign
  PROVE  db[p] = Whole(p) /\ SameMetadata(p, db[p]) /\ Rebuilds(p, db[p])
<1>1. db[p] = Whole(p)
  BY DEF StoreInv, DatabaseInv, CommittedOK
<1>2. Whole(p).sealed /\ Whole(p).payload = p
  BY WholeIsARecord
<1>3. SameMetadata(p, db[p])
  BY <1>1, <1>2 DEF SameMetadata
<1> QED
  BY <1>1, <1>3 DEF Rebuilds

LEMMA ReadVersionKeeps ==
  ASSUME StoreInv, NEW c \in Client, ReadVersion(c)
  PROVE  StoreInv'
<1> DEFINE p == call[c].id
<1>1. call[c] \in Call /\ call[c].at = "version" /\ UNCHANGED <<db, writer, draft, advisory>>
  BY DEF ReadVersion, StoreInv, ClientInv
<1>2. p \in Projection
  BY <1>1 DEF Call
<1>3. CASE db[p].exists
  <2>1. call' = [call EXCEPT ![c] =
                   [at |-> "atomRows", op |-> "load", id |-> p, agrees |-> SameMetadata(p, db[p])]]
    BY <1>3 DEF ReadVersion
  <2>2. db[p].sealed \in BOOLEAN
    BY <1>2, <1>3 DEF StoreInv, DatabaseInv, CommittedOK, Lawful, VersionRecord
  <2>3. SameMetadata(p, db[p]) \in BOOLEAN
    BY <2>2 DEF SameMetadata
  <2>4. /\ call' \in [Client -> Call] /\ \A d \in Client \ {c} : call'[d] = call[d]
        /\ call'[c].at = "atomRows" /\ call'[c].id = p /\ call'[c].agrees = SameMetadata(p, db[p])
    BY <1>2, <2>1, <2>3 DEF StoreInv, ClientInv, Call
  <2>5. ~SameMetadata(p, db[p]) => db[p].foreign
    BY <1>2, <1>3, OwnIsWhole
  <2>6. SameMetadata(p, db[p])' <=> SameMetadata(p, db[p])
    BY <1>1, <2>4 DEF SameMetadata, Whole
  <2>7. LoadOK(c)'
    BY <1>1, <1>3, <2>4, <2>5, <2>6 DEF LoadOK
  <2> QED
    BY <1>1, <2>4, <2>7, ReadKeeps
<1>4. CASE ~db[p].exists
  <2>1. Answer(c, "not_found")
    BY <1>4 DEF ReadVersion
  <2>2. /\ call' \in [Client -> Call] /\ call'[c] = [at |-> "idle"]
        /\ \A d \in Client \ {c} : call'[d] = call[d]
    BY <2>1, AnswerIsOwn
  <2>3. LoadOK(c)'
    BY <2>2 DEF LoadOK
  <2> QED
    BY <1>1, <2>2, <2>3, ReadKeeps
<1> QED
  BY <1>3, <1>4

LEMMA ReadRowsKeeps ==
  ASSUME StoreInv, NEW c \in Client, ReadAtoms(c) \/ ReadBindings(c)
  PROVE  StoreInv'
<1> DEFINE p == call[c].id
           column == call[c].at
           next == IF call[c].at = "atomRows" THEN "bindingRows" ELSE "links"
           agrees == call[c].agrees /\ db[p][column] = Whole(p)[column]
<1>1. /\ call[c] \in Call /\ column \in {"atomRows", "bindingRows"}
      /\ UNCHANGED <<db, writer, draft, advisory>>
      /\ call' = [call EXCEPT ![c].at = next, ![c].agrees = @ /\ db[p][column] = Whole(p)[column]]
  BY DEF ReadAtoms, ReadBindings, ReadRows, StoreInv, ClientInv
<1>2. /\ p \in Projection /\ call[c].agrees \in BOOLEAN
      /\ call[c] \in [at : {"atomRows", "bindingRows", "links"}, op : {"load"}, id : Projection, agrees : BOOLEAN]
  BY <1>1 DEF Call
<1>3. /\ call' \in [Client -> Call] /\ \A d \in Client \ {c} : call'[d] = call[d]
      /\ call'[c].at = next /\ call'[c].id = p /\ call'[c].agrees <=> agrees
  <2> DEFINE after == [call[c] EXCEPT !.at = next, !.agrees = agrees]
  <2>1. agrees \in BOOLEAN /\ next \in {"bindingRows", "links"}
    OBVIOUS
  <2>2. call' = [call EXCEPT ![c] = after]
    BY <1>1 DEF StoreInv, ClientInv
  <2> HIDE DEF agrees, next
  <2>3. /\ after \in [at : {"atomRows", "bindingRows", "links"}, op : {"load"}, id : Projection, agrees : BOOLEAN]
        /\ after.at = next /\ after.id = p /\ after.agrees = agrees
    BY <1>2, <2>1
  <2>4. after \in Call
    BY <2>3 DEF Call
  <2> QED
    BY <2>2, <2>3, <2>4 DEF StoreInv, ClientInv
<1>4. LoadOK(c) /\ db[p].exists /\ \A q \in Projection : Whole(q)' = Whole(q)
  BY <1>1 DEF StoreInv, ClientInv, LoadOK, Whole
<1>5. ~agrees => db[p].foreign
  <2>1. ~db[p].foreign => db[p] = Whole(p)
    BY <1>2, <1>4, OwnIsWhole
  <2>2. ~call[c].agrees => db[p].foreign
    BY <1>1, <1>4 DEF LoadOK
  <2> QED
    BY <2>1, <2>2
<1>6. agrees => /\ SameMetadata(p, db[p]) /\ db[p].atomRows = Whole(p).atomRows
                /\ next = "links" => db[p].bindingRows = Whole(p).bindingRows
  BY <1>1, <1>4 DEF LoadOK
<1>7. SameMetadata(p, db[p]) <=> SameMetadata(p, db[p])'
  BY <1>1, <1>3 DEF SameMetadata, Whole
<1> HIDE DEF agrees
<1>8. LoadOK(c)'
  BY <1>1, <1>2, <1>3, <1>4, <1>5, <1>6, <1>7 DEF LoadOK
<1> QED
  BY <1>1, <1>3, <1>8, ReadKeeps

LEMMA ReadLinksKeeps ==
  ASSUME StoreInv, NEW c \in Client, ReadLinks(c)
  PROVE  StoreInv'
<1>1. PICK what \in {"record", "corrupt"} : Answer(c, what)
  BY DEF ReadLinks
<1>2. /\ call' \in [Client -> Call] /\ call'[c] = [at |-> "idle"]
      /\ \A d \in Client \ {c} : call'[d] = call[d]
  BY <1>1, AnswerIsOwn
<1>3. LoadOK(c)'
  BY <1>2 DEF LoadOK
<1> QED
  BY <1>2, <1>3, ReadKeeps DEF ReadLinks

\* An SQL client's transaction writes one version.
LEMMA SqlWriteKeeps ==
  ASSUME StoreInv, NEW x \in Sql, NEW p \in Projection, NEW version,
         writer[p] \in {x, NoClient}, Write(x, p, version), UNCHANGED <<db, advisory, call>>,
         Lawful(version), version.foreign,
         db[p].exists => ~db[p].sealed /\ Extends(db[p], version),
         \A q \in Projection : q # p /\ Latest(q).exists => Latest(q).payload # version.payload
  PROVE  StoreInv'
<1>1. DatabaseInv'
  BY WriteKeepsDatabase DEF StoreInv
<1>2. /\ writer'[p] = x
      /\ \A q \in Projection \ {p} : writer'[q] = writer[q] /\ draft'[q] = draft[q]
  BY DEF Write, StoreInv, DatabaseInv
<1>3. OwnStep(x)
  BY <1>2 DEF OwnStep
<1> QED
  BY <1>1, <1>3, StepKeepsInv, ClientAssumption DEF StoreInv, ClientInv

LEMMA SqlInsertVersionKeeps ==
  ASSUME StoreInv, NEW x \in Sql, NEW p \in Tampered, SqlInsertVersion(x, p)
  PROVE  StoreInv'
<1>1. PICK row \in Metadata :
        /\ ~InsertWaits(x, p, row.payload) /\ ~InsertFails(x, p, row.payload)
        /\ Write(x, p, Version(row.payload, row.atoms, row.bindings, TRUE))
  BY DEF SqlInsertVersion
<1> DEFINE v == Version(row.payload, row.atoms, row.bindings, TRUE)
<1>2. Lawful(v) /\ v.foreign /\ v.payload = row.payload
  BY NewVersionIsLawful
<1>3. p \in Projection
  BY ClientAssumption
<1>4. /\ ~db[p].exists /\ writer[p] \in {x, NoClient}
      /\ \A q \in Projection : Latest(q).exists => q # p /\ Latest(q).payload # row.payload
  BY <1>1, <1>3, InsertIsNew DEF StoreInv
<1> HIDE DEF v
<1>5. Write(x, p, v)
  BY <1>1 DEF v
<1> QED
  BY <1>2, <1>3, <1>4, <1>5, SqlWriteKeeps DEF SqlInsertVersion

\* What a statement on an unsealed version may make of it
LEMMA SqlUpdateKeeps ==
  ASSUME StoreInv, NEW x \in Sql, NEW p \in Projection, RequireBuilding(x, p), NEW version,
         Write(x, p, version), UNCHANGED <<db, advisory, call>>,
         Lawful(version), version.foreign, Extends(Seen(x, p), version)
  PROVE  StoreInv'
<1>1. x # NoClient
  BY ClientAssumption
<1>2. /\ writer[p] \in {x, NoClient} /\ Seen(x, p) = Latest(p) /\ Latest(p).exists /\ ~Latest(p).sealed
  BY <1>1, SeenIsLatest DEF RequireBuilding, Lockable
<1>3. db[p].exists => ~db[p].sealed /\ Extends(db[p], Latest(p))
  BY <1>1, <1>2 DEF Latest, StoreInv, DatabaseInv, DraftOK, Extends
<1>4. db[p].exists => ~db[p].sealed /\ Extends(db[p], version)
  BY <1>2, <1>3, ExtendsMore
<1>5. version.payload = Latest(p).payload
  BY <1>2 DEF Extends
<1>6. \A q \in Projection : q # p /\ Latest(q).exists => Latest(q).payload # version.payload
  BY <1>2, <1>5 DEF StoreInv, DatabaseInv
<1> QED
  BY <1>2, <1>4, <1>6, SqlWriteKeeps

LEMMA SqlInsertRowKeeps ==
  ASSUME StoreInv, NEW x \in Sql, NEW p \in Projection,
         NEW column \in {"atomRows", "bindingRows", "links"}, NEW row, SqlInsertRow(x, p, column, row),
         column = "atomRows" => row \in [id : Atom, unclassified : BOOLEAN],
         column = "bindingRows" => row \in Binding,
         column = "links" => /\ row \in Binding \X Atom
                             /\ row[1] \in Seen(x, p).bindingRows
                             /\ [id |-> row[2], unclassified |-> FALSE] \in Seen(x, p).atomRows
  PROVE  StoreInv'
<1> DEFINE v == Seen(x, p)
           w == [v EXCEPT ![column] = @ \cup {row}, !.foreign = TRUE]
<1>1. RequireBuilding(x, p) /\ Write(x, p, w) /\ UNCHANGED <<db, advisory, call>>
  BY DEF SqlInsertRow
<1>2. v = Latest(p) /\ v.exists /\ ~v.sealed
  <2>1. x # NoClient /\ writer[p] \in {x, NoClient}
    BY <1>1, ClientAssumption DEF RequireBuilding, Lockable
  <2>2. v = Latest(p)
    BY <2>1, SeenIsLatest
  <2> QED
    BY <1>1, <2>2 DEF RequireBuilding
<1>3. Lawful(v)
  BY <1>2, LatestIsLawful DEF StoreInv
<1>4. Lawful(w) /\ w.foreign /\ Extends(v, w)
  BY <1>2, <1>3, RowIsLawful DEF Lawful
<1> HIDE DEF w
<1> QED
  BY <1>1, <1>4, SqlUpdateKeeps

LEMMA SqlStatementKeeps ==
  ASSUME StoreInv, NEW x \in Sql, NEW p \in Tampered,
         SqlInsertAtom(x, p) \/ SqlInsertBinding(x, p) \/ SqlInsertLink(x, p) \/ SqlSeal(x, p)
  PROVE  StoreInv'
<1>1. p \in Projection
  BY ClientAssumption
<1>2. CASE SqlInsertAtom(x, p)
  <2>1. PICK row \in AtomRow : SqlInsertRow(x, p, "atomRows", row)
    BY <1>2 DEF SqlInsertAtom
  <2>2. row \in [id : Atom, unclassified : BOOLEAN]
    BY ClientAssumption
  <2> QED
    BY <1>1, <2>1, <2>2, SqlInsertRowKeeps
<1>3. CASE SqlInsertBinding(x, p)
  <2>1. PICK b \in Binding : SqlInsertRow(x, p, "bindingRows", b)
    BY <1>3 DEF SqlInsertBinding
  <2> QED
    BY <1>1, <2>1, SqlInsertRowKeeps
<1>4. CASE SqlInsertLink(x, p)
  <2>1. PICK b \in Binding, a \in Atom :
          /\ RequireBuilding(x, p) =>
               /\ b \in Seen(x, p).bindingRows
               /\ [id |-> a, unclassified |-> FALSE] \in Seen(x, p).atomRows
          /\ SqlInsertRow(x, p, "links", <<b, a>>)
    BY <1>4 DEF SqlInsertLink
  <2>2. RequireBuilding(x, p)
    BY <2>1 DEF SqlInsertRow
  <2> QED
    BY <1>1, <2>1, <2>2, SqlInsertRowKeeps
<1>5. CASE SqlSeal(x, p)
  <2> DEFINE v == Seen(x, p)
             w == [v EXCEPT !.sealed = TRUE, !.foreign = TRUE]
  <2>1. /\ RequireBuilding(x, p) /\ SealGuard(v) /\ Write(x, p, w) /\ UNCHANGED <<db, advisory, call>>
    BY <1>5 DEF SqlSeal
  <2>2. v = Latest(p) /\ v.exists
    BY <2>1, SeenIsLatest, ClientAssumption DEF RequireBuilding, Lockable
  <2>3. Lawful(v)
    BY <1>1, <2>2, LatestIsLawful DEF StoreInv
  <2>4. Lawful(w) /\ w.foreign /\ Extends(v, w)
    BY <2>1, <2>3, SealIsLawful DEF Lawful
  <2> HIDE DEF w
  <2> QED
    BY <1>1, <2>1, <2>4, SqlUpdateKeeps
<1> QED
  BY <1>2, <1>3, <1>4, <1>5

LEMMA SqlEndKeeps ==
  ASSUME StoreInv, NEW x \in Sql, SqlCommit(x) \/ SqlAbort(x)
  PROVE  StoreInv'
<1>1. Release(x) /\ (db' = db \/ CommitRows(x)) /\ call' = call
  BY DEF SqlCommit, SqlAbort
<1>2. \A p \in Projection : writer[p] = x => draft[p].foreign
  BY ClientAssumption DEF StoreInv, DatabaseInv, DraftOK
<1>3. DatabaseInv'
  BY <1>1, <1>2, EndKeepsDatabase DEF StoreInv
<1>4. /\ OwnStep(x)
      /\ advisory' \in [{LockOf[p] : p \in Projection} -> Client \cup Sql \cup {NoClient}]
  BY <1>1, ReleaseIsOwn
<1> QED
  BY <1>1, <1>3, <1>4, StepKeepsInv, ClientAssumption DEF StoreInv, ClientInv

LEMMA StoreInvNext == StoreInv /\ [StoreNext]_storeVars => StoreInv'
<1> SUFFICES ASSUME StoreInv, [StoreNext]_storeVars PROVE StoreInv'
  OBVIOUS
<1>1. CASE UNCHANGED storeVars
  <2>1. DatabaseInv'
    BY <1>1, StutterKeepsDatabase DEF storeVars, StoreInv
  <2>2. ASSUME NEW c \in Client PROVE PutOK(c)' /\ LoadOK(c)'
    <3>1. PutOK(c) /\ LoadOK(c)
      BY DEF StoreInv, ClientInv
    <3>2. PutOK(c)'
      BY <1>1, <3>1 DEF storeVars, PutOK, Begun, Whole
    <3>3. LoadOK(c)'
      BY <1>1, <3>1 DEF storeVars, LoadOK, Whole, SameMetadata
    <3> QED
      BY <3>2, <3>3
  <2> QED
    BY <1>1, <2>1, <2>2 DEF storeVars, StoreInv, ClientInv
<1>2. ASSUME NEW c \in Client, LoseInsert(c) \/ CommitPut(c) \/ FailCall(c) PROVE StoreInv'
  BY <1>2, EndedPutKeeps DEF LoseInsert, CommitPut, FailCall
<1> QED
  BY <1>1, <1>2, StartJobKeeps, TakeLockKeeps, FindExistingKeeps, InsertVersionKeeps, FillAndSealKeeps,
     ReadVersionKeeps, ReadRowsKeeps, ReadLinksKeeps, SqlInsertVersionKeeps, SqlStatementKeeps, SqlEndKeeps
     DEF StoreNext

LEMMA StoreInvariance == DatabaseSpec => []StoreInv
<1>1. DatabaseInit => StoreInv
  BY StoreInvInit DEF DatabaseInit
<1>2. [DatabaseNext]_databaseVars => [StoreNext]_storeVars
  BY DEF DatabaseNext, databaseVars, Migrate, Use, UseTooEarly, StoreNext
<1> QED
  BY <1>1, <1>2, StoreInvNext, PTL DEF DatabaseSpec

-----------------------------------------------------------------------------
(* What is in the database stays, and what is sealed is classified.        *)

LEMMA StepsCommitOrNot ==
  ASSUME StoreInv, [StoreNext]_storeVars, NEW p \in Projection
  PROVE  \/ db'[p] = db[p]
         \/ \E x \in Client \cup Sql : writer[p] = x /\ db'[p] = draft[p]
<1>1. ASSUME NEW x \in Client \cup Sql, CommitRows(x)
      PROVE  db'[p] = db[p] \/ (writer[p] = x /\ db'[p] = draft[p])
  BY <1>1 DEF CommitRows
<1>2. ASSUME NEW c \in Client,
             \/ StartJob(c) \/ TakeLock(c) \/ FindExisting(c) \/ InsertVersion(c) \/ LoseInsert(c)
             \/ FillAndSeal(c) \/ FailCall(c) \/ ReadVersion(c) \/ ReadAtoms(c) \/ ReadBindings(c)
             \/ ReadLinks(c)
      PROVE  db' = db
  BY <1>2 DEF StartJob, TakeLock, FindExisting, InsertVersion, LoseInsert, FillAndSeal, FailCall,
              ReadVersion, ReadAtoms, ReadBindings, ReadLinks, ReadRows
<1>3. ASSUME NEW x \in Sql, NEW q \in Tampered,
             \/ SqlInsertVersion(x, q) \/ SqlInsertAtom(x, q) \/ SqlInsertBinding(x, q)
             \/ SqlInsertLink(x, q) \/ SqlSeal(x, q)
      PROVE  db' = db
  BY <1>3 DEF SqlInsertVersion, SqlInsertAtom, SqlInsertBinding, SqlInsertLink, SqlSeal, SqlInsertRow
<1> QED
  BY <1>1, <1>2, <1>3 DEF StoreNext, storeVars, CommitPut, SqlCommit, SqlAbort

\* No step removes a version or one of its rows, or changes its metadata, and
\* a sealed version never changes at all.
THEOREM NothingIsLost == DatabaseSpec => HistoryOnlyGrows
<1>1. ASSUME StoreInv, [StoreNext]_storeVars
      PROVE  \A p \in Projection : Grows(p)
  <2>1. ASSUME NEW p \in Projection PROVE Grows(p)
    <3>1. PICK x \in Client \cup Sql \cup {NoClient} :
            db'[p] = db[p] \/ (x \in Client \cup Sql /\ writer[p] = x /\ db'[p] = draft[p])
      BY <1>1, StepsCommitOrNot
    <3>2. CASE db'[p] = db[p]
      BY <3>2 DEF Grows, Extends
    <3>3. CASE x \in Client \cup Sql /\ writer[p] = x /\ db'[p] = draft[p]
      BY <1>1, <3>3, CommittedGrows
    <3> QED
      BY <3>1, <3>2, <3>3
  <2> QED
    BY <2>1
<1>2. (\A p \in Projection : Grows(p)) =>
        \A p \in Projection : db[p].exists =>
          /\ db'[p].exists
          /\ db[p].sealed => db'[p] = db[p]
          /\ <<db'[p].payload, db'[p].atoms, db'[p].bindings>> = <<db[p].payload, db[p].atoms, db[p].bindings>>
          /\ db[p].atomRows \subseteq db'[p].atomRows /\ db[p].bindingRows \subseteq db'[p].bindingRows
          /\ db[p].links \subseteq db'[p].links
  BY DEF Grows, Extends
<1>3. [DatabaseNext]_databaseVars => [StoreNext]_storeVars
  BY DEF DatabaseNext, databaseVars, Migrate, Use, UseTooEarly, StoreNext
<1> QED
  BY <1>1, <1>2, <1>3, StoreInvariance, PTL DEF DatabaseSpec, HistoryOnlyGrows

LEMMA InvClassifies == StoreInv => SealedIsClassified
<1> SUFFICES ASSUME StoreInv PROVE SealedIsClassified
  OBVIOUS
<1>1. ASSUME NEW p \in Projection, db[p].exists, db[p].sealed
      PROVE  /\ {row.id : row \in {r \in db[p].atomRows : ~r.unclassified}} = {link[2] : link \in db[p].links}
             /\ db[p].bindingRows = {link[1] : link \in db[p].links}
             /\ Cardinality(db[p].atomRows) = db[p].atoms
  <2>1. Lawful(db[p])
    BY <1>1 DEF StoreInv, DatabaseInv, CommittedOK
  <2>2. SealGuard(db[p]) /\ Keyed(db[p])
    BY <1>1, <2>1 DEF Lawful
  <2>3. ASSUME NEW row \in db[p].atomRows, ~row.unclassified
        PROVE  \E link \in db[p].links : link[2] = row.id
    BY <2>2, <2>3 DEF SealGuard, Bound
  <2>4. ASSUME NEW link \in db[p].links
        PROVE  \E row \in {r \in db[p].atomRows : ~r.unclassified} : row.id = link[2]
    <3>1. [id |-> link[2], unclassified |-> FALSE] \in {r \in db[p].atomRows : ~r.unclassified}
      BY <2>2 DEF Keyed
    <3> QED
      BY <3>1
  <2>5. \A b \in db[p].bindingRows : \E link \in db[p].links : link[1] = b
    BY <2>2 DEF SealGuard
  <2>6. \A link \in db[p].links : link[1] \in db[p].bindingRows
    BY <2>2 DEF Keyed
  <2>7. Cardinality(db[p].atomRows) = db[p].atoms
    BY <2>2 DEF SealGuard
  <2> QED
    BY <2>3, <2>4, <2>5, <2>6, <2>7
<1>2. ASSUME NEW p \in Projection, NEW q \in Projection,
             db[p].exists, db[q].exists, db[p].payload = db[q].payload
      PROVE  p = q
  <2>1. \A r \in Projection : db[r].exists => Latest(r).exists /\ Latest(r).payload = db[r].payload
    BY DEF StoreInv, DatabaseInv, DraftOK, Latest, Lawful, VersionRecord, Extends
  <2> QED
    BY <1>2, <2>1 DEF StoreInv, DatabaseInv
<1> QED
  BY <1>1, <1>2 DEF SealedIsClassified

\* The atoms of a sealed version are bound or set aside, whoever wrote it, and
\* no two versions hold one payload.
THEOREM SealedVersions == DatabaseSpec => []SealedIsClassified
  BY InvClassifies, StoreInvariance, PTL

-----------------------------------------------------------------------------
(* The answers.                                                            *)

\* what AnswersAreTrue says of the answer to client c
AnswerIsTrue(c) ==
  Answers(c) =>
    LET p == told'[c].id IN
    CASE told'[c].answer = "stored" -> ~db[p].exists /\ IsRecord(db'[p], p)
      [] told'[c].answer \in {"exists", "record"} -> IsRecord(db[p], p)
      [] told'[c].answer \in {"conflict", "corrupt"} -> db[p].foreign
      [] told'[c].answer = "unique_violation" -> \E q \in Projection : db[q].exists /\ db[q].foreign
      [] OTHER -> db'[p] = db[p] \/ (~db[p].exists /\ IsRecord(db'[p], p))

\* A sealed version with the metadata and the rows of a record is the record.
LEMMA RebuiltIsRecord ==
  ASSUME NEW p \in Projection, NEW v \in VersionRecord, SameMetadata(p, v),
         v.atomRows = Whole(p).atomRows, v.bindingRows = Whole(p).bindingRows, v.links = Whole(p).links
  PROVE  IsRecord(v, p)
<1> DEFINE w == Whole(p)
           u == [v EXCEPT !.foreign = FALSE]
<1>1. w \in VersionRecord /\ w.payload = p /\ w.sealed /\ ~w.foreign
  BY WholeIsARecord
<1>2. v.sealed /\ v.payload = p /\ v.atoms = w.atoms /\ v.bindings = w.bindings
  BY DEF SameMetadata
<1> HIDE DEF w
<1>3. u \in VersionRecord
  BY DEF VersionRecord
<1>4. /\ u.exists = w.exists /\ u.payload = w.payload /\ u.atoms = w.atoms /\ u.bindings = w.bindings
      /\ u.sealed = w.sealed /\ u.foreign = w.foreign
      /\ u.atomRows = w.atomRows /\ u.bindingRows = w.bindingRows /\ u.links = w.links
  BY <1>1, <1>2 DEF VersionRecord, w
<1> HIDE DEF u
<1>5. u = w
  <2>1. \A r \in VersionRecord :
          r = [exists |-> r.exists, payload |-> r.payload, atoms |-> r.atoms, bindings |-> r.bindings,
               sealed |-> r.sealed, foreign |-> r.foreign,
               atomRows |-> r.atomRows, bindingRows |-> r.bindingRows, links |-> r.links]
    BY DEF VersionRecord
  <2> QED
    BY <1>1, <1>3, <1>4, <2>1
<1>6. v.exists
  BY DEF VersionRecord
<1> QED
  BY <1>5, <1>6 DEF IsRecord, u, w

LEMMA WholeIsRecord ==
  ASSUME NEW p \in Projection
  PROVE  IsRecord(Whole(p), p)
<1>1. Whole(p) \in VersionRecord /\ Whole(p).sealed /\ Whole(p).payload = p
  BY WholeIsARecord
<1>2. SameMetadata(p, Whole(p))
  BY <1>1 DEF SameMetadata
<1> QED
  BY <1>1, <1>2, RebuiltIsRecord

ToldInv == DOMAIN told = Client

LEMMA ToldInvNext == ToldInv /\ [StoreNext]_storeVars => ToldInv'
<1> SUFFICES ASSUME ToldInv, [StoreNext]_storeVars PROVE ToldInv'
  OBVIOUS
<1>1. CASE told' = told
  BY <1>1 DEF ToldInv
<1>2. ASSUME NEW c \in Client,
             \/ StartJob(c) \/ TakeLock(c) \/ FindExisting(c) \/ InsertVersion(c) \/ LoseInsert(c)
             \/ FillAndSeal(c) \/ CommitPut(c) \/ FailCall(c)
             \/ ReadVersion(c) \/ ReadAtoms(c) \/ ReadBindings(c) \/ ReadLinks(c)
      PROVE  ToldInv'
  BY <1>2 DEF StartJob, TakeLock, FindExisting, InsertVersion, LoseInsert, FillAndSeal, CommitPut, FailCall,
              ReadVersion, ReadAtoms, ReadBindings, ReadLinks, ReadRows, Answer, ToldInv
<1>3. ASSUME NEW x \in Sql, NEW p \in Tampered,
             \/ SqlCommit(x) \/ SqlAbort(x) \/ SqlInsertVersion(x, p) \/ SqlInsertAtom(x, p)
             \/ SqlInsertBinding(x, p) \/ SqlInsertLink(x, p) \/ SqlSeal(x, p)
      PROVE  told' = told
  BY <1>3 DEF SqlCommit, SqlAbort, SqlInsertVersion, SqlInsertAtom, SqlInsertBinding, SqlInsertLink, SqlSeal,
              SqlInsertRow
<1>4. ASSUME NEW x \in Sql, SqlCommit(x) \/ SqlAbort(x) PROVE told' = told
  BY <1>4 DEF SqlCommit, SqlAbort
<1> QED
  BY <1>1, <1>2, <1>3, <1>4 DEF StoreNext, storeVars

\* the client that is answered, and what about
LEMMA AnswerSays ==
  ASSUME StoreInv, ToldInv, NEW c \in Client, NEW what, Answer(c, what), call[c].at # "idle"
  PROVE  /\ told'[c].id = call[c].id /\ told'[c].answer = what
         /\ call[c].id \in Projection
<1>1. call[c] \in Call
  BY DEF StoreInv, ClientInv
<1>2. call[c].id \in Projection
  BY <1>1 DEF Call
<1> QED
  BY <1>2 DEF Answer, ToldInv

LEMMA FindExistingIsTrue ==
  ASSUME StoreInv, ToldInv, NEW c \in Client, FindExisting(c)
  PROVE  AnswerIsTrue(c)
<1> DEFINE p == call[c].id
<1>1. call[c] \in Call /\ call[c].at = "existing"
  BY DEF FindExisting, StoreInv, ClientInv
<1>2. p \in Projection
  BY <1>1 DEF Call
<1>3. CASE ~db[p].exists
  <2>1. call'[c].at = "insert"
    BY <1>1, <1>3 DEF FindExisting, Goto, StoreInv, ClientInv, Call
  <2> QED
    BY <2>1 DEF AnswerIsTrue, Answers
<1>4. CASE db[p].exists
  <2>1. db[p] \in VersionRecord
    BY <1>2, <1>4 DEF StoreInv, DatabaseInv, CommittedOK, Lawful
  <2>2. CASE ~SameMetadata(p, db[p])
    <3>1. told'[c].id = p /\ told'[c].answer = "conflict"
      BY <1>1, <1>4, <2>2, AnswerSays DEF FindExisting
    <3>2. db[p].foreign
      BY <1>2, <1>4, <2>2, OwnIsWhole
    <3> QED
      BY <3>1, <3>2 DEF AnswerIsTrue
  <2>3. CASE SameMetadata(p, db[p]) /\ Rebuilds(p, db[p])
    <3>1. told'[c].id = p /\ told'[c].answer = "exists"
      BY <1>1, <1>4, <2>3, AnswerSays DEF FindExisting
    <3>2. /\ db[p].atomRows = Whole(p).atomRows /\ db[p].bindingRows = Whole(p).bindingRows
          /\ db[p].links = Whole(p).links
      BY <1>2, <2>1, <2>3, WholeIsARecord DEF Rebuilds, VersionRecord
    <3>3. IsRecord(db[p], p)
      BY <1>2, <2>1, <2>3, <3>2, RebuiltIsRecord
    <3> QED
      BY <3>1, <3>3 DEF AnswerIsTrue
  <2>4. CASE SameMetadata(p, db[p]) /\ ~Rebuilds(p, db[p])
    <3>1. told'[c].id = p /\ told'[c].answer = "corrupt"
      BY <1>1, <1>4, <2>4, AnswerSays DEF FindExisting
    <3>2. db[p].foreign
      BY <1>2, <1>4, <2>4, OwnIsWhole
    <3> QED
      BY <3>1, <3>2 DEF AnswerIsTrue
  <2> QED
    BY <2>2, <2>3, <2>4
<1> QED
  BY <1>3, <1>4

LEMMA LoseInsertIsTrue ==
  ASSUME StoreInv, ToldInv, NEW c \in Client, LoseInsert(c)
  PROVE  AnswerIsTrue(c)
<1> DEFINE p == call[c].id
<1>1. /\ call[c].at = "insert" /\ InsertFails(c, p, p) /\ PutOK(c)
      /\ Answer(c, "unique_violation")
  BY DEF LoseInsert, StoreInv, ClientInv
<1>2. told'[c].answer = "unique_violation" /\ p \in Projection
  BY <1>1, AnswerSays
<1>3. PICK q \in Projection : Seen(c, q).exists /\ (q = p \/ Seen(c, q).payload = p)
  BY <1>1 DEF InsertFails
<1>4. Seen(c, q) = db[q]
  BY <1>1 DEF Seen, PutOK
<1>5. db[q].foreign
  <2> SUFFICES ASSUME ~db[q].foreign PROVE FALSE
    OBVIOUS
  <2>1. db[q] = Whole(q)
    BY <1>3, <1>4, OwnIsWhole
  <2>2. q = p
    BY <1>3, <1>4, <2>1, WholeIsARecord
  <2> QED
    BY <1>1, <1>3, <1>4, <2>2 DEF PutOK
<1> QED
  BY <1>2, <1>3, <1>4, <1>5 DEF AnswerIsTrue

LEMMA CommitPutIsTrue ==
  ASSUME StoreInv, ToldInv, NEW c \in Client, CommitPut(c)
  PROVE  AnswerIsTrue(c)
<1> DEFINE p == call[c].id
<1>1. /\ call[c].at = "commit" /\ CommitRows(c) /\ PutOK(c)
      /\ Answer(c, "stored") \/ Answer(c, "database_error")
  BY DEF CommitPut, StoreInv, ClientInv
<1>2. told'[c].id = p /\ told'[c].answer \in {"stored", "database_error"} /\ p \in Projection
  BY <1>1, AnswerSays
<1>3. writer[p] = c /\ ~db[p].exists /\ draft[p] = Whole(p)
  BY <1>1 DEF PutOK
<1>4. db'[p] = Whole(p)
  BY <1>1, <1>2, <1>3 DEF CommitRows
<1>5. ~db[p].exists /\ IsRecord(db'[p], p)
  BY <1>2, <1>3, <1>4, WholeIsRecord
<1> QED
  BY <1>2, <1>5 DEF AnswerIsTrue

LEMMA FailCallIsTrue ==
  ASSUME StoreInv, ToldInv, NEW c \in Client, FailCall(c)
  PROVE  AnswerIsTrue(c)
<1>1. told'[c].answer = "database_error"
  BY AnswerSays DEF FailCall
<1> QED
  BY <1>1 DEF AnswerIsTrue, FailCall

LEMMA ReadVersionIsTrue ==
  ASSUME StoreInv, ToldInv, NEW c \in Client, ReadVersion(c)
  PROVE  AnswerIsTrue(c)
<1>1. CASE db[call[c].id].exists
  <2>1. call'[c].at = "atomRows"
    BY <1>1 DEF ReadVersion, StoreInv, ClientInv
  <2> QED
    BY <2>1 DEF AnswerIsTrue, Answers
<1>2. CASE ~db[call[c].id].exists
  <2>1. told'[c].answer = "not_found"
    BY <1>2, AnswerSays DEF ReadVersion
  <2> QED
    BY <2>1 DEF AnswerIsTrue, ReadVersion
<1> QED
  BY <1>1, <1>2

LEMMA ReadLinksIsTrue ==
  ASSUME StoreInv, ToldInv, NEW c \in Client, ReadLinks(c)
  PROVE  AnswerIsTrue(c)
<1> DEFINE p == call[c].id
<1>1. call[c].at = "links" /\ LoadOK(c) /\ call[c] \in Call
  BY DEF ReadLinks, StoreInv, ClientInv
<1>2. p \in Projection /\ call[c].agrees \in BOOLEAN
  BY <1>1 DEF Call
<1>3. db[p].exists /\ db[p] \in VersionRecord
  BY <1>1, <1>2 DEF LoadOK, StoreInv, DatabaseInv, CommittedOK, Lawful
<1>4. CASE call[c].agrees /\ db[p].links = Whole(p).links
  <2>1. told'[c].id = p /\ told'[c].answer = "record"
    BY <1>1, <1>4, AnswerSays DEF ReadLinks
  <2>2. IsRecord(db[p], p)
    BY <1>1, <1>2, <1>3, <1>4, RebuiltIsRecord DEF LoadOK
  <2> QED
    BY <2>1, <2>2 DEF AnswerIsTrue
<1>5. CASE ~(call[c].agrees /\ db[p].links = Whole(p).links)
  <2>1. told'[c].id = p /\ told'[c].answer = "corrupt"
    BY <1>1, <1>5, AnswerSays DEF ReadLinks
  <2>2. db[p].foreign
    <3>1. ~db[p].foreign => db[p] = Whole(p)
      BY <1>2, <1>3, OwnIsWhole
    <3>2. ~call[c].agrees => db[p].foreign
      BY <1>1 DEF LoadOK
    <3> QED
      BY <1>5, <3>1, <3>2
  <2> QED
    BY <2>1, <2>2 DEF AnswerIsTrue
<1> QED
  BY <1>4, <1>5

LEMMA AnswersAreTrueNext ==
  ASSUME StoreInv, ToldInv, [StoreNext]_storeVars, NEW c \in Client
  PROVE  AnswerIsTrue(c)
<1>1. CASE call'[c] = call[c]
  BY <1>1 DEF AnswerIsTrue, Answers
<1>2. ASSUME StartJob(c) \/ TakeLock(c) \/ InsertVersion(c) \/ FillAndSeal(c)
             \/ ReadAtoms(c) \/ ReadBindings(c)
      PROVE  AnswerIsTrue(c)
  <2>1. call[c] \in Call /\ c \in DOMAIN call
    BY DEF StoreInv, ClientInv
  <2>2. CASE StartJob(c)
    BY <2>2 DEF StartJob, AnswerIsTrue, Answers, StoreInv, ClientInv
  <2>3. CASE TakeLock(c) \/ InsertVersion(c) \/ FillAndSeal(c)
    BY <2>1, <2>3 DEF TakeLock, InsertVersion, FillAndSeal, Goto, AnswerIsTrue, Answers, Call, StoreInv, ClientInv
  <2>4. CASE ReadAtoms(c) \/ ReadBindings(c)
    BY <2>1, <2>4 DEF ReadAtoms, ReadBindings, ReadRows, AnswerIsTrue, Answers, Call, StoreInv, ClientInv
  <2> QED
    BY <1>2, <2>2, <2>3, <2>4
<1>3. ASSUME NEW d \in Client \ {c},
             \/ StartJob(d) \/ TakeLock(d) \/ FindExisting(d) \/ InsertVersion(d) \/ LoseInsert(d)
             \/ FillAndSeal(d) \/ CommitPut(d) \/ FailCall(d)
             \/ ReadVersion(d) \/ ReadAtoms(d) \/ ReadBindings(d) \/ ReadLinks(d)
      PROVE  call'[c] = call[c]
  BY <1>3 DEF StartJob, TakeLock, FindExisting, InsertVersion, LoseInsert, FillAndSeal, CommitPut, FailCall,
              ReadVersion, ReadAtoms, ReadBindings, ReadLinks, ReadRows, Goto, Answer, StoreInv, ClientInv
<1>4. ASSUME NEW x \in Sql, NEW p \in Tampered,
             \/ SqlInsertVersion(x, p) \/ SqlInsertAtom(x, p)
             \/ SqlInsertBinding(x, p) \/ SqlInsertLink(x, p) \/ SqlSeal(x, p)
      PROVE  call' = call
  BY <1>4 DEF SqlInsertVersion, SqlInsertAtom, SqlInsertBinding, SqlInsertLink, SqlSeal, SqlInsertRow
<1>5. ASSUME NEW x \in Sql, SqlCommit(x) \/ SqlAbort(x) PROVE call' = call
  BY <1>5 DEF SqlCommit, SqlAbort
<1> QED
  BY <1>1, <1>2, <1>3, <1>4, <1>5, FindExistingIsTrue, LoseInsertIsTrue, CommitPutIsTrue, FailCallIsTrue,
     ReadVersionIsTrue, ReadLinksIsTrue DEF StoreNext, storeVars

\* Whatever else runs, what a store client is told is what is in the database.
THEOREM TrueAnswers == DatabaseSpec => AnswersAreTrue
<1>1. ASSUME StoreInv, ToldInv, [StoreNext]_storeVars
      PROVE  \A c \in Client : AnswerIsTrue(c)
  BY <1>1, AnswersAreTrueNext
<1>2. DatabaseInit => ToldInv
  BY DEF DatabaseInit, StoreInit, ToldInv
<1>3. [DatabaseNext]_databaseVars => [StoreNext]_storeVars
  BY DEF DatabaseNext, databaseVars, Migrate, Use, UseTooEarly, StoreNext
<1> QED
  BY <1>1, <1>2, <1>3, ToldInvNext, StoreInvariance, PTL DEF DatabaseSpec, AnswersAreTrue, AnswerIsTrue

-----------------------------------------------------------------------------
(* The store of indexes: versions are whole, the store implements          *)
(* AliasStore, and commands fail for the cause they name and tell what     *)
(* they did. The first two follow from what a transaction can have written *)
(* by the time it commits: all the rows of one index or none of them, or   *)
(* one alias that the database accepted. The others need the lock: what a  *)
(* transaction has read is still so when it commits.                       *)

Calls == {"publish", "load", "switch", "resolve"}

\* where a command can be
PlaceInv(c) ==
  /\ exit[c] = "running" => storeCall[c] # "done"
  /\ at[c] # "begin" => storeCall[c] \in Calls
  /\ storeCall[c] \in {"switch", "resolve"} => job[c].alias \in Alias

\* what its transaction can have written there
WriteInv(c) ==
  /\ wrote[c].version => storeCall[c] = "publish" /\ at[c] \in {"writing", "reading", "commit"}
  /\ wrote[c].version /\ at[c] # "writing" => wrote[c].entries = Entries
  /\ wrote[c].alias # NoIndex =>
       /\ storeCall[c] = "switch" /\ at[c] = "commit"
       /\ wrote[c].alias = job[c].index
       /\ job[c].index \in versions
       /\ <<job[c].alias, job[c].index>> \in Entitled

IInv ==
  /\ TypeOK
  /\ NoPartialVersion
  /\ \A c \in Command : PlaceInv(c) /\ WriteInv(c)

\* what the parser lets through, field by field
LEMMA JobFields ==
  ASSUME NEW j \in Tasks
  PROVE  /\ j.kind \in Kind /\ j.index \in Index /\ j.alias \in Alias \cup {NoAlias}
         /\ j.kind \in {"alias-switch", "alias-resolve"} => j.alias \in Alias
BY JobAssumption

LEMMA NextCallFits ==
  ASSUME NEW j \in Tasks, NEW c \in Calls
  PROVE  /\ NextCall(j, c) \in {"load", "switch", "resolve", "done"}
         /\ NextCall(j, c) = "switch" => j.alias \in Alias
         /\ NextCall(j, c) = "resolve" => c = "switch"
BY JobFields DEF NextCall, Calls, Kind

\* the policies of the database are those of AliasStore
LEMMA DatabaseEntitles ==
  ASSUME NEW a \in Alias, NEW i \in Index, DatabaseAccepts(a, i)
  PROVE  i \in versions /\ <<a, i>> \in Entitled
<1>1. OriginOf[i] \in Origin /\ NamespaceOf[a] \in {"current", "staging", "test", "free"}
  BY StoreAssumption
<1> QED BY <1>1 DEF DatabaseAccepts, Entitled, Admits, Origin

LEMMA NothingTyped ==
  Nothing \in [version : BOOLEAN, entries : 0 .. Entries, alias : Index \cup {NoIndex}]
BY StoreAssumption DEF Nothing

LEMMA InitStored == Init => IInv
<1> SUFFICES ASSUME Init PROVE IInv
  OBVIOUS
<1> Entries \in Nat /\ MaxFaults \in Nat /\ Preloaded \subseteq Index
  BY StoreAssumption
<1>1. TypeOK
  BY NothingTyped DEF Init, TypeOK
<1>2. NoPartialVersion
  BY DEF Init, NoPartialVersion
<1>3. \A c \in Command : PlaceInv(c) /\ WriteInv(c)
  BY DEF Init, PlaceInv, WriteInv, Nothing
<1> QED BY <1>1, <1>2, <1>3 DEF IInv

\* the end of a command that lost its transaction
LEMMA StopKeeps ==
  ASSUME IInv, NEW c \in Command, NEW why \in Failures, Stop(c, why),
         holder' \in Command \cup {NoCommand},
         TypeOK => faults' \in 0 .. MaxFaults,
         UNCHANGED <<tables, job, found, changed>>
  PROVE  IInv'
<1>1. TypeOK'
  BY NothingTyped DEF IInv, TypeOK, Stop, tables
<1>2. NoPartialVersion'
  BY DEF IInv, NoPartialVersion, tables
<1>3. ASSUME NEW d \in Command PROVE PlaceInv(d)' /\ WriteInv(d)'
  <2>1. CASE d = c
    BY <2>1 DEF IInv, TypeOK, Stop, tables, PlaceInv, WriteInv, Nothing, Failures
  <2>2. CASE d # c
    <3>1. /\ wrote'[d] = wrote[d] /\ at'[d] = at[d] /\ storeCall'[d] = storeCall[d]
          /\ exit'[d] = exit[d] /\ job' = job /\ versions' = versions
      BY <2>2 DEF IInv, TypeOK, Stop, tables
    <3> QED BY <3>1 DEF IInv, PlaceInv, WriteInv
  <2> QED BY <2>1, <2>2
<1> QED BY <1>1, <1>2, <1>3 DEF IInv

LEMMA FailKeeps ==
  ASSUME IInv, NEW c \in Command, NEW why \in Failures, Fail(c, why)
  PROVE  IInv'
<1>1. holder' \in Command \cup {NoCommand}
  BY DEF Fail, FreeLock, IInv, TypeOK
<1>2. faults' = faults
  BY DEF Fail
<1> QED
  BY StopKeeps, <1>1, <1>2 DEF Fail, TypeOK

\* A statement of c's transaction moves c to another place and may change what
\* it wrote; the tables and everybody else stay.
LEMMA StatementKeeps ==
  ASSUME IInv, NEW c \in Command, NEW place \in InTransaction,
         MoveTo(c, place),
         holder' \in Command \cup {NoCommand},
         wrote' \in [Command -> [version : BOOLEAN, entries : 0 .. Entries,
                                 alias : Index \cup {NoIndex}]],
         found' \in [Command -> Index \cup {NoIndex}],
         changed' \in [Command -> BOOLEAN],
         \A d \in Command \ {c} : wrote'[d] = wrote[d],
         storeCall[c] \in Calls,
         WriteInv(c)',
         UNCHANGED <<tables, job, storeCall, exit, faults>>
  PROVE  IInv'
<1>1. TypeOK'
  BY DEF IInv, TypeOK, MoveTo, tables
<1>2. NoPartialVersion'
  BY DEF IInv, NoPartialVersion, tables
<1>3. ASSUME NEW d \in Command PROVE PlaceInv(d)' /\ WriteInv(d)'
  <2>1. PlaceInv(d)'
    BY DEF IInv, TypeOK, MoveTo, tables, PlaceInv, Calls
  <2>2. CASE d # c
    <3>1. wrote'[d] = wrote[d] /\ at'[d] = at[d]
      BY <2>2 DEF IInv, TypeOK, MoveTo
    <3> QED BY <2>1, <3>1 DEF IInv, WriteInv, tables
  <2> QED BY <2>1, <2>2
<1> QED BY <1>1, <1>2, <1>3 DEF IInv

\* The rows of a committing transaction: the tables stay typed and whole.
LEMMA ApplyKeeps ==
  ASSUME IInv, NEW c \in Command, at[c] = "commit", Apply(c)
  PROVE  /\ versions' \subseteq Index /\ versions \subseteq versions'
         /\ entries' \in [Index -> 0 .. Entries]
         /\ alias' \in [Alias -> Index \cup {NoIndex}]
         /\ NoPartialVersion'
<1> DEFINE i == job[c].index
<1> DEFINE w == wrote[c]
<1>1. i \in Index /\ w \in [version : BOOLEAN, entries : 0 .. Entries, alias : Index \cup {NoIndex}]
  BY JobFields DEF IInv, TypeOK
<1>2. w.version => w.entries = Entries
  BY DEF IInv, WriteInv
<1>3. versions' \subseteq Index /\ versions \subseteq versions' /\ entries' \in [Index -> 0 .. Entries]
  BY <1>1 DEF Apply, IInv, TypeOK
<1>4. alias' \in [Alias -> Index \cup {NoIndex}]
  BY <1>1 DEF Apply, IInv, TypeOK
<1>5. NoPartialVersion'
  BY <1>1, <1>2 DEF Apply, IInv, TypeOK, NoPartialVersion
<1> QED BY <1>3, <1>4, <1>5

\* A command that committed is somewhere else, with nothing written.
LEMMA CommitKeeps ==
  ASSUME IInv, NEW c \in Command, Commit(c)
  PROVE  IInv'
<1> /\ exit[c] = "running" /\ at[c] = "commit" /\ Apply(c) /\ job' = job
    /\ found' = found /\ changed' = changed /\ faults' = faults
    /\ wrote' = [wrote EXCEPT ![c] = Nothing] /\ at' = [at EXCEPT ![c] = "begin"]
    /\ exit' = [exit EXCEPT ![c] = Verdict(c)]
  BY DEF Commit, MoveTo
<1> DEFINE next == IF Verdict(c) = "running" THEN NextCall(job[c], storeCall[c]) ELSE "done"
<1>1. storeCall[c] \in Calls /\ job[c] \in Tasks
  BY DEF IInv, TypeOK, PlaceInv
<1>2. /\ NextCall(job[c], storeCall[c]) \in {"load", "switch", "resolve", "done"}
      /\ NextCall(job[c], storeCall[c]) = "switch" => job[c].alias \in Alias
      /\ NextCall(job[c], storeCall[c]) = "resolve" => storeCall[c] = "switch"
  BY <1>1, NextCallFits
<1>3. Verdict(c) \in {"running", "ok", "refused", "mismatch"}
  BY DEF Verdict
<1>4. Verdict(c) = "running" => NextCall(job[c], storeCall[c]) # "done"
  BY DEF Verdict
<1>5. storeCall' = [storeCall EXCEPT ![c] = next]
  BY DEF Commit
<1>6. holder' \in Command \cup {NoCommand}
  BY DEF Commit, FreeLock, IInv, TypeOK
<1>a. /\ versions' \subseteq Index /\ versions \subseteq versions'
      /\ entries' \in [Index -> 0 .. Entries]
      /\ alias' \in [Alias -> Index \cup {NoIndex}]
      /\ NoPartialVersion'
  BY ApplyKeeps
<1>7. next \in {"load", "switch", "resolve", "done"}
  BY <1>2
<1> HIDE DEF next
<1>8. TypeOK'
  BY <1>3, <1>5, <1>6, <1>7, <1>a, NothingTyped DEF IInv, TypeOK, Failures
<1>9. ASSUME NEW d \in Command PROVE PlaceInv(d)' /\ WriteInv(d)'
  <2>1. CASE d = c
    <3>1. storeCall'[c] = next /\ at'[c] = "begin" /\ wrote'[c] = Nothing /\ exit'[c] = Verdict(c)
      BY <1>5 DEF IInv, TypeOK
    <3>2. next \in {"switch", "resolve"} => job[c].alias \in Alias
      BY <1>2 DEF next, IInv, PlaceInv
    <3>3. exit'[c] = "running" => next # "done"
      BY <1>4, <3>1 DEF next
    <3> QED BY <2>1, <3>1, <3>2, <3>3 DEF PlaceInv, WriteInv, Nothing
  <2>2. CASE d # c
    <3>1. /\ wrote'[d] = wrote[d] /\ at'[d] = at[d] /\ storeCall'[d] = storeCall[d]
          /\ exit'[d] = exit[d] /\ job' = job
      BY <2>2, <1>5 DEF IInv, TypeOK
    <3>2. versions \subseteq versions'
      BY <1>a
    <3> QED BY <3>1, <3>2 DEF IInv, PlaceInv, WriteInv
  <2> QED BY <2>1, <2>2
<1> QED BY <1>8, <1>9, <1>a DEF IInv

LEMMA AnswerLostKeeps ==
  ASSUME IInv, NEW c \in Command, AnswerLost(c)
  PROVE  IInv'
<1> /\ at[c] = "commit" /\ Apply(c) /\ Stop(c, "lost")
    /\ job' = job /\ found' = found /\ changed' = changed
    /\ faults < MaxFaults /\ faults' = faults + 1
  BY DEF AnswerLost
<1>1. holder' \in Command \cup {NoCommand}
  BY DEF AnswerLost, FreeLock, IInv, TypeOK
<1>2. /\ versions' \subseteq Index /\ versions \subseteq versions'
      /\ entries' \in [Index -> 0 .. Entries]
      /\ alias' \in [Alias -> Index \cup {NoIndex}]
      /\ NoPartialVersion'
  BY ApplyKeeps
<1>3. faults' \in 0 .. MaxFaults
  BY StoreAssumption DEF IInv, TypeOK
<1>4. TypeOK'
  BY <1>1, <1>2, <1>3, NothingTyped DEF IInv, TypeOK, Stop, Failures
<1>5. ASSUME NEW d \in Command PROVE PlaceInv(d)' /\ WriteInv(d)'
  <2>1. CASE d = c
    BY <2>1 DEF IInv, TypeOK, Stop, PlaceInv, WriteInv, Nothing
  <2>2. CASE d # c
    <3>1. /\ wrote'[d] = wrote[d] /\ at'[d] = at[d] /\ storeCall'[d] = storeCall[d]
          /\ exit'[d] = exit[d] /\ job' = job
      BY <2>2 DEF IInv, TypeOK, Stop
    <3>2. versions \subseteq versions'
      BY <1>2
    <3> QED BY <3>1, <3>2 DEF IInv, PlaceInv, WriteInv
  <2> QED BY <2>1, <2>2
<1> QED BY <1>2, <1>4, <1>5 DEF IInv

\* every statement of a transaction that has written nothing yet
LEMMA NothingWritten ==
  ASSUME IInv, NEW c \in Command, at[c] \in {"locked", "absent", "upsert", "begin"}
  PROVE  ~wrote[c].version /\ wrote[c].alias = NoIndex
BY DEF IInv, WriteInv, TypeOK

LEMMA NextStored == IInv /\ [Next]_vars => IInv'
<1> SUFFICES ASSUME IInv, [Next]_vars PROVE IInv'
  OBVIOUS
<1> USE DEF IsAt
<1>1. ASSUME NEW c \in Command, Start(c) PROVE IInv'
  <2>1. CASE Fail(c, "refused")
    BY <2>1, FailKeeps DEF Failures
  <2>2. CASE /\ exit[c] = "running" /\ storeCall[c] = "start"
             /\ storeCall' = [storeCall EXCEPT ![c] = FirstCall(job[c])]
             /\ UNCHANGED <<tables, holder, job, at, wrote, found, changed, exit, faults>>
    <3>1. job[c] \in Tasks
      BY DEF IInv, TypeOK
    <3>2. /\ FirstCall(job[c]) \in {"publish", "load", "resolve"}
          /\ FirstCall(job[c]) = "resolve" => job[c].alias \in Alias
      BY <3>1, JobFields DEF FirstCall, Publishing, Kind
    <3>3. TypeOK'
      BY <2>2, <3>2 DEF IInv, TypeOK, tables
    <3>4. NoPartialVersion'
      BY <2>2 DEF IInv, NoPartialVersion, tables
    <3>5. at[c] = "begin"
      BY <2>2 DEF IInv, PlaceInv, TypeOK, Calls
    <3>6. ASSUME NEW d \in Command PROVE PlaceInv(d)' /\ WriteInv(d)'
      <4>1. CASE d = c
        BY <2>2, <3>2, <3>5, <4>1 DEF IInv, TypeOK, PlaceInv, WriteInv, tables
      <4>2. CASE d # c
        BY <2>2, <4>2 DEF IInv, TypeOK, PlaceInv, WriteInv, tables
      <4> QED BY <4>1, <4>2
    <3> QED BY <3>3, <3>4, <3>6 DEF IInv
  <2> QED BY <1>1, <2>1, <2>2 DEF Start
<1>2. ASSUME NEW c \in Command, Lock(c) PROVE IInv'
  <2>1. storeCall[c] \in Calls
    BY <1>2 DEF Lock, IInv, PlaceInv, TypeOK, Calls
  <2>2. WriteInv(c)'
    BY <1>2, NothingWritten DEF Lock, WriteInv
  <2> QED
    BY <1>2, <2>1, <2>2, StatementKeeps DEF Lock, IInv, TypeOK, InTransaction
<1>3. ASSUME NEW c \in Command, PublishLooks(c) PROVE IInv'
  <2>1. CASE Fail(c, "corrupt")
    BY <2>1, FailKeeps DEF Failures
  <2>2. CASE ~Fail(c, "corrupt")
    <3>1. WriteInv(c)'
      BY <1>3, <2>2, NothingWritten DEF PublishLooks, WriteInv
    <3> QED
      BY <1>3, <2>2, <3>1, StatementKeeps
      DEF PublishLooks, MoveTo, IInv, TypeOK, InTransaction, Calls
  <2> QED BY <2>1, <2>2
<1>4. ASSUME NEW c \in Command, InsertVersionRow(c) PROVE IInv'
  <2>1. CASE Fail(c, "rejected")
    BY <2>1, FailKeeps DEF Failures
  <2>2. CASE ~Fail(c, "rejected")
    <3>1. /\ storeCall[c] = "publish" /\ at[c] = "absent" /\ MoveTo(c, "writing")
          /\ wrote' = [wrote EXCEPT ![c].version = TRUE]
          /\ UNCHANGED <<tables, holder, job, storeCall, found, changed, exit, faults>>
      BY <1>4, <2>2 DEF InsertVersionRow
    <3>2. WriteInv(c)'
      BY <3>1, NothingWritten DEF WriteInv, MoveTo, IInv, TypeOK
    <3> QED
      BY <3>1, <3>2, StatementKeeps DEF IInv, TypeOK, InTransaction, Calls
  <2> QED BY <2>1, <2>2
<1>5. ASSUME NEW c \in Command, InsertEntry(c) PROVE IInv'
  <2>1. wrote[c].entries + 1 \in 0 .. Entries
    BY <1>5, StoreAssumption DEF InsertEntry, IInv, TypeOK
  <2>2. wrote[c].alias = NoIndex
    BY <1>5 DEF InsertEntry, IInv, TypeOK, WriteInv
  <2>3. WriteInv(c)'
    BY <1>5, <2>1, <2>2 DEF InsertEntry, WriteInv, MoveTo, IInv, TypeOK
  <2>4. wrote' \in [Command -> [version : BOOLEAN, entries : 0 .. Entries,
                                alias : Index \cup {NoIndex}]]
    BY <1>5, <2>1 DEF InsertEntry, IInv, TypeOK
  <2>5. \A d \in Command \ {c} : wrote'[d] = wrote[d]
    BY <1>5 DEF InsertEntry, IInv, TypeOK
  <2> DEFINE place == IF wrote[c].entries + 1 = Entries THEN "reading" ELSE "writing"
  <2>6. place \in InTransaction /\ MoveTo(c, place) /\ storeCall[c] \in Calls
    BY <1>5 DEF InsertEntry, InTransaction, Calls
  <2>7. /\ holder' \in Command \cup {NoCommand}
        /\ found' \in [Command -> Index \cup {NoIndex}]
        /\ changed' \in [Command -> BOOLEAN]
        /\ UNCHANGED <<tables, job, storeCall, exit, faults>>
    BY <1>5 DEF InsertEntry, IInv, TypeOK
  <2> HIDE DEF place
  <2> QED
    BY <2>3, <2>4, <2>5, <2>6, <2>7, StatementKeeps
<1>6. ASSUME NEW c \in Command, ReadBack(c) PROVE IInv'
  <2>1. CASE Fail(c, "corrupt")
    BY <2>1, FailKeeps DEF Failures
  <2>2. CASE ~Fail(c, "corrupt")
    <3>1. WriteInv(c)'
      BY <1>6, <2>2 DEF ReadBack, WriteInv, MoveTo, IInv, TypeOK
    <3> QED
      BY <1>6, <2>2, <3>1, StatementKeeps
      DEF ReadBack, IInv, TypeOK, InTransaction, Calls
  <2> QED BY <2>1, <2>2
<1>7. ASSUME NEW c \in Command, Load(c) PROVE IInv'
  <2>1. CASE Fail(c, Unloadable(job[c].index))
    BY <2>1, FailKeeps DEF Unloadable, Failures
  <2>2. CASE ~Fail(c, Unloadable(job[c].index))
    <3>1. WriteInv(c)'
      BY <1>7, <2>2, NothingWritten DEF Load, WriteInv
    <3> QED
      BY <1>7, <2>2, <3>1, StatementKeeps DEF Load, IInv, TypeOK, InTransaction, Calls
  <2> QED BY <2>1, <2>2
<1>8. ASSUME NEW c \in Command, SwitchLooks(c) PROVE IInv'
  <2>1. CASE Fail(c, Unloadable(job[c].index)) \/ Fail(c, "policy")
    BY <2>1, FailKeeps DEF Unloadable, Failures
  <2>2. CASE ~(Fail(c, Unloadable(job[c].index)) \/ Fail(c, "policy"))
    <3>1. WriteInv(c)'
      BY <1>8, <2>2, NothingWritten DEF SwitchLooks, WriteInv
    <3> QED
      BY <1>8, <2>2, <3>1, StatementKeeps
      DEF SwitchLooks, IInv, TypeOK, InTransaction, Calls
  <2> QED BY <2>1, <2>2
<1>9. ASSUME NEW c \in Command, UpsertAlias(c) PROVE IInv'
  <2>1. CASE Fail(c, "rejected")
    BY <2>1, FailKeeps DEF Failures
  <2>2. CASE ~Fail(c, "rejected")
    <3>1. /\ storeCall[c] = "switch" /\ at[c] = "upsert" /\ MoveTo(c, "commit")
          /\ DatabaseAccepts(job[c].alias, job[c].index)
          /\ wrote' = [wrote EXCEPT ![c].alias = job[c].index]
          /\ UNCHANGED <<tables, holder, job, storeCall, found, changed, exit, faults>>
      BY <1>9, <2>2 DEF UpsertAlias
    <3>2. job[c].index \in Index /\ job[c].alias \in Alias
      BY <3>1, JobFields DEF IInv, TypeOK, PlaceInv
    <3>3. job[c].index \in versions /\ <<job[c].alias, job[c].index>> \in Entitled
      BY <3>1, <3>2, DatabaseEntitles
    <3>4. WriteInv(c)'
      BY <3>1, <3>2, <3>3, NothingWritten DEF WriteInv, MoveTo, IInv, TypeOK, tables
    <3> QED
      BY <3>1, <3>2, <3>4, StatementKeeps DEF IInv, TypeOK, InTransaction, Calls
  <2> QED BY <2>1, <2>2
<1>10. ASSUME NEW c \in Command, ResolveAlias(c) PROVE IInv'
  <2> DEFINE i == alias[job[c].alias]
  <2>1. CASE \E why \in Failures : Fail(c, why)
    BY <2>1, FailKeeps
  <2>2. CASE ~\E why \in Failures : Fail(c, why)
    <3>1. /\ storeCall[c] = "resolve" /\ at[c] = "locked" /\ MoveTo(c, "commit")
          /\ found' = [found EXCEPT ![c] = i]
          /\ UNCHANGED <<tables, holder, job, storeCall, wrote, changed, exit, faults>>
      BY <1>10, <2>2 DEF ResolveAlias, Unloadable, Failures
    <3>2. i \in Index \cup {NoIndex}
      BY <3>1 DEF IInv, TypeOK, PlaceInv
    <3>3. WriteInv(c)'
      BY <3>1, NothingWritten DEF WriteInv
    <3> HIDE DEF i
    <3> QED
      BY <3>1, <3>2, <3>3, StatementKeeps DEF IInv, TypeOK, InTransaction, Calls
  <2> QED BY <2>1, <2>2
<1>11. ASSUME NEW c \in Command, ConnectionLost(c) PROVE IInv'
  <2>1. holder' \in Command \cup {NoCommand}
    BY <1>11 DEF ConnectionLost, FreeLock, IInv, TypeOK
  <2>2. TypeOK => faults' \in 0 .. MaxFaults
    BY <1>11, StoreAssumption DEF ConnectionLost, TypeOK
  <2> QED
    BY <1>11, <2>1, <2>2, StopKeeps DEF ConnectionLost, Failures
<1>12. CASE UNCHANGED vars
  BY <1>12 DEF vars, IInv, TypeOK, NoPartialVersion, PlaceInv, WriteInv
<1> QED
  BY <1>1, <1>2, <1>3, <1>4, <1>5, <1>6, <1>7, <1>8, <1>9, <1>10, <1>11, <1>12,
     CommitKeeps, AnswerLostKeeps DEF Next, Step, Finished

\* A published index is there with all its entries or not there at all
\* (publish(), whose rows appear together).
THEOREM VersionsAreWhole == Spec => [](TypeOK /\ NoPartialVersion)
<1>1. IInv => TypeOK /\ NoPartialVersion
  BY DEF IInv
<1> QED BY <1>1, InitStored, NextStored, PTL DEF Spec
-----------------------------------------------------------------------------
(* The refinement.  Published is versions, for versions are whole.         *)

LEMMA PublishedIsVersions ==
  ASSUME TypeOK, NoPartialVersion
  PROVE  Published = versions
BY StoreAssumption DEF TypeOK, NoPartialVersion, Published, Loads

\* A commit publishes the index, switches the alias or changes nothing.
LEMMA ApplyImplements ==
  ASSUME IInv, IInv', NEW c \in Command, at[c] = "commit", Apply(c)
  PROVE  [Promise!Next]_(Promise!vars)
<1> DEFINE i == job[c].index
<1> DEFINE a == job[c].alias
<1>1. Published = versions /\ Published' = versions'
  BY StoreAssumption DEF IInv, TypeOK, NoPartialVersion, Published, Loads
<1>2. i \in Index
  BY JobFields DEF IInv, TypeOK
<1>3. CASE wrote[c].version
  <2>1. wrote[c].alias = NoIndex
    BY <1>3 DEF IInv, WriteInv
  <2>2. versions' = versions \cup {i} /\ alias' = alias
    BY <1>3, <2>1 DEF Apply, IInv, TypeOK
  <2>3. Promise!Publish(i)
    BY <1>1, <2>2 DEF Promise!Publish
  <2> QED
    BY <1>2, <2>3 DEF Promise!Next
<1>4. CASE ~wrote[c].version /\ wrote[c].alias # NoIndex
  <2>1. /\ wrote[c].alias = i /\ i \in versions /\ <<a, i>> \in Entitled
    BY <1>4 DEF IInv, WriteInv
  <2>2. a \in Alias
    BY <1>4 DEF IInv, WriteInv, PlaceInv
  <2>3. versions' = versions
    BY <1>4 DEF Apply
  <2>4. alias' = [alias EXCEPT ![a] = i]
    BY <1>4, <2>1, <2>2 DEF Apply, IInv, TypeOK
  <2>5. Promise!Switch(a, i)
    BY <1>1, <2>1, <2>3, <2>4 DEF Promise!Switch
  <2> QED
    BY <1>2, <2>2, <2>5 DEF Promise!Next
<1>5. CASE ~wrote[c].version /\ wrote[c].alias = NoIndex
  <2>1. versions' = versions /\ alias' = alias
    BY <1>5 DEF Apply, IInv, TypeOK
  <2> QED
    BY <1>1, <2>1 DEF Promise!vars
<1> QED BY <1>3, <1>4, <1>5

LEMMA StepImplements == IInv /\ IInv' /\ [Next]_vars => [Promise!Next]_(Promise!vars)
<1> SUFFICES ASSUME IInv, IInv', [Next]_vars PROVE [Promise!Next]_(Promise!vars)
  OBVIOUS
<1>1. CASE \E c \in Command : Commit(c) \/ AnswerLost(c)
  BY <1>1, ApplyImplements DEF Commit, AnswerLost
<1>2. CASE UNCHANGED tables
  <2>1. Published' = Published /\ alias' = alias
    BY <1>2 DEF tables, Published, Loads
  <2> QED
    BY <2>1 DEF Promise!vars
<1> QED
  BY <1>1, <1>2 DEF Next, Step, Finished, vars, tables, Start, Lock, PublishLooks,
     InsertVersionRow, InsertEntry, ReadBack, Load, SwitchLooks, UpsertAlias,
     ResolveAlias, ConnectionLost, Fail

\* The store keeps the promise of AliasStore: indexes that were published stay
\* and are whole, and an alias moves only to a published index that its
\* namespace admits (publish(), switch_alias(), the trigger on the aliases).
THEOREM StoreKeepsPromise == Spec => KeepsPromise
<1>1. Init => Promise!Init
  <2> SUFFICES ASSUME Init PROVE Promise!Init
    OBVIOUS
  <2>1. IInv
    BY InitStored
  <2>2. Published = versions
    BY <2>1, PublishedIsVersions DEF IInv
  <2> QED
    BY <2>2 DEF Init, Promise!Init
<1> QED
  BY <1>1, InitStored, NextStored, StepImplements, PTL DEF Spec, KeepsPromise, Promise!Spec
-----------------------------------------------------------------------------
(* What a command knows of the store, and why it fails.                    *)

\* Whoever is inside a transaction holds the lock.
LockInv(c) == at[c] # "begin" => holder = c /\ exit[c] = "running"

\* what the earlier calls of a command leave behind
KnownInv(c) ==
  /\ storeCall[c] \in Calls => ~ArgumentsRefused(job[c])
  /\ Publishing(job[c]) /\ storeCall[c] \in {"load", "switch", "resolve"} => job[c].index \in versions
  /\ job[c].kind = "alias-resolve" => storeCall[c] \in {"start", "resolve", "done"}
  /\ job[c].kind # "alias-resolve" /\ storeCall[c] = "resolve" => alias[job[c].alias] # NoIndex

\* What the statements of a transaction have read is still so: nobody else
\* is in a transaction.
SeenInv(c) ==
  /\ storeCall[c] = "publish" =>
       /\ at[c] \in {"absent", "writing", "reading"} => job[c].index \notin versions
       /\ at[c] \in {"writing", "reading"} => wrote[c].version
       /\ at[c] = "commit" =>
            /\ changed[c] <=> job[c].index \notin versions
            /\ wrote[c].version <=> job[c].index \notin versions
  /\ storeCall[c] = "switch" =>
       /\ at[c] = "upsert" =>
            /\ job[c].index \in versions /\ AliasAccepts(job[c].alias, job[c].index)
            /\ changed[c] /\ alias[job[c].alias] # job[c].index
       /\ at[c] = "commit" =>
            /\ changed[c] <=> alias[job[c].alias] # job[c].index
            /\ wrote[c].alias # NoIndex <=> alias[job[c].alias] # job[c].index
       /\ at[c] \in {"upsert", "commit"} => Activated(job[c])
  /\ storeCall[c] = "resolve" /\ at[c] = "commit" => found[c] # NoIndex

\* somebody was asked to switch the alias to the index
Asked(a, i) ==
  \E d \in Command : job[d].alias = a /\ job[d].index = i /\ job[d].kind # "alias-resolve"

AliasInv(a) ==
  alias[a] # NoIndex =>
    alias[a] \in versions /\ AliasAccepts(a, alias[a]) /\ Asked(a, alias[a])

FoundInv(c) == found[c] # NoIndex => Asked(job[c].alias, found[c])

\* FailuresAreExplained, for one command
Explained(c) ==
  /\ exit[c] # "rejected"
  /\ exit[c] = "corrupt" => job[c].index \in Lossy
  /\ exit[c] = "missing" => ~Publishing(job[c])
  /\ exit[c] = "policy" => /\ ~(AliasAccepts(job[c].alias, job[c].index) /\ Activated(job[c]))
                           /\ job[c].kind # "publish-evaluation"
  /\ exit[c] = "mismatch" => found[c] # NoIndex /\ found[c] # job[c].index

CommandInv(c) == LockInv(c) /\ KnownInv(c) /\ SeenInv(c) /\ FoundInv(c) /\ Explained(c)

CauseInv ==
  /\ IInv
  /\ \A a \in Alias : AliasInv(a)
  /\ \A c \in Command : CommandInv(c)

LEMMA CauseInit == Init => CauseInv
<1> SUFFICES ASSUME Init PROVE CauseInv
  OBVIOUS
<1>1. /\ \A a \in Alias : alias[a] = NoIndex
      /\ \A c \in Command : /\ storeCall[c] = "start" /\ at[c] = "begin" /\ exit[c] = "running"
                            /\ found[c] = NoIndex
  BY DEF Init
<1> QED
  BY <1>1, InitStored DEF CauseInv, AliasInv, CommandInv, LockInv, KnownInv, SeenInv, FoundInv, Explained, Calls

\* A step of c leaves the others' part of the state alone, and what they have
\* read as well if they are in a transaction.
Apart(c) ==
  /\ job' = job
  /\ holder' = holder \/ holder \in {c, NoCommand}
  /\ \A d \in Command \ {c} :
       /\ wrote'[d] = wrote[d] /\ at'[d] = at[d] /\ storeCall'[d] = storeCall[d]
       /\ exit'[d] = exit[d] /\ found'[d] = found[d] /\ changed'[d] = changed[d]
  /\ \/ UNCHANGED tables
     \/ /\ holder = c /\ versions \subseteq versions'
        /\ \A a \in Alias : alias[a] # NoIndex => alias'[a] # NoIndex

LEMMA OthersKnow ==
  ASSUME CauseInv, NEW c \in Command, Apart(c), NEW d \in Command, d # c
  PROVE  CommandInv(d)'
<1>1. CommandInv(d) /\ PlaceInv(d) /\ job[d] \in Tasks /\ d # NoCommand
  BY StoreAssumption DEF CauseInv, IInv, TypeOK
<1>2. /\ job' = job
      /\ wrote'[d] = wrote[d] /\ at'[d] = at[d] /\ storeCall'[d] = storeCall[d]
      /\ exit'[d] = exit[d] /\ found'[d] = found[d] /\ changed'[d] = changed[d]
  BY DEF Apart
<1>3. LockInv(d)'
  BY <1>1, <1>2 DEF Apart, CommandInv, LockInv
<1>4. KnownInv(d)'
  BY <1>1, <1>2 DEF Apart, CommandInv, KnownInv, PlaceInv, tables, ArgumentsRefused, Publishing
<1>5. SeenInv(d)'
  <2>1. CASE UNCHANGED tables
    BY <1>1, <1>2, <2>1 DEF CommandInv, SeenInv, tables, AliasAccepts, Activated
  <2>2. CASE holder = c
    <3>1. at'[d] = "begin"
      BY <1>1, <1>2, <2>2 DEF CommandInv, LockInv
    <3> QED
      BY <3>1 DEF SeenInv
  <2> QED
    BY <2>1, <2>2 DEF Apart
<1>6. FoundInv(d)' /\ Explained(d)'
  BY <1>1, <1>2 DEF CommandInv, FoundInv, Asked, Explained, Publishing, AliasAccepts, Activated
<1> QED
  BY <1>3, <1>4, <1>5, <1>6 DEF CommandInv

LEMMA AliasesKept ==
  ASSUME CauseInv, UNCHANGED <<tables, job>>
  PROVE  \A a \in Alias : AliasInv(a)'
BY DEF CauseInv, AliasInv, Asked, AliasAccepts, tables

\* The end of a command, for a cause of its own
LEMMA StopKeepsCause ==
  ASSUME CauseInv, IInv', NEW c \in Command, NEW why \in Failures, Stop(c, why),
         holder' = holder \/ holder \in {c, NoCommand},
         UNCHANGED <<job, found, changed>>,
         \/ UNCHANGED tables
         \/ /\ holder = c /\ versions \subseteq versions'
            /\ \A a \in Alias : (alias[a] # NoIndex => alias'[a] # NoIndex) /\ AliasInv(a)',
         why \notin {"rejected", "mismatch"},
         why = "corrupt" => job[c].index \in Lossy,
         why = "missing" => ~Publishing(job[c]),
         why = "policy" => /\ ~(AliasAccepts(job[c].alias, job[c].index) /\ Activated(job[c]))
                           /\ job[c].kind # "publish-evaluation"
  PROVE  CauseInv'
<1>1. Apart(c)
  BY DEF Apart, Stop, CauseInv, IInv, TypeOK
<1>2. exit'[c] = why /\ storeCall'[c] = "done" /\ at'[c] = "begin" /\ found'[c] = found[c] /\ job'[c] = job[c]
  BY DEF Stop, CauseInv, IInv, TypeOK
<1>3. CommandInv(c)
  BY DEF CauseInv
<1>4. LockInv(c)' /\ KnownInv(c)' /\ SeenInv(c)'
  BY <1>2 DEF LockInv, KnownInv, SeenInv, Calls
<1>5. FoundInv(c)'
  BY <1>2, <1>3 DEF CommandInv, FoundInv, Asked
<1>6. Explained(c)'
  BY <1>2 DEF Explained, Publishing, AliasAccepts, Activated
<1>7. \A a \in Alias : AliasInv(a)'
  BY AliasesKept
<1> QED
  BY <1>1, <1>4, <1>5, <1>6, <1>7, OthersKnow DEF CauseInv, CommandInv

LEMMA FailKeepsCause ==
  ASSUME CauseInv, IInv', NEW c \in Command, NEW why \in Failures, Fail(c, why),
         why \notin {"rejected", "mismatch"},
         why = "corrupt" => job[c].index \in Lossy,
         why = "missing" => ~Publishing(job[c]),
         why = "policy" => /\ ~(AliasAccepts(job[c].alias, job[c].index) /\ Activated(job[c]))
                           /\ job[c].kind # "publish-evaluation"
  PROVE  CauseInv'
<1>1. holder' = holder \/ holder \in {c, NoCommand}
  BY DEF Fail, FreeLock
<1> QED
  BY <1>1, StopKeepsCause DEF Fail

\* a statement of c's transaction
LEMMA StatementKeepsCause ==
  ASSUME CauseInv, IInv', NEW c \in Command, exit[c] = "running", holder' = c,
         holder \in {c, NoCommand},
         \A d \in Command \ {c} : /\ wrote'[d] = wrote[d] /\ at'[d] = at[d]
                                  /\ found'[d] = found[d] /\ changed'[d] = changed[d],
         UNCHANGED <<tables, job, storeCall, exit>>,
         SeenInv(c)', FoundInv(c)'
  PROVE  CauseInv'
<1>1. Apart(c)
  BY DEF Apart, CauseInv, IInv, TypeOK
<1>2. CommandInv(c)
  BY DEF CauseInv
<1>3. LockInv(c)' /\ KnownInv(c)' /\ Explained(c)'
  BY <1>2 DEF CommandInv, LockInv, KnownInv, Explained, tables
<1>4. \A a \in Alias : AliasInv(a)'
  BY AliasesKept
<1> QED
  BY <1>1, <1>3, <1>4, OthersKnow DEF CauseInv, CommandInv

\* What the parser, the store and the trigger admit, they admit alike.
LEMMA PoliciesAgree ==
  ASSUME NEW a \in Alias, NEW i \in Index
  PROVE  /\ AliasAccepts(a, i) /\ i \in versions => DatabaseAccepts(a, i)
         /\ <<a, i>> \in Entitled => AliasAccepts(a, i)
<1>1. OriginOf[i] \in Origin /\ NamespaceOf[a] \in {"current", "staging", "test", "free"}
  BY StoreAssumption
<1> QED
  BY <1>1 DEF DatabaseAccepts, AliasAccepts, Entitled, Admits, Origin

\* publish-evaluation has had its arguments checked, and opts in by itself.
LEMMA EvaluationAccepted ==
  ASSUME NEW j \in Tasks, j.kind = "publish-evaluation", ~ArgumentsRefused(j), j.alias \in Alias
  PROVE  AliasAccepts(j.alias, j.index) /\ Activated(j)
<1>1. OriginOf[j.index] = "evaluation_fixture" /\ j.alias # NoAlias
  BY JobAssumption, StoreAssumption
<1> QED
  BY <1>1 DEF ArgumentsRefused, AliasAccepts, Activated

\* what is committed can be loaded
LEMMA LoadsIffStored ==
  ASSUME IInv, NEW i \in Index
  PROVE  Loads(i) <=> i \in versions
BY DEF IInv, NoPartialVersion, Loads
\* What a commit does to the tables keeps every alias accounted for.
LEMMA ApplyKeepsAliases ==
  ASSUME CauseInv, NEW c \in Command, at[c] = "commit", Apply(c), job' = job
  PROVE  /\ holder = c /\ versions \subseteq versions'
         /\ \A a \in Alias : (alias[a] # NoIndex => alias'[a] # NoIndex) /\ AliasInv(a)'
<1>1. IInv /\ CommandInv(c) /\ WriteInv(c) /\ PlaceInv(c)
  BY DEF CauseInv, IInv
<1>2. holder = c
  BY <1>1 DEF CommandInv, LockInv
<1>3. versions \subseteq versions'
  BY DEF Apply
<1>4. ASSUME NEW a \in Alias
      PROVE  (alias[a] # NoIndex => alias'[a] # NoIndex) /\ AliasInv(a)'
  <2>1. CASE wrote[c].alias # NoIndex /\ a = job[c].alias
    <3>1. /\ storeCall[c] = "switch" /\ wrote[c].alias = job[c].index /\ job[c].index \in versions
          /\ <<a, job[c].index>> \in Entitled
      BY <1>1, <2>1 DEF WriteInv
    <3>2. alias'[a] = job[c].index
      BY <2>1, <3>1 DEF Apply
    <3>3. job[c].index \in Index
      BY <1>1, <3>1 DEF IInv, TypeOK
    <3>4. AliasAccepts(a, job[c].index)
      BY <3>1, <3>3, PoliciesAgree
    <3>5. job[c].kind # "alias-resolve"
      BY <1>1, <3>1 DEF CommandInv, KnownInv
    <3>6. Asked(a, job[c].index)'
      BY <2>1, <3>5 DEF Asked
    <3> QED
      BY <1>3, <2>1, <3>1, <3>2, <3>4, <3>6 DEF AliasInv, AliasAccepts
  <2>2. CASE ~(wrote[c].alias # NoIndex /\ a = job[c].alias)
    <3>1. alias'[a] = alias[a]
      BY <2>2 DEF Apply
    <3>2. AliasInv(a)
      BY DEF CauseInv
    <3> QED
      BY <1>3, <3>1, <3>2 DEF AliasInv, AliasAccepts, Asked
  <2> QED
    BY <2>1, <2>2
<1> QED
  BY <1>2, <1>3, <1>4

\* A commit: the next call finds what this one left.
LEMMA CommitKeepsCause ==
  ASSUME CauseInv, IInv', NEW c \in Command, Commit(c)
  PROVE  CauseInv'
<1> DEFINE j == job[c]
<1>1. /\ exit[c] = "running" /\ at[c] = "commit" /\ Apply(c) /\ job' = job
      /\ found' = found /\ changed' = changed
      /\ holder' = holder \/ holder \in {c, NoCommand}
  BY DEF Commit, FreeLock
<1>2. /\ exit'[c] = Verdict(c) /\ at'[c] = "begin"
      /\ storeCall'[c] = IF Verdict(c) = "running" THEN NextCall(j, storeCall[c]) ELSE "done"
      /\ \A d \in Command \ {c} : /\ wrote'[d] = wrote[d] /\ at'[d] = at[d]
                                  /\ storeCall'[d] = storeCall[d] /\ exit'[d] = exit[d]
  BY DEF Commit, MoveTo, CauseInv, IInv, TypeOK
<1>3. /\ holder = c /\ versions \subseteq versions'
      /\ \A a \in Alias : (alias[a] # NoIndex => alias'[a] # NoIndex) /\ AliasInv(a)'
  BY <1>1, ApplyKeepsAliases
<1>4. Apart(c)
  BY <1>1, <1>2, <1>3 DEF Apart
<1>5. CommandInv(c) /\ IInv /\ WriteInv(c) /\ PlaceInv(c)
  BY DEF CauseInv, IInv
<1>6. storeCall[c] \in Calls /\ j \in Tasks
  BY <1>1, <1>5 DEF PlaceInv, IInv, TypeOK
<1>7. LockInv(c)' /\ SeenInv(c)'
  BY <1>2 DEF LockInv, SeenInv
<1>8. FoundInv(c)'
  BY <1>1, <1>5 DEF CommandInv, FoundInv, Asked
<1>9. Explained(c)'
  <2>1. Verdict(c) \in {"running", "ok", "refused", "mismatch"}
    BY DEF Verdict
  <2>2. Verdict(c) = "mismatch" => storeCall[c] = "resolve" /\ found[c] # j.index
    BY DEF Verdict
  <2> QED
    BY <1>1, <1>2, <1>5, <2>1, <2>2 DEF Explained, CommandInv, SeenInv
<1>10. KnownInv(c)'
  <2>1. ~ArgumentsRefused(j)
    BY <1>5, <1>6 DEF CommandInv, KnownInv
  <2>2. ASSUME Publishing(j), storeCall'[c] \in {"load", "switch", "resolve"}
        PROVE  j.index \in versions'
    <3>1. CASE storeCall[c] = "publish"
      BY <1>1, <1>5, <3>1 DEF CommandInv, SeenInv, Apply
    <3>2. CASE storeCall[c] # "publish"
      BY <1>3, <1>5, <1>6, <2>2, <3>2 DEF CommandInv, KnownInv, Calls
    <3> QED
      BY <3>1, <3>2
  <2>3. ASSUME j.kind = "alias-resolve" PROVE storeCall'[c] = "done"
    <3>1. storeCall[c] = "resolve"
      BY <1>5, <1>6, <2>3 DEF CommandInv, KnownInv, Calls
    <3> QED
      BY <1>2, <3>1 DEF NextCall
  <2>4. ASSUME storeCall'[c] = "resolve" PROVE alias'[j.alias] # NoIndex
    <3>1. storeCall[c] = "switch"
      BY <1>2, <1>6, <2>4, NextCallFits
    <3>2. j.alias \in Alias /\ j.index \in Index /\ j.index # NoIndex
      BY <1>5, <1>6, <3>1, JobFields, StoreAssumption DEF PlaceInv
    <3>3. CASE wrote[c].alias # NoIndex
      BY <1>1, <3>2, <3>3 DEF Apply
    <3>4. CASE wrote[c].alias = NoIndex
      <4>1. alias[j.alias] = j.index
        BY <1>1, <1>5, <3>1, <3>4 DEF CommandInv, SeenInv
      <4> QED
        BY <1>3, <3>2, <4>1
    <3> QED
      BY <3>3, <3>4
  <2> QED
    BY <1>1, <2>1, <2>2, <2>3, <2>4 DEF KnownInv, ArgumentsRefused, Publishing
<1> QED
  BY <1>3, <1>4, <1>7, <1>8, <1>9, <1>10, OthersKnow DEF CauseInv, CommandInv

LEMMA AnswerLostKeepsCause ==
  ASSUME CauseInv, IInv', NEW c \in Command, AnswerLost(c)
  PROVE  CauseInv'
<1>1. /\ at[c] = "commit" /\ Apply(c) /\ Stop(c, "lost") /\ job' = job
      /\ UNCHANGED <<job, found, changed>>
      /\ holder' = holder \/ holder \in {c, NoCommand}
  BY DEF AnswerLost, FreeLock
<1>2. /\ holder = c /\ versions \subseteq versions'
      /\ \A a \in Alias : (alias[a] # NoIndex => alias'[a] # NoIndex) /\ AliasInv(a)'
  BY <1>1, ApplyKeepsAliases
<1> QED
  BY <1>1, <1>2, StopKeepsCause DEF Failures

LEMMA ConnectionLostKeepsCause ==
  ASSUME CauseInv, IInv', NEW c \in Command, ConnectionLost(c)
  PROVE  CauseInv'
<1>1. /\ Stop(c, "lost") /\ UNCHANGED <<job, found, changed>> /\ UNCHANGED tables
      /\ holder' = holder \/ holder \in {c, NoCommand}
  BY DEF ConnectionLost, FreeLock
<1> QED
  BY <1>1, StopKeepsCause DEF Failures

LEMMA StartKeepsCause ==
  ASSUME CauseInv, IInv', NEW c \in Command, Start(c)
  PROVE  CauseInv'
<1>1. CASE ArgumentsRefused(job[c])
  BY <1>1, FailKeepsCause DEF Start, Failures
<1>2. CASE ~ArgumentsRefused(job[c])
  <2>1. /\ exit[c] = "running" /\ storeCall[c] = "start"
        /\ storeCall' = [storeCall EXCEPT ![c] = FirstCall(job[c])]
        /\ UNCHANGED <<tables, holder, job, at, wrote, found, changed, exit, faults>>
    BY <1>2 DEF Start
  <2>2. CommandInv(c) /\ IInv /\ PlaceInv(c) /\ job[c] \in Tasks
    BY DEF CauseInv, IInv, TypeOK
  <2>3. at[c] = "begin"
    BY <2>1, <2>2 DEF PlaceInv, Calls
  <2>4. /\ storeCall'[c] = FirstCall(job[c])
        /\ \A d \in Command \ {c} : storeCall'[d] = storeCall[d]
    BY <2>1, <2>2 DEF IInv, TypeOK
  <2>5. Apart(c)
    BY <2>1, <2>4 DEF Apart
  <2>6. /\ FirstCall(job[c]) \in {"publish", "load", "resolve"}
        /\ Publishing(job[c]) => FirstCall(job[c]) = "publish"
        /\ FirstCall(job[c]) = "resolve" <=> job[c].kind = "alias-resolve"
    BY <2>2, JobFields DEF FirstCall, Publishing, Kind
  <2>7. KnownInv(c)'
    BY <1>2, <2>1, <2>4, <2>6 DEF KnownInv, ArgumentsRefused, Publishing
  <2>8. LockInv(c)' /\ SeenInv(c)'
    BY <2>1, <2>3 DEF LockInv, SeenInv
  <2>9. FoundInv(c)' /\ Explained(c)'
    BY <2>1, <2>2 DEF CommandInv, FoundInv, Asked, Explained
  <2>10. \A a \in Alias : AliasInv(a)'
    BY <2>1, AliasesKept
  <2> QED
    BY <2>5, <2>7, <2>8, <2>9, <2>10, OthersKnow DEF CauseInv, CommandInv
<1> QED
  BY <1>1, <1>2
LEMMA LockKeepsCause ==
  ASSUME CauseInv, IInv', NEW c \in Command, Lock(c)
  PROVE  CauseInv'
<1>1. /\ exit[c] = "running" /\ holder = NoCommand /\ holder' = c /\ at'[c] = "locked"
      /\ \A d \in Command \ {c} : at'[d] = at[d]
      /\ UNCHANGED <<tables, job, storeCall, wrote, found, changed, exit>>
  BY DEF Lock, MoveTo, CauseInv, IInv, TypeOK
<1>2. SeenInv(c)'
  BY <1>1 DEF SeenInv
<1>3. FoundInv(c)'
  BY <1>1 DEF CauseInv, CommandInv, FoundInv, Asked
<1> QED
  BY <1>1, <1>2, <1>3, StatementKeepsCause

\* The four steps of publish(): the row is missing from the look to the end.
LEMMA PublishKeepsCause ==
  ASSUME CauseInv, IInv', NEW c \in Command,
         PublishLooks(c) \/ InsertVersionRow(c) \/ InsertEntry(c) \/ ReadBack(c)
  PROVE  CauseInv'
<1> DEFINE i == job[c].index
<1> USE DEF IsAt
<1>1. CommandInv(c) /\ WriteInv(c) /\ IInv /\ i \in Index
  BY JobFields DEF CauseInv, IInv, TypeOK
<1>2. /\ exit[c] = "running" /\ storeCall[c] = "publish"
      /\ at[c] \in {"locked", "absent", "writing", "reading"} /\ holder = c
  BY <1>1 DEF PublishLooks, InsertVersionRow, InsertEntry, ReadBack, CommandInv, LockInv
<1>3. ~Fail(c, "rejected")
  <2>1. at[c] = "absent" => i \notin versions
    BY <1>1, <1>2 DEF CommandInv, SeenInv
  <2>2. SUFFICES ASSUME Fail(c, "rejected") PROVE FALSE
    OBVIOUS
  <2>3. exit'[c] = "rejected" /\ at'[c] = "begin"
    BY <2>2 DEF Fail, Stop, CauseInv, IInv, TypeOK
  <2> QED
    BY <1>2, <2>1, <2>3
    DEF PublishLooks, InsertVersionRow, InsertEntry, ReadBack, Fail, Stop, MoveTo, CauseInv, IInv, TypeOK
<1>4. CASE Fail(c, "corrupt")
  <2>1. exit'[c] = "corrupt" /\ at'[c] = "begin"
    BY <1>4 DEF Fail, Stop, CauseInv, IInv, TypeOK
  <2>2. ~PublishLooks(c)
    BY <1>1, <1>2, <2>1, LoadsIffStored DEF PublishLooks, MoveTo, CauseInv, IInv, TypeOK
  <2>3. ReadBack(c)
    BY <1>2, <2>1, <2>2 DEF InsertVersionRow, InsertEntry, MoveTo, Fail, Stop, CauseInv, IInv, TypeOK
  <2>4. wrote[c].version /\ wrote[c].entries = Entries /\ i \notin versions
    BY <1>1, <2>3 DEF ReadBack, CommandInv, SeenInv, WriteInv
  <2>5. Visible(c, i) = Entries
    BY <2>4 DEF Visible
  <2>6. i \in Lossy
    BY <1>2, <2>1, <2>3, <2>5 DEF ReadBack
  <2> QED
    BY <1>4, <2>6, FailKeepsCause DEF Failures
<1>5. CASE ~Fail(c, "corrupt")
  <2>1. /\ holder' = c /\ UNCHANGED <<tables, job, storeCall, exit, found>>
        /\ \A d \in Command \ {c} : /\ wrote'[d] = wrote[d] /\ at'[d] = at[d]
                                    /\ changed'[d] = changed[d]
    BY <1>2, <1>3, <1>5 DEF PublishLooks, InsertVersionRow, InsertEntry, ReadBack, MoveTo, CauseInv, IInv, TypeOK
  <2>2. SeenInv(c)'
    <3>1. CASE PublishLooks(c)
      BY <1>1, <1>2, <1>5, <3>1 DEF PublishLooks, MoveTo, SeenInv, WriteInv, IInv, TypeOK, tables
    <3>2. CASE InsertVersionRow(c)
      BY <1>1, <1>2, <1>3, <3>2 DEF InsertVersionRow, MoveTo, SeenInv, CommandInv, IInv, TypeOK, tables
    <3>3. CASE InsertEntry(c)
      BY <1>1, <1>2, <3>3 DEF InsertEntry, MoveTo, SeenInv, CommandInv, IInv, TypeOK, tables
    <3>4. CASE ReadBack(c)
      BY <1>1, <1>2, <1>5, <3>4 DEF ReadBack, MoveTo, SeenInv, CommandInv, IInv, TypeOK, tables
    <3> QED
      BY <3>1, <3>2, <3>3, <3>4
  <2>3. FoundInv(c)'
    BY <1>1, <2>1 DEF CommandInv, FoundInv, Asked
  <2> QED
    BY <1>2, <2>1, <2>2, <2>3, StatementKeepsCause
<1> QED
  BY <1>4, <1>5

\* _load outside publish(): only alias-switch and alias-resolve can miss
LEMMA UnloadableIsMissing ==
  ASSUME CauseInv, NEW c \in Command, storeCall[c] \in {"load", "switch"}, ~Loads(job[c].index)
  PROVE  Unloadable(job[c].index) = "missing" /\ ~Publishing(job[c])
<1>1. CommandInv(c) /\ IInv /\ job[c].index \in Index
  BY JobFields DEF CauseInv, IInv, TypeOK
<1>2. job[c].index \notin versions
  BY <1>1, LoadsIffStored
<1> QED
  BY <1>1, <1>2 DEF Unloadable, CommandInv, KnownInv

LEMMA LoadKeepsCause ==
  ASSUME CauseInv, IInv', NEW c \in Command, Load(c)
  PROVE  CauseInv'
<1>1. CommandInv(c) /\ exit[c] = "running" /\ storeCall[c] = "load" /\ at[c] = "locked" /\ holder = c
  BY DEF Load, IsAt, CauseInv, CommandInv, LockInv
<1>2. CASE Loads(job[c].index)
  <2>1. /\ at'[c] = "commit" /\ \A d \in Command \ {c} : at'[d] = at[d]
        /\ UNCHANGED <<tables, holder, job, storeCall, wrote, found, changed, exit>>
    BY <1>2 DEF Load, MoveTo, CauseInv, IInv, TypeOK
  <2>2. SeenInv(c)' /\ FoundInv(c)'
    BY <1>1, <2>1 DEF SeenInv, CommandInv, FoundInv, Asked
  <2> QED
    BY <1>1, <2>1, <2>2, StatementKeepsCause
<1>3. CASE ~Loads(job[c].index)
  <2>1. Unloadable(job[c].index) = "missing" /\ ~Publishing(job[c])
    BY <1>1, <1>3, UnloadableIsMissing
  <2>2. Fail(c, "missing")
    BY <1>3, <2>1 DEF Load
  <2> QED
    BY <2>1, <2>2, FailKeepsCause DEF Failures
<1> QED
  BY <1>2, <1>3

\* The two steps of switch_alias(): what is upserted was looked at before.
LEMMA SwitchKeepsCause ==
  ASSUME CauseInv, IInv', NEW c \in Command, SwitchLooks(c) \/ UpsertAlias(c)
  PROVE  CauseInv'
<1> DEFINE i == job[c].index
<1> DEFINE a == job[c].alias
<1> USE DEF IsAt
<1>1. CommandInv(c) /\ WriteInv(c) /\ IInv /\ i \in Index /\ i # NoIndex /\ job[c] \in Tasks
  BY JobFields, StoreAssumption DEF CauseInv, IInv, TypeOK
<1>2. /\ exit[c] = "running" /\ storeCall[c] = "switch"
      /\ at[c] \in {"locked", "upsert"} /\ holder = c
  BY <1>1 DEF SwitchLooks, UpsertAlias, CommandInv, LockInv
<1>3. a \in Alias
  BY <1>1, <1>2 DEF CauseInv, IInv, PlaceInv
<1>4. CASE SwitchLooks(c) /\ ~Loads(i)
  <2>1. Unloadable(i) = "missing" /\ ~Publishing(job[c])
    BY <1>2, <1>4, UnloadableIsMissing
  <2>2. Fail(c, "missing")
    BY <1>4, <2>1 DEF SwitchLooks
  <2> QED
    BY <2>1, <2>2, FailKeepsCause DEF Failures
<1>5. CASE SwitchLooks(c) /\ Loads(i) /\ ~(AliasAccepts(a, i) /\ Activated(job[c]))
  <2>1. Fail(c, "policy")
    BY <1>5 DEF SwitchLooks
  <2>2. ~ArgumentsRefused(job[c])
    BY <1>1, <1>2 DEF CommandInv, KnownInv, Calls
  <2>3. job[c].kind # "publish-evaluation"
    BY <1>1, <1>3, <1>5, <2>2, EvaluationAccepted
  <2> QED
    BY <1>5, <2>1, <2>3, FailKeepsCause DEF Failures
<1>6. CASE SwitchLooks(c) /\ Loads(i) /\ AliasAccepts(a, i) /\ Activated(job[c])
  <2>1. /\ at'[c] = IF alias[a] = i THEN "commit" ELSE "upsert"
        /\ changed'[c] = (alias[a] # i)
        /\ \A d \in Command \ {c} : at'[d] = at[d] /\ changed'[d] = changed[d]
        /\ UNCHANGED <<tables, holder, job, storeCall, wrote, found, exit>>
    BY <1>6 DEF SwitchLooks, MoveTo, CauseInv, IInv, TypeOK
  <2>2. wrote'[c].alias = NoIndex /\ i \in versions
    BY <1>1, <1>2, <1>6, <2>1, LoadsIffStored DEF SwitchLooks, WriteInv
  <2>3. SeenInv(c)'
    BY <1>2, <1>6, <2>1, <2>2 DEF SeenInv, AliasAccepts, Activated, tables
  <2>4. FoundInv(c)'
    BY <1>1, <2>1 DEF CommandInv, FoundInv, Asked
  <2> QED
    BY <1>2, <2>1, <2>3, <2>4, StatementKeepsCause
<1>7. CASE UpsertAlias(c)
  <2>1. /\ at[c] = "upsert" /\ i \in versions /\ AliasAccepts(a, i)
        /\ changed[c] /\ alias[a] # i /\ Activated(job[c])
    BY <1>1, <1>2, <1>7 DEF UpsertAlias, CommandInv, SeenInv
  <2>2. DatabaseAccepts(a, i)
    BY <1>1, <1>3, <2>1, PoliciesAgree
  <2>3. /\ at'[c] = "commit" /\ wrote'[c].alias = i
        /\ \A d \in Command \ {c} : at'[d] = at[d] /\ wrote'[d] = wrote[d]
        /\ UNCHANGED <<tables, holder, job, storeCall, found, changed, exit>>
    BY <1>7, <2>2 DEF UpsertAlias, MoveTo, CauseInv, IInv, TypeOK
  <2>4. SeenInv(c)'
    BY <1>1, <1>2, <2>1, <2>3 DEF SeenInv, Activated, tables
  <2>5. FoundInv(c)'
    BY <1>1, <2>3 DEF CommandInv, FoundInv, Asked
  <2> QED
    BY <1>2, <2>3, <2>4, <2>5, StatementKeepsCause
<1> QED
  BY <1>4, <1>5, <1>6, <1>7

\* resolve_alias(): what an alias names is stored and admitted
LEMMA ResolveKeepsCause ==
  ASSUME CauseInv, IInv', NEW c \in Command, ResolveAlias(c)
  PROVE  CauseInv'
<1> DEFINE a == job[c].alias
<1> DEFINE i == alias[a]
<1> USE DEF IsAt
<1>1. CommandInv(c) /\ IInv /\ job[c] \in Tasks
  BY DEF CauseInv, IInv, TypeOK
<1>2. exit[c] = "running" /\ storeCall[c] = "resolve" /\ at[c] = "locked" /\ holder = c
  BY <1>1 DEF ResolveAlias, CommandInv, LockInv
<1>3. a \in Alias /\ i \in Index \cup {NoIndex}
  BY <1>1, <1>2 DEF IInv, PlaceInv, TypeOK
<1>4. CASE i = NoIndex
  <2>1. Fail(c, "missing")
    BY <1>4 DEF ResolveAlias
  <2>2. ~Publishing(job[c])
    BY <1>1, <1>2, <1>4 DEF CommandInv, KnownInv, Publishing
  <2> QED
    BY <2>1, <2>2, FailKeepsCause DEF Failures
<1>5. CASE i # NoIndex
  <2>1. i \in versions /\ AliasAccepts(a, i) /\ Asked(a, i)
    BY <1>3, <1>5 DEF CauseInv, AliasInv
  <2>2. Loads(i)
    BY <1>1, <1>3, <1>5, <2>1, LoadsIffStored
  <2>3. /\ found' = [found EXCEPT ![c] = i] /\ MoveTo(c, "commit")
        /\ UNCHANGED <<tables, holder, job, storeCall, wrote, changed, exit>>
    BY <1>5, <2>1, <2>2 DEF ResolveAlias
  <2> HIDE DEF i
  <2>4. /\ found'[c] = i /\ at'[c] = "commit"
        /\ \A d \in Command \ {c} : at'[d] = at[d] /\ found'[d] = found[d]
    BY <1>1, <2>3 DEF MoveTo, IInv, TypeOK
  <2>5. SeenInv(c)'
    BY <1>2, <1>5, <2>3, <2>4 DEF SeenInv
  <2>6. FoundInv(c)'
    BY <2>1, <2>3, <2>4 DEF FoundInv, Asked
  <2> QED
    BY <1>2, <2>3, <2>4, <2>5, <2>6, StatementKeepsCause
<1> QED
  BY <1>4, <1>5

LEMMA CauseNext == CauseInv /\ [Next]_vars => CauseInv'
<1> SUFFICES ASSUME CauseInv, [Next]_vars PROVE CauseInv'
  OBVIOUS
<1>1. IInv'
  BY NextStored DEF CauseInv
<1>2. CASE UNCHANGED vars
  <2>1. \A a \in Alias : AliasInv(a)'
    BY <1>2, AliasesKept DEF vars, tables
  <2>2. ASSUME NEW c \in Command PROVE CommandInv(c)'
    <3>1. CommandInv(c)
      BY DEF CauseInv
    <3>2. LockInv(c)' /\ KnownInv(c)'
      BY <1>2, <3>1 DEF vars, CommandInv, LockInv, KnownInv, ArgumentsRefused, Publishing
    <3>3. SeenInv(c)'
      BY <1>2, <3>1 DEF vars, CommandInv, SeenInv, AliasAccepts, Activated
    <3>4. FoundInv(c)' /\ Explained(c)'
      BY <1>2, <3>1 DEF vars, CommandInv, FoundInv, Asked, Explained, Publishing, AliasAccepts, Activated
    <3> QED
      BY <3>2, <3>3, <3>4 DEF CommandInv
  <2> QED
    BY <1>1, <2>1, <2>2 DEF CauseInv
<1> QED
  BY <1>1, <1>2, StartKeepsCause, LockKeepsCause, PublishKeepsCause, LoadKeepsCause,
     SwitchKeepsCause, ResolveKeepsCause, CommitKeepsCause, AnswerLostKeepsCause,
     ConnectionLostKeepsCause DEF Next, Step, Finished

\* A command of the index store fails for a cause of its own: no row is ever
\* rejected by the database, nothing stored is corrupt, what was published is
\* found, and an alias resolves to another index only when somebody else was
\* asked to switch it there (publish(), switch_alias(), resolve_alias()).
THEOREM FailuresHaveACause == Spec => []FailuresAreExplained
<1>1. CauseInv => FailuresAreExplained
  <2> SUFFICES ASSUME CauseInv, NEW c \in Command
               PROVE  /\ Explained(c)
                      /\ exit[c] = "mismatch" =>
                           \E d \in Command \ {c} : /\ job[d].index = found[c]
                                                    /\ job[d].alias = job[c].alias
                                                    /\ job[d].kind # "alias-resolve"
    BY DEF FailuresAreExplained, Explained
  <2>1. FoundInv(c) /\ Explained(c)
    BY DEF CauseInv, CommandInv
  <2> QED
    BY <2>1 DEF FoundInv, Explained, Asked
<1> QED
  BY <1>1, CauseInit, CauseNext, PTL DEF Spec
\* A commit told the truth about what it changed.
LEMMA CommitsTellTheTruth ==
  ASSUME CauseInv, NEW c \in Command, Commit(c)
  PROVE  /\ storeCall[c] = "publish" =>
              (changed[c] <=> job[c].index \notin versions) /\ job[c].index \in versions'
         /\ storeCall[c] = "switch" =>
              /\ changed[c] <=> alias[job[c].alias] # job[c].index
              /\ alias'[job[c].alias] = job[c].index
<1> DEFINE i == job[c].index
<1> DEFINE a == job[c].alias
<1>1. at[c] = "commit" /\ Apply(c) /\ CommandInv(c) /\ WriteInv(c) /\ PlaceInv(c)
  BY DEF Commit, CauseInv, IInv
<1>2. ASSUME storeCall[c] = "publish" PROVE (changed[c] <=> i \notin versions) /\ i \in versions'
  BY <1>1, <1>2 DEF CommandInv, SeenInv, Apply
<1>3. ASSUME storeCall[c] = "switch" PROVE (changed[c] <=> alias[a] # i) /\ alias'[a] = i
  <2>1. /\ changed[c] <=> alias[a] # i
        /\ wrote[c].alias # NoIndex <=> alias[a] # i
        /\ wrote[c].alias # NoIndex => wrote[c].alias = i
        /\ a \in Alias
    BY <1>1, <1>3 DEF CommandInv, SeenInv, WriteInv, PlaceInv
  <2>2. alias'[a] = IF wrote[c].alias # NoIndex THEN wrote[c].alias ELSE alias[a]
    BY <1>1, <2>1 DEF Apply
  <2> QED
    BY <2>1, <2>2
<1> QED
  BY <1>2, <1>3

\* An alias that a commit moved was moved for a command that asked for it.
LEMMA MovesAreAskedFor ==
  ASSUME CauseInv, NEW c \in Command, at[c] = "commit", Apply(c),
         NEW a \in Alias, alias'[a] # alias[a]
  PROVE  /\ job[c].alias = a /\ job[c].index = alias'[a]
         /\ OriginOf[alias'[a]] = "evaluation_fixture" => job[c].evaluation
         /\ OriginOf[alias'[a]] = "golden_fixture" => job[c].golden
<1>1. CommandInv(c) /\ WriteInv(c) /\ job[c] \in Tasks
  BY DEF CauseInv, IInv, TypeOK
<1>2. wrote[c].alias # NoIndex /\ a = job[c].alias /\ alias'[a] = wrote[c].alias
  BY DEF Apply
<1>3. storeCall[c] = "switch" /\ alias'[a] = job[c].index
  BY <1>1, <1>2 DEF WriteInv
<1>4. Activated(job[c]) /\ ~ArgumentsRefused(job[c])
  BY <1>1, <1>3 DEF CommandInv, SeenInv, KnownInv, Calls
<1> QED
  BY <1>2, <1>3, <1>4 DEF Activated, ArgumentsRefused

\* who commits, and who touches the tables
LEMMA OnlyCommitsCommit ==
  ASSUME CauseInv, [Next]_vars, NEW c \in Command,
         at[c] = "commit", at'[c] = "begin", exit'[c] # "lost"
  PROVE  Commit(c)
<1>1. exit[c] = "running" /\ TypeOK
  BY DEF CauseInv, IInv, CommandInv, LockInv
<1>2. ASSUME NEW d \in Command, Step(d) \/ ConnectionLost(d) \/ AnswerLost(d) PROVE d = c
  <2>1. d # c => at'[c] = at[c]
    BY <1>1, <1>2 DEF TypeOK, Step, Start, Lock, PublishLooks, InsertVersionRow, InsertEntry, ReadBack,
       Load, SwitchLooks, UpsertAlias, ResolveAlias, Commit, ConnectionLost, AnswerLost,
       Fail, Stop, MoveTo
  <2> QED
    BY <2>1
<1>3. ~ConnectionLost(c) /\ ~AnswerLost(c)
  BY <1>1 DEF ConnectionLost, AnswerLost, Stop, TypeOK
<1>4. Step(c)
  BY <1>2, <1>3 DEF Next, Finished, vars
<1>5. storeCall[c] # "start"
  BY DEF CauseInv, IInv, PlaceInv, Calls
<1> QED
  BY <1>4, <1>5 DEF Step, Start, Lock, PublishLooks, InsertVersionRow, InsertEntry, ReadBack, Load,
     SwitchLooks, UpsertAlias, ResolveAlias, IsAt

LEMMA OnlyCommitsMove ==
  ASSUME [Next]_vars, NEW a \in Alias, alias'[a] # alias[a]
  PROVE  \E c \in Command : at[c] = "commit" /\ Apply(c)
<1>1. alias' # alias
  OBVIOUS
<1> QED
  BY <1>1 DEF Next, Step, Finished, vars, tables, Start, Lock, PublishLooks, InsertVersionRow,
     InsertEntry, ReadBack, Load, SwitchLooks, UpsertAlias, ResolveAlias, ConnectionLost, Fail,
     Commit, AnswerLost

\* What publish() and switch_alias() return is what their transaction did, and
\* no alias moves to a fixture unless a command asked for this alias and this
\* index and opted in to this kind (_validate_fixture_activation).
THEOREM MovesAreHonest == Spec => MovesAreAskedForAndTold
<1> DEFINE Honest ==
     /\ \A c \in Command : at[c] = "commit" /\ at'[c] = "begin" /\ exit'[c] # "lost" =>
          LET i == job[c].index IN
          /\ storeCall[c] = "publish" => (changed[c] <=> i \notin versions) /\ i \in versions'
          /\ storeCall[c] = "switch" => (changed[c] <=> alias[job[c].alias] # i)
                                    /\ alias'[job[c].alias] = i
     /\ \A a \in Alias : alias'[a] # alias[a] =>
          \E c \in Command :
            /\ job[c].alias = a /\ job[c].index = alias'[a]
            /\ OriginOf[alias'[a]] = "evaluation_fixture" => job[c].evaluation
            /\ OriginOf[alias'[a]] = "golden_fixture" => job[c].golden
<1>1. CauseInv /\ [Next]_vars => Honest
  <2> SUFFICES ASSUME CauseInv, [Next]_vars PROVE Honest
    OBVIOUS
  <2>1. ASSUME NEW c \in Command, at[c] = "commit", at'[c] = "begin", exit'[c] # "lost"
        PROVE  LET i == job[c].index IN
               /\ storeCall[c] = "publish" => (changed[c] <=> i \notin versions) /\ i \in versions'
               /\ storeCall[c] = "switch" => (changed[c] <=> alias[job[c].alias] # i)
                                         /\ alias'[job[c].alias] = i
    BY <2>1, OnlyCommitsCommit, CommitsTellTheTruth
  <2>2. ASSUME NEW a \in Alias, alias'[a] # alias[a]
        PROVE  \E c \in Command :
                 /\ job[c].alias = a /\ job[c].index = alias'[a]
                 /\ OriginOf[alias'[a]] = "evaluation_fixture" => job[c].evaluation
                 /\ OriginOf[alias'[a]] = "golden_fixture" => job[c].golden
    BY <2>2, OnlyCommitsMove, MovesAreAskedFor
  <2> QED
    BY <2>1, <2>2
<1>2. CauseInv /\ [Next]_vars => [Honest]_vars
  BY <1>1
<1> QED
  BY <1>2, CauseInit, CauseNext, PTL DEF Spec, MovesAreAskedForAndTold
=============================================================================
