----------------------------- MODULE ChangeReview -----------------------------
(***************************************************************************)
(* From a diff to review units: code_analysis/change_set.py normalizes the *)
(* changed files, change_review.py and review_units.py assign the changed  *)
(* lines of both sides to regions and declarations, and models.py checks   *)
(* the units, the file results and the whole graph.                        *)
(*                                                                         *)
(* A file is its lines, the declarations and regions the parser found in   *)
(* each of its two sources, and its ChangeAtoms.  Identities are hashes of *)
(* their content: a record stands for its own.  Paths, revisions, text,    *)
(* positions in the diff and the quality of the parse are left out, and so *)
(* are arguments of the wrong type.                                        *)
(***************************************************************************)
EXTENDS Naturals, Sequences, FiniteSets, SequencesExt, FiniteSetsExt

CONSTANTS
  ChangeSets,     \* diffs: sequences of changed files
  MaxBuildLines,  \* a build method of more lines is shown by UI blocks (160)
  Window          \* lines of context around a change without declaration (20)

\* from .. to are offsets in the source: structures may share a line
IsRegion(r) ==
  /\ {r.first, r.last} \subseteq Nat \ {0} /\ {r.from, r.to} \subseteq Nat
  /\ r.first <= r.last /\ r.from < r.to
IsDeclaration(d) ==
  /\ {d.first, d.last} \subseteq Nat \ {0} /\ {d.from, d.to} \subseteq Nat
  /\ d.first <= d.last /\ d.from < d.to
IsSource(s) ==
  /\ s.lines \in Nat
  /\ \A d \in s.declarations : IsDeclaration(d) /\ d.last <= s.lines
  /\ \A r \in s.regions : IsRegion(r) /\ r.last <= s.lines

Role == {"base", "head"}

\* ReviewUnitSpan and ChangeAtomInput: what a caller can write down
IsAtom(a) ==
  \A r \in Role :
    /\ a.lines[r] \subseteq Nat \ {0}
    /\ a.span[r] = <<>> \/ a.span[r] \in (Nat \ {0}) \X (Nat \ {0})

ASSUME ChangeAssumption ==
  /\ MaxBuildLines \in Nat \ {0} /\ Window \in Nat
  /\ \A set \in ChangeSets :
       /\ DOMAIN set \subseteq Nat
       /\ \A f \in DOMAIN set :
            /\ \A r \in Role : IsSource(set[f].source[r])
            /\ \A atom \in set[f].atoms : IsAtom(atom)

VARIABLES
  diff,    \* the changed files handed in
  stage,   \* "diff", "set", "build", "reviewed", "routed", "planning", "refused", "raised" or
           \* "files", while files without a change set are analyzed
  results  \* the file results so far: [file, role, units, unassigned]

reviewVars == <<diff, stage, results>>

-----------------------------------------------------------------------------
(* Normalization.  A file: status, binary, same (are both sources equal?), *)
(* source: the two sources, atoms: a set of atoms.  An atom: its kind and, *)
(* per role, its span <<first, last>>, <<>> if there is none, and lines.   *)

Roles(file) ==
  IF file.binary THEN {}
  ELSE Role \ (CASE file.status = "added" -> {"base"} [] file.status = "deleted" -> {"head"} [] OTHER -> {})

KindSides(kind) ==
  CASE kind = "addition" -> {"head"} [] kind = "deletion" -> {"base"} [] OTHER -> Role

\* ChangeAtom.validate() and _exact_line_range()
AtomFits(file, atom) ==
  \A r \in Role :
    IF r \in KindSides(atom.kind)
    THEN /\ r \in Roles(file)
         /\ atom.lines[r] # {} /\ atom.span[r] # <<>>
         /\ atom.span[r][2] <= file.source[r].lines
         /\ atom.lines[r] \subseteq atom.span[r][1] .. atom.span[r][2]
    ELSE atom.lines[r] = {} /\ atom.span[r] = <<>>

LinesOf(atoms, r) == UNION {atom.lines[r] : atom \in atoms}

\* every changed line of a side belongs to one atom
Disjoint(atoms, r) == \A a, b \in atoms : a # b => a.lines[r] \cap b.lines[r] = {}

\* _validate_file_atom_semantics(), but for the lines of two atoms
Covers(file) ==
  CASE file.status = "added" ->
         /\ \A a \in file.atoms : a.kind = "addition"
         /\ LinesOf(file.atoms, "head") = 1 .. file.source["head"].lines
    [] file.status = "deleted" ->
         /\ \A a \in file.atoms : a.kind = "deletion"
         /\ LinesOf(file.atoms, "base") = 1 .. file.source["base"].lines
    [] OTHER -> IF file.same THEN file.status = "renamed" /\ file.atoms = {} ELSE file.atoms # {}

\* normalize_change_set(), for one file
Normalizes(file) ==
  IF file.binary THEN file.atoms = {}
  ELSE /\ \A atom \in file.atoms : AtomFits(file, atom)
       /\ \A r \in Role : Disjoint(file.atoms, r)
       /\ Covers(file)

\* ChangedFile.validate() and ChangeSet.validate()
ChangedFileFits(file) ==
  /\ file.binary => file.atoms = {}
  /\ ~file.binary /\ file.status = "modified" => file.atoms # {}
  /\ \A atom \in file.atoms : KindSides(atom.kind) \subseteq Roles(file)
  /\ \A r \in Role : Disjoint(file.atoms, r)

\* _validate_snapshot_file_semantics(), once more, from the snapshots
SnapshotsFit(file) == file.binary \/ Covers(file)

-----------------------------------------------------------------------------
(* Regions and declarations.                                               *)

Has(x, line) == x.first <= line /\ line <= x.last
Within(outer, inner) == outer.first <= inner.first /\ inner.last <= outer.last
StrictlyWithin(outer, inner) ==
  Within(outer, inner) /\ (outer.first # inner.first \/ outer.last # inner.last)

\* _strictly_contains_region(), by offsets
InsideRegion(outer, inner) ==
  /\ outer.from <= inner.from /\ inner.to <= outer.to
  /\ outer.from # inner.from \/ outer.to # inner.to

\* _assign_regions(): the innermost regions of a line, all of them
RegionLines(region, source, lines) ==
  {l \in lines :
     /\ Has(region, l)
     /\ ~\E other \in source.regions : Has(other, l) /\ InsideRegion(region, other)}

Remaining(source, lines) == {l \in lines : \A r \in source.regions : ~Has(r, l)}

\* _line_runs()
Runs(lines) ==
  {run \in lines \X lines :
     /\ run[1] .. run[2] \subseteq lines /\ run[1] <= run[2]
     /\ run[1] - 1 \notin lines /\ run[2] + 1 \notin lines}

Overlaps(d, run) == d.first <= run[2] /\ run[1] <= d.last

\* _linewise_declaration_assignments(): the innermost of the candidates, all
\* of them if several have the same lines
Linewise(candidates, run) ==
  LET lines(d) ==
        {l \in run[1] .. run[2] :
           Has(d, l) /\ ~\E other \in candidates : Has(other, l) /\ StrictlyWithin(d, other)}
  IN {[owner |-> d, lines |-> lines(d)] : d \in {c \in candidates : lines(c) # {}}}

Precise == {"method", "function", "builder", "build_method"}
Host == {"struct", "class"}
LargeBuilds(covering) ==
  {d \in covering : d.kind = "build_method" /\ d.last - d.first + 1 > MaxBuildLines}

\* the UI blocks that stand for parts of a large build method
UiBlocks(covering) ==
  {d \in covering : d.kind = "ui_block" /\ \E b \in LargeBuilds(covering) : Within(b, d)}

\* methods, functions, builders, UI blocks, and the classes inside them
Candidates(covering) ==
  LET precise == {d \in covering : d.kind \in Precise} \cup UiBlocks(covering)
  IN precise \cup {d \in covering : d.kind \in Host /\ \E c \in precise : StrictlyWithin(c, d)}

\* _assign_declarations()
AssignDeclarations(source, run) ==
  LET covering == {d \in source.declarations : Overlaps(d, run)}
      hosts == {d \in covering : d.kind \in Host}
      precise == Linewise(Candidates(covering), run)
  IN IF precise # {} THEN precise
     ELSE IF hosts # {} THEN Linewise(hosts, run)
     ELSE Linewise(covering, run)

\* the selection reason of a declaration in a run
ReasonOf(source, run, d) ==
  LET covering == {x \in source.declarations : Overlaps(x, run)} IN
  IF d \in UiBlocks(covering) THEN "large_build_ui_block" ELSE "innermost_changed_declaration"

-----------------------------------------------------------------------------
(* Units.                                                                  *)

Span(x) == [first |-> x.first, last |-> x.last]
Unit(what, owner, context, lines, reason) ==
  [what |-> what, owner |-> owner, context |-> context, lines |-> lines, reason |-> reason]

\* _build_region_unit()
RegionUnits(source, lines) ==
  {Unit("region", r, Span(r), RegionLines(r, source, lines), "changed_review_region") :
     r \in {x \in source.regions : RegionLines(x, source, lines) # {}}}

\* _fallback_unit()
FallbackUnit(source, run) ==
  LET shown == [first |-> IF run[1] > Window THEN run[1] - Window ELSE 1,
                last |-> Min({source.lines, run[2] + Window})]
  IN Unit("fallback", [first |-> run[1], last |-> run[2]], shown, run[1] .. run[2], "fallback_window")

\* _units_for_hunk()
UnitsForRun(source, run) ==
  IF \A d \in source.declarations : ~Overlaps(d, run) THEN {FallbackUnit(source, run)}
  ELSE {Unit("declaration", a.owner, Span(a.owner), a.lines, ReasonOf(source, run, a.owner)) :
          a \in AssignDeclarations(source, run)}

Identity(u) == <<u.what, u.owner, u.context>>

\* _validate_merge()
MayMerge(us) == \A u, v \in us : Identity(u) = Identity(v) => u.reason = v.reason

\* _deduplicate_units(): one unit for all lines of an identity
Merged(us) ==
  {[u EXCEPT !.lines = UNION {v.lines : v \in {w \in us : Identity(w) = Identity(u)}}] : u \in us}

\* ReviewUnit.validate(): its lines are in what it shows, and some remain
UnitFits(u) ==
  /\ u.context.first <= u.owner.first /\ u.owner.last <= u.context.last
  /\ u.lines # {} /\ \A l \in u.lines : Has(u.context, l)
  /\ u.what = "fallback" <=> u.reason = "fallback_window"

\* the atoms of a side, and those that a unit's lines belong to
SideAtoms(file, r) == {atom \in file.atoms : r \in KindSides(atom.kind)}
AtomsOf(file, r, lines) == {atom \in SideAtoms(file, r) : atom.lines[r] \cap lines # {}}

\* the atoms that are not covered in full
Unassigned(file, r, us) ==
  {atom \in SideAtoms(file, r) : ~(atom.lines[r] \subseteq UNION {u.lines : u \in us})}

\* mutant: the units keep the lines of atoms that are reported
Dropped_Kept(us, lost) == us

\* _drop_unassigned_atoms()
Dropped(us, lost) ==
  {u \in {[v EXCEPT !.lines = @ \ lost] : v \in us} : u.lines # {}}

\* a ReviewUnitFileResult of one source, _build_source_result()
FileResult(set, f, r) ==
  LET file == set[f]
      source == file.source[r]
      lines == LinesOf(SideAtoms(file, r), r)
      all == RegionUnits(source, lines)
               \cup Merged(UNION {UnitsForRun(source, run) : run \in Runs(Remaining(source, lines))})
      lost == Unassigned(file, r, all)
  IN [file |-> f, role |-> r, units |-> Dropped(all, LinesOf(lost, r)), unassigned |-> lost]

\* what _validate_merge() and ReviewUnit.validate() see before lines are dropped
Builds(set, f, r) ==
  LET file == set[f]
      source == file.source[r]
      lines == LinesOf(SideAtoms(file, r), r)
      built == UNION {UnitsForRun(source, run) : run \in Runs(Remaining(source, lines))}
  IN /\ \A atom \in SideAtoms(file, r) : atom.span[r][2] <= source.lines
     /\ Disjoint(SideAtoms(file, r), r)
     /\ MayMerge(built)
     /\ \A u \in RegionUnits(source, lines) \cup Merged(built) : UnitFits(u)

\* ReviewUnitFileResult.validate()
FileResultFits(set, result) ==
  LET covered == UNION {u.lines : u \in result.units} IN
  /\ \A u \in result.units : UnitFits(u)
  /\ \A u, v \in result.units : u # v => Identity(u) # Identity(v)
  /\ covered \cap LinesOf(result.unassigned, result.role) = {}
  /\ AtomsOf(set[result.file], result.role, covered) \cap result.unassigned = {}

\* the sources of a change set, and those that results were made of
SourcesOf(set) == {s \in (DOMAIN set) \X Role : s[2] \in Roles(set[s[1]])}
MadeOf(made) == {<<made[k].file, made[k].role>> : k \in DOMAIN made}

\* one file after the other, base before head
IsNextSource(s, pending) ==
  /\ s \in pending
  /\ \A t \in pending \ {s} : s[1] < t[1] \/ (s[1] = t[1] /\ s[2] = "base")

\* _validate_change_set_build_graph()
GraphFits(set, made) ==
  /\ MadeOf(made) = SourcesOf(set)
  /\ \A k \in DOMAIN made :
       LET side == SideAtoms(set[made[k].file], made[k].role)
           covered == UNION {u.lines : u \in made[k].units}
       IN /\ made[k].unassigned \subseteq side
          /\ covered \subseteq LinesOf(side, made[k].role)
          /\ \A atom \in side :
               covered \cap atom.lines[made[k].role]
                 = IF atom \in made[k].unassigned THEN {} ELSE atom.lines[made[k].role]

-----------------------------------------------------------------------------
ReviewInit ==
  /\ diff \in ChangeSets
  /\ stage = "diff"
  /\ results = <<>>

\* normalize_change_set() and the validation of what it makes
Normalize ==
  /\ stage = "diff"
  /\ stage' = IF \A f \in DOMAIN diff : Normalizes(diff[f]) /\ ChangedFileFits(diff[f])
                THEN "set" ELSE "refused"
  /\ UNCHANGED <<diff, results>>

\* build() looks at the whole set once more before it begins
BeginBuild ==
  /\ stage = "set"
  /\ stage' = IF \A f \in DOMAIN diff : ChangedFileFits(diff[f]) /\ SnapshotsFit(diff[f])
                THEN "build" ELSE "raised"
  /\ UNCHANGED <<diff, results>>

\* build(): the loop over the files and their sources
BuildSource ==
  /\ stage = "build"
  /\ \E s \in SourcesOf(diff) \ MadeOf(results) :
       /\ IsNextSource(s, SourcesOf(diff) \ MadeOf(results))
       /\ LET result == FileResult(diff, s[1], s[2]) IN
          IF Builds(diff, s[1], s[2]) /\ FileResultFits(diff, result)
            THEN results' = Append(results, result) /\ UNCHANGED stage
            ELSE stage' = "raised" /\ UNCHANGED results
  /\ UNCHANGED diff

\* the ReviewUnitBuildResult and the AnalysisResult around it
Assemble ==
  /\ stage = "build" /\ SourcesOf(diff) \subseteq MadeOf(results)
  /\ stage' = IF GraphFits(diff, results) THEN "reviewed" ELSE "raised"
  /\ UNCHANGED <<diff, results>>

ReviewNext == Normalize \/ BeginBuild \/ BuildSource \/ Assemble

-----------------------------------------------------------------------------
\* the type invariant
ReviewTypeOK ==
  /\ stage \in {"diff", "set", "build", "reviewed", "routed", "planning", "refused", "raised", "files"}
  /\ \A k \in DOMAIN results :
       /\ results[k].file \in DOMAIN diff /\ results[k].role \in Role
       /\ results[k].unassigned \subseteq diff[results[k].file].atoms

\* the code an analysis can show for a line: a region or a piece of code with
\* a body of its own
Shown(source, line) ==
  \/ \E r \in source.regions : Has(r, line)
  \/ \E d \in source.declarations : d.kind \in Precise /\ Has(d, line)

\* A change set that was admitted goes through every later check, however its
\* files are cut into regions and declarations; and no changed line of it is
\* lost: either a unit shows it, or its whole atom is reported as unassigned
\* and no unit claims any of it.  An atom is reported only on account of a
\* line of it that no region and no method, function or builder holds.
EveryLineIsReviewedOrReported ==
  /\ stage # "raised"
  /\ stage \in {"reviewed", "routed"} =>
       \A f \in DOMAIN diff : \A r \in Roles(diff[f]) : \A atom \in SideAtoms(diff[f], r) :
         \E k \in DOMAIN results :
           LET result == results[k]
               source == diff[f].source[r]
           IN /\ result.file = f /\ result.role = r
              /\ IF atom \in result.unassigned
                   THEN /\ \A u \in result.units : u.lines \cap atom.lines[r] = {}
                        /\ \E l \in atom.lines[r] : ~Shown(source, l)
                   ELSE \A l \in atom.lines[r] :
                          \E u \in result.units : l \in u.lines /\ Has(u.context, l)
=============================================================================
