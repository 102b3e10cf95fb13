------------------------------ MODULE FileReview ------------------------------
(***************************************************************************)
(* analyze_files() of code_analysis/analyzer.py: whole files, or files     *)
(* with hunks, that belong to no change set.  Their units are made of the  *)
(* declarations of the older list (arkts_tree_sitter_parser.py), which     *)
(* begin at the decorators on the lines directly above; the occurrences of *)
(* the newer one begin at the first decorator, whatever stands in between. *)
(***************************************************************************)
EXTENDS FeatureRouting

CONSTANT Calls  \* [mode, files: a sequence of [source, hunks]]

ASSUME CallAssumption ==
  \A c \in Calls :
    /\ c.mode \in {"full", "diff"}
    /\ Len(c.files) \in Nat /\ DOMAIN c.files = 1 .. Len(c.files)
    /\ \A k \in DOMAIN c.files :
         /\ IsSource(c.files[k].source) /\ IsParsed(c.files[k].source) /\ IsTree(c.files[k].source)
         /\ \A hunk \in c.files[k].hunks : {hunk[1], hunk[2]} \subseteq Nat \ {0} /\ hunk[1] <= hunk[2]

VARIABLES
  call,     \* the call
  reading,  \* "idle", "files", "routed" or "raised"
  read      \* the files read so far: [units, unassigned]

fileVars == <<call, reading, read, profiles>>

\* the older list: begin is where a declaration begins in it
Listed(source) == {[d EXCEPT !.first = d.begin] : d \in source.declarations} \cup source.loose
AsListed(source) == [lines |-> source.lines, declarations |-> Listed(source), regions |-> {}]

HunkLines(file) == UNION {hunk[1] .. hunk[2] : hunk \in file.hunks}

\* build_full_units()
FullUnits(source) ==
  LET tops == {d \in Listed(source) :
                 d.kind \in Host /\ ~\E other \in Listed(source) : StrictlyWithin(other, d)}
      all == [first |-> 1, last |-> source.lines]
  IN IF tops = {} THEN {Unit("fallback", all, all, 1 .. source.lines, "fallback_window")}
     ELSE {Unit("declaration", d, Span(d), {}, "full_top_level_declaration") : d \in tops}

HunkUnits(file) == UNION {UnitsForRun(AsListed(file.source), hunk) : hunk \in file.hunks}
InRange(file) == \A hunk \in file.hunks : hunk[2] <= file.source.lines

\* mutant: hunks beyond the end of the file are reviewed as well
FileUnits_AnyRange(mode, file) ==
  IF mode = "full" THEN FullUnits(file.source) ELSE Merged(HunkUnits(file))

\* build_units(), and build_file_result() for hunks out of range
FileUnits(mode, file) ==
  IF mode = "full" THEN FullUnits(file.source)
  ELSE IF InRange(file) THEN Merged(HunkUnits(file)) ELSE {}

\* does build_units() return?
Buildable(mode, file) ==
  IF mode = "full" THEN file.source.lines > 0
  ELSE InRange(file) => MayMerge(HunkUnits(file))

-----------------------------------------------------------------------------
FileInit ==
  /\ call \in Calls
  /\ reading = "files" /\ read = <<>> /\ profiles = <<>>

\* one turn of the loop: parse, build the units, project each of them
ReadFile ==
  /\ reading = "files" /\ Len(read) < Len(call.files)
  /\ LET file == call.files[Len(read) + 1]
         units == FileUnits(call.mode, file)
         lines == IF call.mode = "full" THEN {} ELSE HunkLines(file)
     IN IF Buildable(call.mode, file) /\ \A u \in units : OwnerMatches(file.source, u)
          THEN /\ read' = Append(read, [units |-> units,
                                        unassigned |-> lines \ UNION {u.lines : u \in units}])
               /\ UNCHANGED reading
          ELSE reading' = "raised" /\ UNCHANGED read
  /\ UNCHANGED <<call, profiles>>

\* route() and the AnalysisResult
RouteFiles ==
  /\ reading = "files" /\ Len(read) = Len(call.files)
  /\ reading' = "routed"
  /\ profiles' =
       [x \in UNION {{[file |-> k, role |-> "head", unit |-> u] : u \in read[k].units} : k \in DOMAIN read} |->
          Routing(x.file, x.role, call.files[x.file].source, x.unit)]
  /\ UNCHANGED <<call, read>>

FilesEnded == reading \in {"routed", "raised"} /\ UNCHANGED fileVars

FileNext == ReadFile \/ RouteFiles \/ FilesEnded

-----------------------------------------------------------------------------
\* a declaration that begins elsewhere in the older list
Moved(source) == \E d \in source.declarations : d.begin # d.first

\* An analysis of files ends with an error only over a file without lines,
\* or a declaration for which the two lists disagree about where it begins;
\* in every file read, each line of a hunk is in a unit that shows it or is
\* reported, and is reported only if no method, function or builder holds it
\* or some hunk is no part of the file.
FilesAreReviewedOrRefusedForCause ==
  /\ reading = "raised" =>
       LET source == call.files[Len(read) + 1].source IN
       Moved(source) \/ (call.mode = "full" /\ source.lines = 0)
  /\ \A k \in DOMAIN read :
       LET file == call.files[k]
           listed == Listed(file.source)
       IN /\ \A u \in read[k].units :
               /\ 1 <= u.context.first /\ u.context.last <= file.source.lines
               /\ \A l \in u.lines : Has(u.context, l)
          /\ call.mode = "diff" =>
               \A l \in HunkLines(file) :
                 \/ \E u \in read[k].units : l \in u.lines
                 \/ /\ l \in read[k].unassigned
                    /\ InRange(file) => ~\E d \in listed : d.kind \in Precise /\ Has(d, l)
=============================================================================
