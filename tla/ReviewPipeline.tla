---------------------------- MODULE ReviewPipeline ----------------------------
(***************************************************************************)
(* From a diff to evidence: the units, their facts, tags and dimensions,   *)
(* and the bundles of ChangeAnalysis are what Retrieval is asked about.    *)
(* What else it is given (the index, the AI) comes from the knowledge base *)
(* and formal execution, a constant.  Retrieval may also be called for a   *)
(* plan made elsewhere, and files analyzed that belong to no change set:   *)
(* these are not planned.                                                  *)
(***************************************************************************)
EXTENDS ChangeAnalysis, FileReview, Retrieval

CONSTANT Surroundings(_)  \* of a diff, queries whose units, bindings and bundles are to be filled in

ASSUME SurroundingsAssumption ==
  \A set \in ChangeSets : \A q \in Surroundings(set) : {"units", "bindings", "bundles"} \subseteq DOMAIN q

pipelineVars == <<allVars, call, reading, read, retrievalVars>>

\* where retrieval stands before it is called
Unasked ==
  /\ query = <<>> /\ turn = "idle"
  /\ share = <<>> /\ control = <<>> /\ work = 1
  /\ pools = NoHits /\ notes = {}
  /\ arm = "static_vector" /\ ranked = <<>> /\ status = <<>> /\ unserved = {} /\ reached = 0
  /\ arms = <<>> /\ compared = <<>>

\* no files are analyzed
Unread == call = <<>> /\ reading = "idle" /\ read = <<>>

PipelineInit ==
  \/ AnalysisInit /\ Unread /\ Unasked
  \/ /\ stage = "planning" /\ diff = <<>> /\ results = <<>> /\ input = Idle /\ Init
     /\ profiles = <<>> /\ Unread /\ RetrievalInit
  \/ stage = "files" /\ diff = <<>> /\ results = <<>> /\ input = Idle /\ Init /\ FileInit /\ Unasked

AnalysisStep ==
  turn = "idle" /\ stage # "files" /\ AnalysisNext /\ UNCHANGED <<call, reading, read, retrievalVars>>

FileStep == stage = "files" /\ FileNext /\ UNCHANGED <<reviewVars, vars, retrievalVars>>

\* build_retrieval_request(): what a unit is asked about with
RoutedUnit(unit, p) ==
  [unit EXCEPT !.facts = {fact \in p.facts : fact[1] \in {"api", "component", "decorator"}},
               !.exact = p.exact, !.hints = p.hints, !.dims = p.retrieval]

\* a planned change is asked about, with arguments that are not refused as
\* malformed
AskForEvidence ==
  /\ turn = "idle" /\ phase = "done" /\ diff # <<>>
  /\ \E q \in Surroundings(diff) :
       query' = [q EXCEPT !.bindings = input.bindings, !.bundles = Range(bundles),
                          !.units = [k \in DOMAIN @ |-> RoutedUnit(@[k], profiles[k])]]
  /\ WellAsked(query')
  /\ turn' = "asked"
  /\ UNCHANGED <<allVars, call, reading, read, share, control, work, recall, selecting, arms, compared>>

RetrievalStep == turn # "idle" /\ RetrievalNext /\ UNCHANGED <<allVars, call, reading, read>>

PipelineNext == AnalysisStep \/ FileStep \/ AskForEvidence \/ RetrievalStep

PipelineSpec == PipelineInit /\ [][PipelineNext]_pipelineVars

-----------------------------------------------------------------------------
\* the source a profile is about
SourceOf(p) == IF stage = "files" THEN call.files[p.file].source ELSE diff[p.file].source[p.role]

\* A question is bound to a unit, and a dimension reviewed for it, only for a
\* fact that stands in the unit's own text, never for one of its neighbours,
\* of the code around it or of the file as a whole; a unit that is a struct or
\* a class gets every question and dimension that any fact in it calls for,
\* also if a field or a nested component holds the fact.
QuestionsAreEarned == \A x \in DOMAIN profiles : EarnedIn(SourceOf(profiles[x]), profiles[x])

\* Bundles go out only for changes that are reviewed as a whole, and evidence
\* is given only to the units of such changes: to those of a diff with a
\* binary file or with a changed line in no unit, none at all.
WholeChangesOnly ==
  /\ DispatchedChangesAreWhole
  /\ (diff # <<>> /\ turn = "returned") =>
       \A k \in DOMAIN control :
         (\E e \in Evidences(k) : Chosen(e.status) # {}) =>
           \A f \in DOMAIN diff :
             /\ ~diff[f].binary
             /\ \A r \in Role :
                  LinesOf(diff[f].atoms, r) \subseteq
                    UNION {x.unit.lines : x \in {y \in UnitsOf(results) : y.file = f /\ y.role = r}}
=============================================================================
