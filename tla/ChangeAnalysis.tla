---------------------------- MODULE ChangeAnalysis ----------------------------
(***************************************************************************)
(* From a diff to a context plan: analyze_change_set() and plan_context()  *)
(* of code_analysis/analyzer.py, which hand the review units of            *)
(* ChangeReview and the questions of FeatureRouting to the planner of      *)
(* ContextPlan.                                                            *)
(*                                                                         *)
(* What else the planner is given comes from the caller.  Until it is      *)
(* called the planner stands at its beginning; it may also be called for   *)
(* an analysis made elsewhere.                                             *)
(***************************************************************************)
EXTENDS FeatureRouting, ContextPlan

CONSTANT Requests(_)  \* of a diff, calls of the planner: limit, weight, edges, candidates

allVars == <<reviewVars, profiles, vars>>

\* where the planner stands before it is called
Idle == CHOOSE in \in Inputs : TRUE

AnalysisInit ==
  \/ input = Idle /\ Init /\ ReviewInit /\ profiles = <<>>
  \/ stage = "planning" /\ diff = <<>> /\ results = <<>> /\ Init /\ profiles = <<>>

ReviewStep == ReviewNext /\ UNCHANGED <<profiles, vars>>

\* the units of all files, each with its file and role
UnitsOf(made) ==
  UNION {{[file |-> made[k].file, role |-> made[k].role, unit |-> u] : u \in made[k].units} :
           k \in DOMAIN made}

\* _assemble_change_set_result(): every unit is projected, then all are routed
RouteUnits ==
  /\ stage = "reviewed"
  /\ LET source(x) == diff[x.file].source[x.role] IN
     IF \A x \in UnitsOf(results) : OwnerMatches(source(x), x.unit)
       THEN /\ stage' = "routed"
            /\ profiles' = [x \in UnitsOf(results) |-> Routing(x.file, x.role, source(x), x.unit)]
       ELSE stage' = "raised" /\ UNCHANGED profiles
  /\ UNCHANGED <<diff, results, vars>>

\* mutant: binary files do not block
Blocked_TextOnly(set, made) == \E k \in DOMAIN made : made[k].unassigned # {}

\* plan_context(): are there blocking_change_ids?
Blocked(set, made) ==
  \/ \E k \in DOMAIN made : made[k].unassigned # {}
  \/ \E f \in DOMAIN set : set[f].binary

\* the arguments of plan(); the order in which the hashes of the units sort
\* is given by number
Arguments(set, made, routed, number, request) ==
  [limit |-> request.limit, weight |-> request.weight, edges |-> request.edges,
   bindings |-> UNION {{p} \X routed[number[p]].questions : p \in Primary},
   candidates |-> request.candidates,
   side |-> [p \in Primary |-> number[p].role],
   atoms |-> [p \in Primary |->
                {<<number[p].file, atom>> :
                   atom \in AtomsOf(set[number[p].file], number[p].role, number[p].unit.lines)}],
   blocked |-> Blocked(set, made)]

\* plan_context() calls the planner with every unit; only sets of as many
\* units as there are Primaries, and arguments that plan() does not refuse
\* as malformed, are followed further
PlanContext ==
  /\ stage = "routed"
  /\ stage' = "planning"
  /\ \E number \in Bijection(Primary, UnitsOf(results)), request \in Requests(diff) :
       /\ input' = Arguments(diff, results, profiles, number, request)
       /\ profiles' = [p \in Primary |-> profiles[number[p]]]
  /\ WellFormed(input')
  /\ edges' = GroupingEdges(input')
  /\ UNCHANGED <<diff, results, phase, root, pairs, at, filling, omissions, bundles>>

PlanStep == stage = "planning" /\ Next /\ UNCHANGED <<reviewVars, profiles>>

\* refused, or a plan that nobody asks for, or of more or fewer units, which
\* is not followed here
Ended == stage \in {"refused", "routed"} /\ UNCHANGED allVars

AnalysisNext == ReviewStep \/ RouteUnits \/ PlanContext \/ PlanStep \/ Ended

AnalysisSpec == AnalysisInit /\ [][AnalysisNext]_allVars

-----------------------------------------------------------------------------
\* the units that show lines of an atom
Sharing(f, atom) == {p \in Primary : <<f, atom>> \in input.atoms[p]}

\* A bundle goes out only for a change that is reviewed as a whole: no file of
\* it is binary, every changed line of every file is in one of the Primaries,
\* and what replaced something is reviewed together with all that it replaced.
DispatchedChangesAreWhole ==
  stage = "planning" =>
    \A k \in DOMAIN bundles :
      bundles[k].dispatch_allowed =>
        \A f \in DOMAIN diff :
          /\ ~diff[f].binary
          /\ \A atom \in diff[f].atoms :
               /\ \A r \in KindSides(atom.kind) :
                    atom.lines[r] \subseteq
                      UNION {x.unit.lines : x \in {y \in UnitsOf(results) : y.file = f /\ y.role = r}}
               /\ {input.side[p] : p \in Sharing(f, atom)} = KindSides(atom.kind)
               /\ atom.kind = "replacement" =>
                    \/ Sharing(f, atom) \subseteq bundles[k].group
                    \/ Sharing(f, atom) \cap bundles[k].group = {}
=============================================================================
