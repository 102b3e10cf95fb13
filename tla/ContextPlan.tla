----------------------------- MODULE ContextPlan -----------------------------
(***************************************************************************)
(* ContextPlanner of code_analysis/context_planning.py: the change groups, *)
(* the supporting context each review question gets under a token budget,  *)
(* and the checks a ContextPlanResult makes of itself when it is built.    *)
(*                                                                         *)
(* Identities are hashes: a model value or a number stands for each, and   *)
(* the order they sort in is not fixed where it does not matter.  Source   *)
(* text is abstracted to the tokens it costs, malformed arguments, which   *)
(* plan() refuses before it does anything, are left out.                   *)
(***************************************************************************)
EXTENDS Sorting, Naturals, Sequences, FiniteSets, FiniteSetsExt, SequencesExt

CONSTANTS
  Primary,    \* ids of the changed units: numbers, in the order they sort
  Question,   \* ids of the review questions
  Candidate,  \* ids of the candidates: numbers, sorted by target and id
  Atom,       \* ids of the change atoms
  Inputs      \* arguments of plan()

Necessity == {"required", "helpful", "distractor"}
Reason == {"distractor_rejected", "relation_degraded", "context_blocked", "budget_exceeded"}

\* exact, strong: quality and strength of the relation edge; evidence: its
\* type is none of same_host, same_file
CandidateInfo ==
  [primary : Primary, question : Question, necessity : Necessity,
   exact : BOOLEAN, evidence : BOOLEAN, tokens : Nat \ {0}]
Edge == [from : Primary, to : Primary, strong : BOOLEAN, exact : BOOLEAN, evidence : BOOLEAN]

\* the arguments of plan(): weight is the tokens of the full text of all Primaries
\* of a set, and blocked whether there are unassigned atoms or binary files
Field == {"limit", "weight", "side", "atoms", "blocked", "edges", "bindings", "candidates"}

WellFormed(in) ==
  /\ in = [field \in Field |-> in[field]]
  /\ in.limit \in Nat \ {0}
  /\ in.weight \in [SUBSET Primary -> Nat]
  /\ in.side \in [Primary -> {"base", "head"}]
  /\ in.atoms \in [Primary -> SUBSET Atom]
  /\ in.blocked \in BOOLEAN
  /\ in.edges \subseteq Edge
  /\ \A e \in in.edges : e.from # e.to
  /\ in.bindings \subseteq Primary \X Question
  /\ {b[1] : b \in in.bindings} = Primary
  /\ DOMAIN in.candidates \subseteq Candidate /\ IsFiniteSet(DOMAIN in.candidates)
  /\ \A c \in DOMAIN in.candidates :
       /\ in.candidates[c] \in CandidateInfo
       /\ <<in.candidates[c].primary, in.candidates[c].question>> \in in.bindings

ASSUME InputAssumption ==
  /\ Primary \subseteq Nat
  /\ Candidate \subseteq Nat
  /\ \A in \in Inputs : WellFormed(in)

VARIABLES
  input,      \* the arguments
  phase,      \* "group", "choose", "fill" or "done"
  root,       \* of _build_groups: the root of each Primary in the forest
  edges,      \*   the grouping edges still to be unioned
  pairs,      \* the groups and questions still to be planned
  at,         \* the group and question in hand
  queue,      \*   candidates still to be classified
  required,   \*   required candidates still to be taken
  helpful,    \*   helpful candidates still to be placed
  taken,      \*   required candidates selected
  used,       \*   their tokens
  missing,    \*   required candidates omitted
  degraded,   \*   candidates with a degraded edge
  bins,       \*   the helpful bins: [members, used]
  omissions,  \* every omission so far: [candidate, reason]
  bundles     \* every bundle so far

grouping == <<root, edges>>
filling == <<queue, required, helpful, taken, used, missing, degraded, bins>>
vars == <<input, phase, grouping, pairs, at, filling, omissions, bundles>>

-----------------------------------------------------------------------------
\* _change_correspondence_edges(): a base and a head unit of one change
Correspondence(in) ==
  {e \in [from : Primary, to : Primary, strong : {TRUE}, exact : {TRUE}, evidence : {TRUE}] :
     /\ in.side[e.from] = "base" /\ in.side[e.to] = "head"
     /\ in.atoms[e.from] \cap in.atoms[e.to] # {}}

GroupingEdges(in) == {e \in in.edges \cup Correspondence(in) : e.strong /\ e.exact /\ e.evidence}

\* _UnionFind.union(): the greater root goes below the smaller one.  r is the
\* forest with all its paths compressed.
Joined(r, e) ==
  LET low == Min({r[e.from], r[e.to]})
      high == Max({r[e.from], r[e.to]})
  IN [p \in Primary |-> IF r[p] = high THEN low ELSE r[p]]

\* the Primaries that share a root
Groups(r) == {{p \in Primary : r[p] = r[q]} : q \in Primary}

\* the questions that some Primary of a group asks
Asked(in, g) == {q \in Question : \E p \in g : <<p, q>> \in in.bindings}

\* the candidates of one group and question
CandidatesOf(in, g, q) ==
  {c \in DOMAIN in.candidates : in.candidates[c].primary \in g /\ in.candidates[c].question = q}

\* _candidate_sort_key
Rank == [required |-> 0, helpful |-> 1, distractor |-> 2]
SortKey(in, c) == <<Rank[in.candidates[c].necessity], in.candidates[c].primary, c>>
Before(in, c, d) == Precedes(SortKey(in, c), SortKey(in, d))

IsFirst(in, c, S) == c \in S /\ \A d \in S \ {c} : Before(in, c, d)

Overflows(in, g) == in.weight[g] > in.limit

\* why a candidate is not even considered, in the order of the checks
Refusal(in, g, c) ==
  LET i == in.candidates[c] IN
  IF i.necessity = "distractor" \/ ~i.evidence THEN "distractor_rejected"
  ELSE IF ~i.exact THEN "relation_degraded"
  ELSE IF in.blocked THEN "context_blocked"
  ELSE IF Overflows(in, g) THEN "budget_exceeded"
  ELSE "none"

\* the tokens of a set of candidates
TokensOf(in, S) == MapThenSumSet(LAMBDA c : in.candidates[c].tokens, S)

\* the subjects of the context_insufficient diagnostic
Blockers == <<"unassigned atoms and binary files">>
Insufficient(in, g, lost) ==
  (IF in.blocked THEN {Blockers} ELSE {})
    \cup (IF Overflows(in, g) THEN {<<"primary", p>> : p \in g} ELSE {})
    \cup {<<"candidate", c>> : c \in lost}

\* a ReviewContextBundle; the edges of its support follow from the support
Bundle(in, g, q, support, weak, lost) ==
  [group |-> g, question |-> q, support |-> support,
   edges |-> {e \in GroupingEdges(in) : e.from \in g /\ e.to \in g},
   primary_tokens |-> in.weight[g],
   supporting_tokens |-> TokensOf(in, support),
   dispatch_allowed |-> Insufficient(in, g, lost) = {},
   insufficient |-> Insufficient(in, g, lost),
   degraded |-> weak]

-----------------------------------------------------------------------------
(* ContextPlanResult.__post_init__: the graph, and the plan made once more. *)
(* A result is [groups, segments, omissions, bundles].                      *)

BundlesOf(r, g, q) == {k \in DOMAIN r.bundles : r.bundles[k].group = g /\ r.bundles[k].question = q}
OmittedIn(r) == {r.omissions[k].candidate : k \in DOMAIN r.omissions}
ReasonIn(r, c) == {r.omissions[k].reason : k \in {n \in DOMAIN r.omissions : r.omissions[n].candidate = c}}

Proper(in, c) == in.candidates[c].necessity # "distractor" /\ in.candidates[c].evidence
Eligible(in, c) == Proper(in, c) /\ in.candidates[c].exact

GroupsHold(in, r) ==
  /\ UNION r.groups = Primary
  /\ \A g, h \in r.groups : g = h \/ g \cap h = {}
  /\ {r.bundles[k].group : k \in DOMAIN r.bundles} = r.groups

SelectionHolds(in, r) ==
  /\ \A c \in r.segments : Eligible(in, c)
  /\ Cardinality(OmittedIn(r)) = Len(r.omissions)
  /\ r.segments \cap OmittedIn(r) = {}
  /\ r.segments \cup OmittedIn(r) = DOMAIN in.candidates
  /\ \A k \in DOMAIN r.omissions :
       LET c == r.omissions[k].candidate IN
       CASE r.omissions[k].reason = "distractor_rejected" -> ~Proper(in, c)
         [] r.omissions[k].reason = "relation_degraded" -> ~in.candidates[c].exact
         [] OTHER -> Eligible(in, c)

\* what an omitted or a required candidate means for the bundles of its question
CandidateHolds(in, r, g, c) ==
  \A k \in BundlesOf(r, g, in.candidates[c].question) :
    LET b == r.bundles[k] IN
    /\ "context_blocked" \in ReasonIn(r, c) => ~b.dispatch_allowed
    /\ in.candidates[c].necessity = "required" =>
         IF c \in OmittedIn(r)
           THEN ~b.dispatch_allowed /\ <<"candidate", c>> \in b.insufficient
           ELSE b.dispatch_allowed => c \in b.support

BundleHolds(in, r, b) ==
  /\ b.dispatch_allowed <=> b.insufficient = {}
  /\ b.dispatch_allowed => b.primary_tokens + b.supporting_tokens <= in.limit
  /\ b.edges = {e \in GroupingEdges(in) : e.from \in b.group /\ e.to \in b.group}
  /\ b.support \subseteq CandidatesOf(in, b.group, b.question) \cap r.segments
  /\ b.supporting_tokens = TokensOf(in, b.support)

GraphHolds(in, r) ==
  /\ GroupsHold(in, r)
  /\ SelectionHolds(in, r)
  /\ \A k \in DOMAIN r.bundles : BundleHolds(in, r, r.bundles[k])
  /\ \A g \in r.groups :
       /\ {r.bundles[k].question : k \in {n \in DOMAIN r.bundles : r.bundles[n].group = g}}
            = Asked(in, g)
       /\ Cardinality({r.bundles[k].primary_tokens :
                         k \in {n \in DOMAIN r.bundles : r.bundles[n].group = g}}) = 1
       /\ \A c \in DOMAIN in.candidates :
            in.candidates[c].primary \in g => CandidateHolds(in, r, g, c)
  /\ \A c \in r.segments :
       LET owners == {k \in DOMAIN r.bundles : c \in r.bundles[k].support} IN
       /\ owners # {}
       /\ in.candidates[c].necessity # "required" => Cardinality(owners) = 1

\* what the selection loops make of one question: the required candidates
\* taken, those missing, the helpful bins and the reasons
Selection(in, g, q) ==
  LET mine == CandidatesOf(in, g, q)
      open == {c \in mine : Refusal(in, g, c) = "none"}
      order(S) == InOrder(Positions([c \in S |-> SortKey(in, c)]))
      needed == {c \in open : in.candidates[c].necessity = "required"}
      tokens(c) == in.candidates[c].tokens
      take(acc, c) ==
        IF in.weight[g] + TokensOf(in, acc) + tokens(c) <= in.limit THEN acc \cup {c} ELSE acc
      got == FoldLeft(take, {}, order(needed))
      lost == {c \in mine : in.candidates[c].necessity = "required"} \ got
      fits(c, S) == in.weight[g] + TokensOf(in, got \cup S) + tokens(c) <= in.limit
      small == {c \in open \ needed : lost = {} /\ fits(c, {})}
      place(acc, c) ==
        LET room == {k \in DOMAIN acc : fits(c, acc[k])}
        IN IF room # {} THEN [acc EXCEPT ![Min(room)] = @ \cup {c}] ELSE Append(acc, {c})
  IN [taken |-> got, lost |-> lost,
      bins |-> FoldLeft(place, <<{}>>, order(small)),
      reasons |-> [c \in mine \ (got \cup small) |->
                     IF c \notin open THEN Refusal(in, g, c)
                     ELSE IF c \notin needed /\ lost # {} THEN "context_blocked"
                     ELSE "budget_exceeded"]]

\* _validate_question_semantics
QuestionHolds(in, r, g, q) ==
  LET s == Selection(in, g, q)
      mine == CandidatesOf(in, g, q)
      ours == BundlesOf(r, g, q)
  IN /\ r.segments \cap mine = s.taken \cup UNION Range(s.bins)
     /\ OmittedIn(r) \cap mine = DOMAIN s.reasons
     /\ \A c \in DOMAIN s.reasons : ReasonIn(r, c) = {s.reasons[c]}
     /\ \A x \in {r.bundles[k].support : k \in ours} \cup {s.taken \cup y : y \in Range(s.bins)} :
          Cardinality({k \in ours : r.bundles[k].support = x})
            = Cardinality({k \in DOMAIN s.bins : s.taken \cup s.bins[k] = x})
     /\ \A k \in ours :
          LET b == r.bundles[k] IN
          /\ b.insufficient = Insufficient(in, g, s.lost)
          /\ b.degraded = {c \in mine : Refusal(in, g, c) = "relation_degraded"}
          /\ b.dispatch_allowed = (Insufficient(in, g, s.lost) = {})

\* the weights are taken from the bundles: the source is not at hand
AsWeighed(in, r) ==
  [in EXCEPT !.weight =
     [g \in DOMAIN in.weight |->
        IF g \in r.groups
          THEN (CHOOSE b \in Range(r.bundles) : b.group = g).primary_tokens ELSE in.weight[g]]]

\* _validate_semantic_truth
TruthHolds(in, r) ==
  /\ r.groups = Groups(FoldSet(LAMBDA e, f : Joined(f, e), [p \in Primary |-> p], GroupingEdges(in)))
  /\ \A g \in r.groups : \A q \in Asked(in, g) : QuestionHolds(AsWeighed(in, r), r, g, q)

\* mutant: the result is checked for consistency, not made once more
Accepts_GraphOnly(in, r) == GraphHolds(in, r)

Accepts(in, r) == GraphHolds(in, r) /\ TruthHolds(in, r)

-----------------------------------------------------------------------------
Init ==
  /\ input \in Inputs
  /\ phase = "group"
  /\ root = [p \in Primary |-> p]
  /\ edges = GroupingEdges(input)
  /\ pairs = {}
  /\ at = <<>>
  /\ queue = {} /\ required = {} /\ helpful = {}
  /\ taken = {} /\ used = 0 /\ missing = {} /\ degraded = {}
  /\ bins = <<[members |-> {}, used |-> 0]>>
  /\ omissions = <<>>
  /\ bundles = <<>>

\* mutant: the end of the edge is hung below the other root, not its class
Union_Shallow(e) ==
  /\ phase = "group" /\ e \in edges
  /\ root' = [root EXCEPT ![e.to] = root[e.from]]
  /\ edges' = edges \ {e}
  /\ UNCHANGED <<input, phase, pairs, at, filling, omissions, bundles>>

Union(e) ==
  /\ phase = "group" /\ e \in edges
  /\ root' = Joined(root, e)
  /\ edges' = edges \ {e}
  /\ UNCHANGED <<input, phase, pairs, at, filling, omissions, bundles>>

Grouped ==
  /\ phase = "group" /\ edges = {}
  /\ phase' = "choose"
  /\ pairs' = {pair \in Groups(root) \X Question : pair[2] \in Asked(input, pair[1])}
  /\ UNCHANGED <<input, grouping, at, filling, omissions, bundles>>

\* _plan_group(): the loop over the questions of a group
BeginQuestion(g, q) ==
  /\ phase = "choose" /\ <<g, q>> \in pairs
  /\ phase' = "fill"
  /\ pairs' = pairs \ {<<g, q>>}
  /\ at' = <<g, q>>
  /\ queue' = CandidatesOf(input, g, q)
  /\ required' = {} /\ helpful' = {}
  /\ taken' = {} /\ used' = 0 /\ missing' = {} /\ degraded' = {}
  /\ bins' = <<[members |-> {}, used |-> 0]>>
  /\ UNCHANGED <<input, grouping, omissions, bundles>>

Omit(c, reason) == omissions' = Append(omissions, [candidate |-> c, reason |-> reason])

\* does something of this size fit beside the Primaries, what is taken and more?
Fits(tokens, more) ==
  input.weight[at[1]] + used + more + tokens <= input.limit

\* the first loop over the candidates of the question
Classify(c) ==
  /\ phase = "fill"
  /\ IsFirst(input, c, queue)
  /\ queue' = queue \ {c}
  /\ LET i == input.candidates[c]
         refusal == Refusal(input, at[1], c)
     IN \/ /\ refusal # "none"
           /\ Omit(c, refusal)
           /\ degraded' = IF refusal = "relation_degraded" THEN degraded \cup {c} ELSE degraded
           /\ missing' = IF i.necessity = "required" THEN missing \cup {c} ELSE missing
           /\ UNCHANGED <<required, helpful>>
        \/ /\ refusal = "none"
           /\ IF i.necessity = "required"
                THEN required' = required \cup {c} /\ UNCHANGED helpful
                ELSE helpful' = helpful \cup {c} /\ UNCHANGED required
           /\ UNCHANGED <<omissions, degraded, missing>>
  /\ UNCHANGED <<input, phase, grouping, pairs, at, taken, used, bins, bundles>>

\* mutant: a required candidate that does not fit is omitted and forgotten
TakeRequired_Forgets(c) ==
  /\ phase = "fill" /\ queue = {}
  /\ IsFirst(input, c, required)
  /\ required' = required \ {c}
  /\ LET tokens == input.candidates[c].tokens IN
       \/ /\ Fits(tokens, 0)
          /\ taken' = taken \cup {c}
          /\ used' = used + tokens
          /\ UNCHANGED <<missing, omissions>>
       \/ /\ ~Fits(tokens, 0)
          /\ Omit(c, "budget_exceeded")
          /\ UNCHANGED <<taken, used, missing>>
  /\ UNCHANGED <<input, phase, grouping, pairs, at, queue, helpful, degraded, bins, bundles>>

\* the second loop: required candidates, as long as they fit
TakeRequired(c) ==
  /\ phase = "fill" /\ queue = {}
  /\ IsFirst(input, c, required)
  /\ required' = required \ {c}
  /\ LET tokens == input.candidates[c].tokens IN
       \/ /\ Fits(tokens, 0)
          /\ taken' = taken \cup {c}
          /\ used' = used + tokens
          /\ UNCHANGED <<missing, omissions>>
       \/ /\ ~Fits(tokens, 0)
          /\ Omit(c, "budget_exceeded")
          /\ missing' = missing \cup {c}
          /\ UNCHANGED <<taken, used>>
  /\ UNCHANGED <<input, phase, grouping, pairs, at, queue, helpful, degraded, bins, bundles>>

\* mutant: only the last bin is tried
Placed_LastOnly(c, tokens) ==
  LET k == Len(bins)
  IN IF Fits(tokens, bins[k].used)
       THEN [bins EXCEPT ![k] = [members |-> @.members \cup {c}, used |-> @.used + tokens]]
       ELSE Append(bins, [members |-> {c}, used |-> tokens])

\* first fit
Placed(c, tokens) ==
  LET room == {k \in DOMAIN bins : Fits(tokens, bins[k].used)}
  IN IF room # {}
       THEN [bins EXCEPT ![Min(room)] =
               [members |-> @.members \cup {c}, used |-> @.used + tokens]]
       ELSE Append(bins, [members |-> {c}, used |-> tokens])

\* mutant: a helpful candidate too large for any bin is dropped without a word
PlaceHelpful_Drops(c) ==
  /\ phase = "fill" /\ queue = {} /\ required = {}
  /\ IsFirst(input, c, helpful)
  /\ helpful' = helpful \ {c}
  /\ LET tokens == input.candidates[c].tokens IN
       IF missing # {}
         THEN Omit(c, "context_blocked") /\ UNCHANGED bins
         ELSE IF ~Fits(tokens, 0)
           THEN UNCHANGED <<omissions, bins>>
           ELSE bins' = Placed(c, tokens) /\ UNCHANGED omissions
  /\ UNCHANGED <<input, phase, grouping, pairs, at, queue, required, taken, used, missing,
                 degraded, bundles>>

\* the third loop: helpful candidates into bins, unless something required is missing
PlaceHelpful(c) ==
  /\ phase = "fill" /\ queue = {} /\ required = {}
  /\ IsFirst(input, c, helpful)
  /\ helpful' = helpful \ {c}
  /\ LET tokens == input.candidates[c].tokens IN
       \/ /\ missing # {}
          /\ Omit(c, "context_blocked") /\ UNCHANGED bins
       \/ /\ missing = {} /\ ~Fits(tokens, 0)
          /\ Omit(c, "budget_exceeded") /\ UNCHANGED bins
       \/ /\ missing = {} /\ Fits(tokens, 0)
          /\ bins' = Placed(c, tokens) /\ UNCHANGED omissions
  /\ UNCHANGED <<input, phase, grouping, pairs, at, queue, required, taken, used, missing,
                 degraded, bundles>>

\* the last loop: one bundle per bin
EmitBundles ==
  /\ phase = "fill" /\ queue = {} /\ required = {} /\ helpful = {}
  /\ phase' = "choose"
  /\ bundles' = bundles \o
       [k \in DOMAIN bins |->
          Bundle(input, at[1], at[2], taken \cup bins[k].members, degraded, missing)]
  /\ UNCHANGED <<input, grouping, pairs, at, filling, omissions>>

\* ContextPlanResult.create()
Create ==
  /\ phase = "choose" /\ pairs = {}
  /\ phase' = "done"
  /\ UNCHANGED <<input, grouping, pairs, at, filling, omissions, bundles>>

Finished == phase = "done" /\ UNCHANGED vars

Next ==
  \/ \E e \in edges : Union(e)
  \/ Grouped
  \/ \E pair \in pairs : BeginQuestion(pair[1], pair[2])
  \/ \E c \in Candidate : Classify(c) \/ TakeRequired(c) \/ PlaceHelpful(c)
  \/ EmitBundles
  \/ Create
  \/ Finished

Spec == Init /\ [][Next]_vars

-----------------------------------------------------------------------------
Result ==
  [groups |-> Groups(root),
   segments |-> UNION {bundles[k].support : k \in DOMAIN bundles},
   omissions |-> omissions,
   bundles |-> bundles]

\* the type invariant
TypeOK ==
  /\ WellFormed(input)
  /\ phase \in {"group", "choose", "fill", "done"}
  /\ root \in [Primary -> Primary]
  /\ edges \subseteq GroupingEdges(input)
  /\ pairs \subseteq (SUBSET Primary) \X Question
  /\ at = <<>> \/ at \in (SUBSET Primary) \X Question
  /\ phase = "fill" => at # <<>>
  /\ \A S \in {queue, required, helpful, taken, missing, degraded} : S \subseteq DOMAIN input.candidates
  /\ used \in Nat
  /\ bins \in Seq([members : SUBSET DOMAIN input.candidates, used : Nat]) /\ bins # <<>>
  /\ omissions \in Seq([candidate : DOMAIN input.candidates, reason : Reason])

\* A result with one thing changed that a careless caller could change: a bundle
\* dropped, released or held back, ...
Resupport(in, b, S) == [b EXCEPT !.support = S, !.supporting_tokens = TokensOf(in, S)]
Shortened(r, k) == [r EXCEPT !.bundles = RemoveAt(@, k)]
Turned(b) == [b EXCEPT !.dispatch_allowed = ~@, !.insufficient = {}]
Forced(r, k) == [r EXCEPT !.bundles[k] = Turned(@)]

\* ... a candidate moved to the bundle k, or omitted instead of selected, ...
MovedTo(in, r, c, k) ==
  [n \in DOMAIN r.bundles |->
     Resupport(in, r.bundles[n],
       IF n = k THEN r.bundles[n].support \cup {c} ELSE r.bundles[n].support \ {c})]
LeftOut(in, r, c) ==
  [k \in DOMAIN r.bundles |-> Resupport(in, r.bundles[k], r.bundles[k].support \ {c})]
Displaced(in, r, c, k) == [r EXCEPT !.bundles = MovedTo(in, r, c, k)]
Less(in, r, c, reason) ==
  [r EXCEPT !.bundles = LeftOut(in, r, c), !.segments = @ \ {c},
            !.omissions = Append(@, [candidate |-> c, reason |-> reason])]

\* ... or another reason for an omission.
Reworded(r, k, reason) == [r EXCEPT !.omissions[k] = [@ EXCEPT !.reason = reason]]

Altered(in, r) ==
  {Shortened(r, k) : k \in DOMAIN r.bundles}
    \cup {Forced(r, k) : k \in DOMAIN r.bundles}
    \cup {Displaced(in, r, c, k) : c \in r.segments, k \in DOMAIN r.bundles}
    \cup {Less(in, r, c, reason) : c \in r.segments, reason \in Reason}
    \cup {Reworded(r, k, reason) : k \in DOMAIN r.omissions, reason \in Reason}

\* The planner never trips over the checks of its own result, and the checks
\* leave no freedom: ContextPlanResult accepts what plan() makes and refuses
\* a result with a bundle dropped or released, a candidate moved, dropped or
\* explained in another way.
OnlyThePlanIsAccepted ==
  phase = "done" =>
    /\ Accepts(input, Result)
    /\ \A r \in Altered(input, Result) : r # Result => ~Accepts(input, r)

\* A bundle may be dispatched exactly if nothing blocks the change, the
\* Primaries of its group and all required candidates of its question fit the
\* budget together, and each of those has an exact relation that is evidence.
DispatchIffSufficient ==
  \A k \in DOMAIN bundles :
    LET b == bundles[k]
        needed == {c \in CandidatesOf(input, b.group, b.question) :
                     input.candidates[c].necessity = "required"}
    IN b.dispatch_allowed <=>
         /\ ~input.blocked
         /\ \A c \in needed : Eligible(input, c)
         /\ input.weight[b.group] + TokensOf(input, needed) <= input.limit

\* No candidate disappears: at the end each is in a bundle or was omitted, not
\* both, and was omitted for one reason.
NothingIsLost ==
  phase = "done" =>
    /\ Result.segments \cup OmittedIn(Result) = DOMAIN input.candidates
    /\ Result.segments \cap OmittedIn(Result) = {}
    /\ \A j, k \in DOMAIN omissions : omissions[j].candidate = omissions[k].candidate => j = k

\* First fit wastes no bundle: no two bins of a question would fit into one.
NoTwoBinsFitOne ==
  phase = "fill" =>
    \A j, k \in DOMAIN bins : j # k => ~Fits(bins[j].used, bins[k].used)

\* two Primaries that no set closed under the edges tells apart
Connected(E, p, q) ==
  \A S \in SUBSET Primary :
    (p \in S /\ \A e \in E : e.from \in S <=> e.to \in S) => q \in S

\* The groups are the connected components of the strong exact relations: a
\* base and a head unit of one atom are never reviewed apart, and nothing
\* weaker brings two units together.
GroupsAreComponents ==
  phase # "group" =>
    \A p, q \in Primary : root[p] = root[q] <=> Connected(GroupingEdges(input), p, q)

\* A plan leaves nothing out and nothing apart: units that belong together are
\* in one group, every candidate is in a bundle or was omitted for one reason,
\* and no two bundles of a question would have fitted into one.
PlannedInFull == GroupsAreComponents /\ NothingIsLost /\ NoTwoBinsFitOne
=============================================================================
