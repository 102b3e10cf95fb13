------------------------------ MODULE Retrieval ------------------------------
(***************************************************************************)
(* Retrieval of knowledge clauses for a context plan: the request and its  *)
(* budgets (query_planner.py, query_planner_v3.py), the control evidence   *)
(* (exact.py, vector.py, fusion.py, assembler.py, service.py) and, beside  *)
(* it, the five pools and the two arms of the shadow service               *)
(* (shadow_service_v3.py) with the checks of shadow_models_v3.py.          *)
(*                                                                         *)
(* Scores are whole numbers: the weights of the pools in quarters, the     *)
(* similarities in hundredths, the reciprocal ranks in units of their      *)
(* eighth decimal, to which the code rounds them.  Identities, the text of *)
(* clauses and queries, import uses and arguments of the wrong type are    *)
(* left out, and so are an index and a configuration that do not belong    *)
(* together, which every call refuses before it does anything.             *)
(***************************************************************************)
EXTENDS Sorting, Integers, Sequences, FiniteSetsExt, SequencesExt

CONSTANT Queries  \* calls of the shadow service, see WellAsked

Pool == {"formal_exact", "file_hint", "text_keyword", "ai_inferred", "semantic_vector"}
Arm == {"static_vector", "hybrid"}
Scale == 100000000

\* A clause: facts (kind and name of the APIs, components and decorators),
\* tags, keywords, dims, tokens, authority and needs, what it requires of the
\* platform: an aspect to the values or sets it allows
IsClause(c) ==
  /\ c.dims \subseteq Nat /\ c.tokens \in Nat \ {0} /\ c.authority \in Nat
  /\ IsFiniteSet(c.facts) /\ IsFiniteSet(c.tags) /\ IsFiniteSet(c.keywords) /\ IsFiniteSet(c.dims)
  /\ \A fact \in c.facts : fact[1] \in {"api", "component", "decorator"}

\* A unit: facts, exact and hints (the tags of unit and file), ai (the tags a
\* verified execution found, none without a result), dims, requested clauses,
\* words (the keywords its text has), text (has it code or other facts?), near
\* (the similarity of each clause to its two vector queries), weak (was it
\* parsed with errors?)
IsUnit(u, clauses) ==
  /\ DOMAIN u = {"facts", "exact", "hints", "ai", "dims", "requested", "words", "text", "near", "weak"}
  /\ u.dims \subseteq Nat /\ IsFiniteSet(u.dims) /\ u.text \in BOOLEAN /\ u.weak \in BOOLEAN
  /\ u.near \in [{"control", "shadow"} -> [clauses -> -100 .. 100]]

\* what a clause may be found by, and what else counts
Weighted == {"api", "component", "decorator", "tag", "rule_id", "hint", "keyword", "overlap", "applicable"}

WellAsked(q) ==
  /\ DOMAIN q.clauses \subseteq Nat /\ IsFiniteSet(DOMAIN q.clauses)
  /\ \A r \in DOMAIN q.clauses : IsClause(q.clauses[r])
  /\ IsFiniteSet(q.bindings) /\ \A b \in q.bindings : b = <<b[1], b[2]>>
  /\ DOMAIN q.units = 1 .. Cardinality({b[1] : b \in q.bindings})
  /\ {b[1] : b \in q.bindings} = DOMAIN q.units
  /\ \A k \in DOMAIN q.units : IsUnit(q.units[k], DOMAIN q.clauses)
  /\ q.policy.weight \in [Weighted -> Nat]
  /\ q.total \in Nat /\ q.vectors \in BOOLEAN /\ q.provider \in BOOLEAN
  /\ \A p \in Pool : q.policy.limit[p] \in Nat \ {0} /\ q.policy.share[p] \in Nat \ {0}
  /\ \A p \in Pool : Scale * q.policy.share[p] > 2 * (q.policy.k + q.policy.limit[p])
  /\ {q.policy.k, q.policy.results} \subseteq Nat \ {0}

ASSUME QueryAssumption == \A q \in Queries : WellAsked(q)

VARIABLES
  query,     \* the call
  turn,      \* "idle", "asked", "control", "recall", "select", "compare", "bind",
             \* "returned", "refused" or "raised"
  share,     \* the tokens each unit may spend
  control,   \* the control evidence of each unit
  work,      \* the unit in hand
  pools,     \* its hits: pool to clause to [rank, score, matches]
  notes,     \* what the vector path noted for it
  arm,       \* the arm in hand
  ranked,    \*   the rank of each of its clauses
  status,    \*   what the selection made of them so far
  unserved,  \*   dimensions still to be served
  reached,   \*   clauses considered since then
  arms,      \* the finished arms of the unit
  compared   \* the finished units: [pools, arms]

recall == <<pools, notes>>
selecting == <<arm, ranked, status, unserved, reached>>
retrievalVars == <<query, turn, share, control, work, recall, selecting, arms, compared>>

-----------------------------------------------------------------------------
(* Recall. *)

\* evaluate_applicability()
Meets(aspect, value, need) ==
  IF aspect \in {"permission", "capability"} THEN need \subseteq value ELSE value \in need
Applicability(q, r) ==
  LET needs == q.clauses[r].needs
      known == DOMAIN needs \cap DOMAIN q.target
  IN IF \E a \in known : ~Meets(a, q.target[a], needs[a]) THEN "excluded"
     ELSE IF DOMAIN needs \subseteq known THEN "applicable" ELSE "unknown"

Applicable(q) == {r \in DOMAIN q.clauses : Applicability(q, r) # "excluded"}

\* _canonical_query_apis(): a name that means one symbol stands for it
Canonical(q, name) ==
  LET named == {s.name : s \in {x \in q.symbols : name = x.name \/ name \in x.aliases}}
  IN IF Cardinality(named) = 1 THEN CHOOSE n \in named : TRUE ELSE name
CanonicalFacts(q, u) ==
  {IF fact[1] = "api" THEN <<"api", Canonical(q, fact[2])>> ELSE fact : fact \in u.facts}

FormalMatches(q, u, r) ==
  (CanonicalFacts(q, u) \cap q.clauses[r].facts)
    \cup {<<"tag", t>> : t \in u.exact \cap q.clauses[r].tags}
    \cup {<<"rule_id", x>> : x \in {r} \cap u.requested}

\* mutant: what the AI found is not counted as a hint of the file as well
Matches_Once(q, u, r, pool) ==
  CASE pool = "formal_exact" -> FormalMatches(q, u, r)
    [] pool = "file_hint" ->
         {<<"hint", t>> : t \in (u.hints \ (u.exact \cup u.ai)) \cap q.clauses[r].tags}
    [] pool = "text_keyword" -> {<<"keyword", w>> : w \in u.words \cap q.clauses[r].keywords}
    [] pool = "ai_inferred" -> {<<"ai", t>> : t \in u.ai \cap q.clauses[r].tags}

Matches(q, u, r, pool) ==
  CASE pool = "formal_exact" -> FormalMatches(q, u, r)
    [] pool = "file_hint" -> {<<"hint", t>> : t \in (u.hints \ u.exact) \cap q.clauses[r].tags}
    [] pool = "text_keyword" -> {<<"keyword", w>> : w \in u.words \cap q.clauses[r].keywords}
    [] pool = "ai_inferred" -> {<<"ai", t>> : t \in u.ai \cap q.clauses[r].tags}

Overlap(q, u, r) == Cardinality(u.dims \cap q.clauses[r].dims)
Unknown(q, r) == IF Applicability(q, r) = "unknown" THEN 1 ELSE 0
Weighed(q, matches) == MapThenSumSet(LAMBDA m : q.policy.weight[m[1]], matches)
Bonus(q, u, r) ==
  Overlap(q, u, r) * q.policy.weight["overlap"]
    + (1 - Unknown(q, r)) * q.policy.weight["applicable"]

\* the first of a rank
Cut(rank, limit) == [x \in {y \in DOMAIN rank : rank[y] <= limit} |-> rank[x]]

\* _rank_pool_hits()
Ranked(q, u, pool, score, matches) ==
  LET key == [r \in DOMAIN score |->
                <<-score[r], -Cardinality(matches[r]), -Overlap(q, u, r), Unknown(q, r),
                  -q.clauses[r].authority, r>>]
      rank == Cut(Positions(key), q.policy.limit[pool])
  IN [r \in DOMAIN rank |-> [rank |-> rank[r], score |-> score[r], matches |-> matches[r]]]

\* _structured_pools()
StructuredPool(q, u, pool) ==
  LET hits == {r \in Applicable(q) : Matches(q, u, r, pool) # {}}
      matches == [r \in hits |-> Matches(q, u, r, pool)]
      score == [r \in hits |->
                  IF pool = "ai_inferred" THEN Cardinality(matches[r])
                  ELSE Weighed(q, matches[r]) + Bonus(q, u, r)]
  IN Ranked(q, u, pool, score, matches)

\* query_embedding_text(), render_vector_query_v3(): has a unit anything to
\* ask the vectors for?
Silent(u, which) ==
  /\ ~u.text /\ u.facts = {}
  /\ which = "control" => u.exact = {} /\ u.requested = {}

\* what may come of the vector path: the provider may fail
VectorOutcomes(q, u, which) ==
  IF ~q.vectors THEN {"none"}
  ELSE IF ~q.provider THEN {"failed"}
  ELSE IF Silent(u, which) THEN {"none"} ELSE {"found", "failed"}
VectorNotes(outcome) == IF outcome = "failed" THEN {<<"embedding_unavailable">>} ELSE {}

Near(q, u, which, outcome) ==
  {r \in Applicable(q) :
     outcome = "found" /\ u.near[which][r] >= q.policy.similarity}

\* _vector_pool()
VectorPool(q, u, outcome) ==
  LET hits == Near(q, u, "shadow", outcome)
  IN Ranked(q, u, "semantic_vector", [r \in hits |-> u.near["shadow"][r]],
            [r \in hits |-> {<<"vector", "model">>}])

PoolsOf(q, u, outcome) ==
  [p \in Pool |-> IF p = "semantic_vector" THEN VectorPool(q, u, outcome) ELSE StructuredPool(q, u, p)]
NoHits == [p \in Pool |-> <<>>]

-----------------------------------------------------------------------------
(* Fusion. *)

Active(a) == IF a = "static_vector" THEN Pool \ {"ai_inferred"} ELSE Pool
Found(hits, seen) == UNION {DOMAIN hits[p] : p \in seen}

Rounded(num, den) == (2 * num + den) \div (2 * den)
Contribution(q, p, rank) == Rounded(Scale * q.policy.share[p], 4 * (q.policy.k + rank))
Fused(q, hits, a, r) ==
  MapThenSumSet(LAMBDA p : Contribution(q, p, hits[p][r].rank), {p \in Active(a) : r \in DOMAIN hits[p]})

\* the score of a clause in a pool; where it has none, the -1 of the code, in
\* hundredths, which is below every score
PathScore(hits, p, r) == IF r \in DOMAIN hits[p] THEN hits[p][r].score ELSE -100

\* the order of an arm; seen: the pools whose scores are looked at
FusionKey(q, hits, a, seen, r) ==
  LET score(p) == IF p \in seen THEN PathScore(hits, p, r) ELSE -100
  IN <<-Fused(q, hits, a, r), IF r \in DOMAIN hits["formal_exact"] THEN 0 ELSE 1,
       -score("formal_exact"), -score("semantic_vector"), -score("file_hint"),
       -score("text_keyword"), -score("ai_inferred"), Unknown(q, r), -q.clauses[r].authority, r>>
Order(q, hits, a, seen) ==
  Positions([r \in Found(hits, Active(a)) |-> FusionKey(q, hits, a, seen, r)])

\* _fuse()
Fusion(q, hits, a) == Order(q, hits, a, Active(a))

\* search_exact(): everything structured but the AI, in one path
ExactMatches(q, u, r) ==
  UNION {Matches(q, u, r, p) : p \in {"formal_exact", "file_hint", "text_keyword"}}
ExactScore(q, u, r) == Weighed(q, ExactMatches(q, u, r)) + Bonus(q, u, r)
ExactRank(q, u) ==
  LET hits == {r \in Applicable(q) : ExactMatches(q, u, r) # {}}
      key == [r \in hits |->
                <<-ExactScore(q, u, r), -Cardinality(ExactMatches(q, u, r)), -q.clauses[r].authority, r>>]
  IN Cut(Positions(key), q.policy.limit["exact"])

\* search_vector()
NearestRank(q, u, outcome) ==
  LET key == [r \in Near(q, u, "control", outcome) |->
                <<-u.near["control"][r], -Overlap(q, u, r), -q.clauses[r].authority, r>>]
  IN Cut(Positions(key), q.policy.limit["vector"])

\* 1 / x + 1 / y, the sum rounded
Reciprocals(x, y) ==
  Scale \div x + Scale \div y + Rounded((Scale % x) * y + (Scale % y) * x, x * y)

\* fuse_hits()
ControlRank(q, u, outcome) ==
  LET exact == ExactRank(q, u)
      near == NearestRank(q, u, outcome)
      score(r) ==
        CASE r \notin DOMAIN exact -> Rounded(Scale, q.policy.k + near[r])
          [] r \notin DOMAIN near -> Rounded(Scale, q.policy.k + exact[r])
          [] OTHER -> Reciprocals(q.policy.k + exact[r], q.policy.k + near[r])
      key == [r \in DOMAIN exact \cup DOMAIN near |->
                <<-score(r), IF r \in DOMAIN exact THEN 0 ELSE 1,
                  IF r \in DOMAIN exact THEN -ExactScore(q, u, r) ELSE 0,
                  IF r \in DOMAIN near THEN -u.near["control"][r] ELSE 100,
                  Unknown(q, r), -q.clauses[r].authority, r>>]
  IN Positions(key)

-----------------------------------------------------------------------------
(* Selection: clauses to what became of them, for those looked at so far. *)

Chosen(s) == {r \in DOMAIN s : s[r] = "selected"}
TokensIn(q, S) == MapThenSumSet(LAMBDA r : q.clauses[r].tokens, S)
Full(q, s) == Cardinality(Chosen(s)) >= q.policy.results
HasRoom(q, budget, s, r) == TokensIn(q, Chosen(s)) + q.clauses[r].tokens <= budget
Marked(s, S, what) == [r \in DOMAIN s \cup S |-> IF r \in S THEN what ELSE s[r]]
Exhausted(s) == \E r \in DOMAIN s : s[r] = "token_budget"

\* add()
Tried(q, budget, s, r) ==
  IF r \in DOMAIN s /\ s[r] \in {"selected", "token_budget"} THEN s
  ELSE IF Full(q, s) THEN Marked(s, {r}, "result_limit")
  ELSE IF HasRoom(q, budget, s, r) THEN Marked(s, {r}, "selected")
  ELSE Marked(s, {r}, "token_budget")

\* mutant: filled by rank alone
Replayed_ByRank(q, dims, budget, rank) ==
  FoldLeft(LAMBDA s, r : Tried(q, budget, s, r), <<>>, InOrder(rank))

\* a clause is offered for a dimension: s is the selection so far, done says
\* whether a clause was selected for it
Offered(q, budget, d, acc, r) ==
  IF acc.done \/ d \notin q.clauses[r].dims \/ r \in Chosen(acc.s) THEN acc
  ELSE LET next == Tried(q, budget, acc.s, r) IN [s |-> next, done |-> r \in Chosen(next)]
FirstOf(q, budget, order, s, d) ==
  FoldLeft(LAMBDA acc, r : Offered(q, budget, d, acc, r), [s |-> s, done |-> FALSE], order).s

\* the two loops of _select_hits(), of select() in validate_arm() as well:
\* the first clause with each dimension that can be added, then all clauses
Replayed(q, dims, budget, rank) ==
  LET order == InOrder(rank)
      served == FoldLeft(LAMBDA s, d : FirstOf(q, budget, order, s, d), <<>>,
                         InOrder(Positions([d \in dims |-> <<d>>])))
  IN FoldLeft(LAMBDA s, r : Tried(q, budget, s, r), served, order)

\* the diagnostics of an evidence
Noted(q, u, s, path) ==
  path \cup {<<"applicability_unknown", r>> : r \in {x \in Chosen(s) : Unknown(q, x) = 1}}
    \cup (IF Exhausted(s) THEN {<<"budget_exhausted">>} ELSE {})
    \cup (IF Chosen(s) = {} THEN {<<"empty_result">>} ELSE {})
    \cup (IF u.weak THEN {<<"parser_degraded">>} ELSE {})
BlockedNote == <<"context_dispatch_blocked">>

Evidence(rank, s, noted) == [rank |-> rank, status |-> s, notes |-> noted]

-----------------------------------------------------------------------------
\* _unit_budgets(): what cannot be divided goes to the first units
Shares(total, n) == [k \in 1 .. n |-> total \div n + (IF k <= total % n THEN 1 ELSE 0)]

\* the questions of a unit that some bundle may ask
Open_Bound(q, k) == {b[2] : b \in {x \in q.bindings : x[1] = k}}
Open(q, k) ==
  {b[2] : b \in {x \in q.bindings :
                   /\ x[1] = k
                   /\ \E bundle \in q.bundles :
                        bundle.dispatch_allowed /\ k \in bundle.group /\ bundle.question = x[2]}}

RetrievalInit ==
  /\ query \in Queries
  /\ turn = "asked"
  /\ share = <<>> /\ control = <<>> /\ work = 1
  /\ pools = NoHits /\ notes = {}
  /\ arm = "static_vector" /\ ranked = <<>> /\ status = <<>> /\ unserved = {} /\ reached = 0
  /\ arms = <<>> /\ compared = <<>>

\* a token and formal evidence for each of at most so many units
WellFounded(q, n) ==
  /\ n \in 1 .. q.policy.units
  /\ q.total >= n
  /\ q.proven = DOMAIN q.units

\* build_retrieval_request() and TrustedRetrievalRequestV3Builder.build()
BuildRequest ==
  /\ turn = "asked"
  /\ LET n == Cardinality(DOMAIN query.units) IN
     \/ /\ ~WellFounded(query, n)
        /\ turn' = "refused"
        /\ UNCHANGED share
     \/ /\ WellFounded(query, n)
        /\ turn' = "control"
        /\ share' = Shares(query.total, n)
  /\ UNCHANGED <<query, control, work, recall, selecting, arms, compared>>

\* assemble_unit_evidence()
UnitEvidence(q, k, outcome) ==
  LET u == q.units[k]
      rank == ControlRank(q, u, outcome)
      s == Replayed(q, u.dims, share[k], rank)
  IN IF Open(q, k) = {} THEN Evidence(<<>>, <<>>, VectorNotes(outcome) \cup {BlockedNote})
     ELSE Evidence(rank, s, Noted(q, u, s, VectorNotes(outcome)))

\* RetrievalService.retrieve(), for one unit after the other
RetrieveUnit ==
  /\ turn = "control"
  /\ LET k == Len(control) + 1 IN
       /\ \E outcome \in VectorOutcomes(query, query.units[k], "control") :
            control' = Append(control, UnitEvidence(query, k, outcome))
       /\ turn' = IF k = Len(share) THEN "recall" ELSE turn
  /\ UNCHANGED <<query, share, work, recall, selecting, arms, compared>>

Begin(hits, a) ==
  /\ arm' = a
  /\ ranked' = Fusion(query, hits, a)
  /\ status' = <<>> /\ reached' = 0
  /\ unserved' = IF Open(query, work) = {} THEN {} ELSE query.units[work].dims

\* _build_unit_comparison(), up to the arms
Recall ==
  /\ turn = "recall"
  /\ turn' = "select"
  /\ LET u == query.units[work] IN
     \/ /\ Open(query, work) = {}
        /\ pools' = NoHits /\ notes' = {}
     \/ /\ Open(query, work) # {}
        /\ \E outcome \in VectorOutcomes(query, u, "shadow") :
             pools' = PoolsOf(query, u, outcome) /\ notes' = VectorNotes(outcome)
  /\ Begin(pools', "static_vector")
  /\ UNCHANGED <<query, share, control, work, arms, compared>>

\* mutant: of a full arm the budget is asked first
Served_BudgetFirst(d) ==
  LET left == {r \in DOMAIN ranked : d \in query.clauses[r].dims} \ Chosen(status)
      fresh == {r \in left : r \notin DOMAIN status \/ status[r] # "token_budget"}
      fits == {r \in fresh : HasRoom(query, share[work], status, r)}
      first == {r \in fits : \A x \in fits : ranked[r] <= ranked[x]}
      before == {r \in fresh : \A x \in first : ranked[r] < ranked[x]}
  IN IF Full(query, status) THEN Marked(Marked(status, fits, "result_limit"), fresh \ fits, "token_budget")
     ELSE Marked(Marked(status, before, "token_budget"), first, "selected")

\* the first loop of _select(), for one dimension: the best clause that has
\* it and fits is selected, those before it do not fit
Served(d) ==
  LET left == {r \in DOMAIN ranked : d \in query.clauses[r].dims} \ Chosen(status)
      fresh == {r \in left : r \notin DOMAIN status \/ status[r] # "token_budget"}
      fits == {r \in fresh : HasRoom(query, share[work], status, r)}
      first == {r \in fits : \A x \in fits : ranked[r] <= ranked[x]}
      before == {r \in fresh : \A x \in first : ranked[r] < ranked[x]}
  IN IF Full(query, status) THEN Marked(status, fresh, "result_limit")
     ELSE Marked(Marked(status, before, "token_budget"), first, "selected")

ServeDimension ==
  /\ turn = "select" /\ unserved # {}
  /\ status' = Served(Min(unserved))
  /\ unserved' = unserved \ {Min(unserved)}
  /\ UNCHANGED <<query, turn, share, control, work, recall, arm, ranked, reached, arms, compared>>

\* the second loop of _select()
Consider(r) ==
  /\ turn = "select" /\ unserved = {} /\ ranked[r] = reached + 1
  /\ reached' = ranked[r]
  /\ status' = Tried(query, share[work], status, r)
  /\ UNCHANGED <<query, turn, share, control, work, recall, arm, ranked, unserved, arms, compared>>

\* ShadowArmResultV3.validate_arm(): the selection made once more
ArmHolds(q, k, rank, s) ==
  /\ s = Replayed(q, q.units[k].dims, share[k], rank)
  /\ TokensIn(q, Chosen(s)) <= share[k]

\* _build_arm()
FinishArm ==
  /\ turn = "select" /\ unserved = {} /\ reached = Cardinality(DOMAIN ranked)
  /\ LET u == query.units[work]
         made == IF Open(query, work) = {} THEN Evidence(<<>>, <<>>, {BlockedNote})
                 ELSE Evidence(ranked, status, Noted(query, u, status, notes))
     IN IF ArmHolds(query, work, ranked, status)
          THEN /\ arms' = Append(arms, made)
               /\ turn' = IF arm = "hybrid" THEN "compare" ELSE turn
               /\ IF arm = "hybrid" THEN UNCHANGED selecting ELSE Begin(pools, "hybrid")
          ELSE turn' = "raised" /\ UNCHANGED <<arms, selecting>>
  /\ UNCHANGED <<query, share, control, work, recall, compared>>

Made == [static_vector |-> arms[1], hybrid |-> arms[2]]

\* ShadowUnitComparisonV3.validate_unit(): every arm ranks what its pools
\* found, in the order that the scores of all pools give
UnitHolds(q, k, hits, made) ==
  /\ \A a \in Arm : made[a].rank = Order(q, hits, a, Pool)
  /\ \A r \in DOMAIN hits["ai_inferred"] :
       hits["ai_inferred"][r].matches \subseteq {<<"ai", t>> : t \in q.units[k].ai}
  /\ \A r \in DOMAIN hits["formal_exact"] :
       \A m \in hits["formal_exact"][r].matches : m[1] = "tag" => m[2] \in q.units[k].exact
  /\ \A r \in DOMAIN hits["file_hint"] :
       hits["file_hint"][r].matches
         \subseteq {<<"hint", t>> : t \in q.units[k].hints \ q.units[k].exact}

CompareUnit ==
  /\ turn = "compare"
  /\ \/ /\ ~UnitHolds(query, work, pools, Made)
        /\ turn' = "raised"
        /\ UNCHANGED <<work, arms, compared>>
     \/ /\ UnitHolds(query, work, pools, Made)
        /\ compared' = Append(compared, [pools |-> pools, arms |-> Made])
        /\ arms' = <<>>
        /\ work' = work + 1
        /\ turn' = IF work = Len(share) THEN "bind" ELSE "recall"
  /\ UNCHANGED <<query, share, control, recall, selecting>>

\* VerifiedRetrievalShadowResultV3._verify_binding(): the structured pools are
\* made once more, the hits of the vector path only checked
BindingHolds(q, result) ==
  \A k \in DOMAIN result :
    LET hits == result[k].pools IN
    /\ \A p \in Pool \ {"semantic_vector"} :
         hits[p] = IF Open(q, k) = {} THEN <<>> ELSE StructuredPool(q, q.units[k], p)
    /\ DOMAIN hits["semantic_vector"] \subseteq
         IF Open(q, k) # {} /\ q.vectors THEN Applicable(q) ELSE {}

\* the end of compare()
Conclude ==
  /\ turn = "bind"
  /\ turn' = IF BindingHolds(query, compared) THEN "returned" ELSE "raised"
  /\ UNCHANGED <<query, share, control, work, recall, selecting, arms, compared>>

Answered == turn \in {"returned", "refused", "raised"} /\ UNCHANGED retrievalVars

RetrievalNext ==
  \/ BuildRequest
  \/ RetrieveUnit
  \/ Recall
  \/ ServeDimension
  \/ \E r \in DOMAIN ranked : Consider(r)
  \/ FinishArm
  \/ CompareUnit
  \/ Conclude
  \/ Answered

RetrievalSpec == RetrievalInit /\ [][RetrievalNext]_retrievalVars

-----------------------------------------------------------------------------
\* two clauses of the static arm that only a score of the AI tells apart, or
\* the platform, their authority or their names, which order them otherwise
TieForTheAI(q, hits) ==
  LET rank == Fusion(q, hits, "static_vector") IN
  \E x, y \in DOMAIN rank :
    /\ rank[x] < rank[y]
    /\ Fused(q, hits, "static_vector", x) = Fused(q, hits, "static_vector", y)
    /\ \A p \in Active("static_vector") : PathScore(hits, p, x) = PathScore(hits, p, y)
    /\ PathScore(hits, "ai_inferred", x) < PathScore(hits, "ai_inferred", y)

\* The checks that a comparison makes of itself, which select and rank once
\* more, never refuse what the service made - but for one case, and always
\* in it: a tie of the static arm that the scores of the AI, which that arm
\* does not read, would have broken in the other way.
RefusedOnlyForATie ==
  /\ turn = "raised" => TieForTheAI(query, pools)
  /\ turn = "bind" => \A n \in DOMAIN compared : ~TieForTheAI(query, compared[n].pools)

\* the evidences of a unit
Evidences(k) ==
  {control[k]} \cup (IF k \in DOMAIN compared THEN {compared[k].arms[a] : a \in Arm} ELSE {})
DimensionsOf(q, e) == UNION {q.clauses[r].dims : r \in Chosen(e.status)}

\* No dimension of a unit is left without a clause for want of care: if
\* clauses that were found have it, then not one of them fits what the budget
\* had left, and the evidence says so, or there are more dimensions than
\* results.
UncoveredIsExplained ==
  \A k \in DOMAIN control : \A e \in Evidences(k) :
    \A d \in query.units[k].dims \ DimensionsOf(query, e) :
      \A r \in {x \in DOMAIN e.rank : d \in query.clauses[x].dims} :
        \/ e.status[r] = "token_budget" /\ <<"budget_exhausted">> \in e.notes
        \/ Cardinality(query.units[k].dims) > query.policy.results

\* as with the weights of retrieval_shadow_v3.yaml: the best hit of the AI
\* counts for less than the last one of the facts, the file or the vectors
AIWeighsLeast(q) ==
  \A p \in {"formal_exact", "file_hint", "semantic_vector"} :
    Contribution(q, "ai_inferred", 1) < Contribution(q, p, q.policy.limit[p])

\* The AI only adds: the static arm is the one of a unit of which the AI found
\* nothing; the order of clauses with none of its tags is the same in both
\* arms; and, with such weights, a clause that only the AI found comes behind
\* every clause of the facts and tags of the unit, of its file or of the
\* vectors.  So the arms are equal where the AI found nothing.
AIOnlyAdds ==
  turn = "returned" =>
    \A k \in DOMAIN compared :
      LET u == query.units[k]
          hits == compared[k].pools
          found == IF hits["semantic_vector"] = <<>> THEN "none" ELSE "found"
          static == compared[k].arms.static_vector
          hybrid == compared[k].arms.hybrid
          plain == DOMAIN hybrid.rank \ DOMAIN hits["ai_inferred"]
          only == DOMAIN hybrid.rank \ DOMAIN static.rank
          strong == Found(hits, {"formal_exact", "file_hint", "semantic_vector"})
      IN /\ Open(query, k) # {} =>
              static.rank = Fusion(query, PoolsOf(query, [u EXCEPT !.ai = {}], found), "static_vector")
         /\ \A x, y \in plain : hybrid.rank[x] < hybrid.rank[y] <=> static.rank[x] < static.rank[y]
         /\ AIWeighsLeast(query) => \A x \in strong, y \in only : hybrid.rank[x] < hybrid.rank[y]
         /\ u.ai = {} => static = hybrid

\* Evidence is given exactly to the units that a bundle may be sent for, and
\* to each no more than its share: the units together stay in the budget of
\* the request, and no unit pays for another.
EvidenceKeepsItsShare ==
  turn = "returned" =>
    /\ \A k \in DOMAIN control : \A e \in Evidences(k) :
         /\ <<"context_dispatch_blocked">> \in e.notes <=>
              \A b \in query.bundles :
                b.dispatch_allowed => k \notin b.group \/ <<k, b.question>> \notin query.bindings
         /\ <<"context_dispatch_blocked">> \in e.notes => Chosen(e.status) = {}
         /\ \A r \in Chosen(e.status) : Applicability(query, r) # "excluded"
         /\ TokensIn(query, Chosen(e.status)) <= share[k]
    /\ MapThenSumSet(LAMBDA k : share[k], DOMAIN share) <= query.total
    /\ \A j, k \in DOMAIN share : share[j] - share[k] \in -1 .. 1
=============================================================================
