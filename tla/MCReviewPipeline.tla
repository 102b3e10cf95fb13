--------------------------- MODULE MCReviewPipeline ---------------------------
(***************************************************************************)
(* Instances of ReviewPipeline: the diffs and plans of MCChangeAnalysis    *)
(* and, for retrieval alone, four families of calls, each rich where one   *)
(* of its steps is: the ranks of clauses that facts, tags, keywords, the   *)
(* AI or the vectors find, the selection under a budget and a limit, ties  *)
(* of the arms, and several units, platforms, aliases and failures; and    *)
(* calls with files of seven lines, some with decorators above a comment.  *)
(* The weights are those of retrieval.yaml and retrieval_shadow_v3.yaml.   *)
(***************************************************************************)
EXTENDS MCChangeAnalysis, ReviewPipeline

Weights ==
  [rule_id |-> 100, api |-> 50, component |-> 40, decorator |-> 40, tag |-> 30, hint |-> 10,
   keyword |-> 5, overlap |-> 2, applicable |-> 3]
Limits(n) == [x \in Pool \cup {"exact", "vector"} |-> n]
Policy(n, most) ==
  [weight |-> Weights, k |-> 60, results |-> n, units |-> 3, similarity |-> 30, limit |-> Limits(most),
   share |-> [formal_exact |-> 4, file_hint |-> 2, text_keyword |-> 1, ai_inferred |-> 1,
              semantic_vector |-> 4]]

Clause(facts, tags, keywords, dims, tokens) ==
  [facts |-> facts, tags |-> tags, keywords |-> keywords, dims |-> dims, tokens |-> tokens,
   authority |-> 70, needs |-> <<>>]
NoVectors(clauses) == [which \in {"control", "shadow"} |-> [r \in DOMAIN clauses |-> -100]]
Signals(clauses, facts, exact, hints, ai, dims) ==
  [facts |-> facts, exact |-> exact, hints |-> hints, ai |-> ai, dims |-> dims, requested |-> {},
   words |-> {"w"}, text |-> TRUE, near |-> NoVectors(clauses), weak |-> FALSE]

\* one unit with one question, which a bundle may ask
Call(clauses, unit, total, policy) ==
  [clauses |-> clauses, units |-> <<unit>>, total |-> total, policy |-> policy,
   symbols |-> {}, vectors |-> FALSE, provider |-> TRUE, target |-> <<>>, proven |-> {1},
   bindings |-> {<<1, q1>>},
   bundles |-> {[group |-> {1}, question |-> q1, dispatch_allowed |-> TRUE]}]

\* the ranks: two clauses with any mix of a fact, two tags and a keyword
\* beside a third, for a unit whose tags, hints and AI overlap
Mixes == {Clause(facts, tags, words, {1}, 1) :
            facts \in {{}, {Api}}, tags \in SUBSET {"t", "u"}, words \in {{}, {"w"}}}
Ranking ==
  {LET clauses == <<x, y, z>> IN
   Call(clauses, Signals(clauses, {Api, State}, exact, {"t", "u"}, ai, {1}), 2, Policy(2, 2)) :
     x \in Mixes, y \in Mixes,
     z \in {Clause({State}, {"t"}, {"w"}, {2}, 1)},
     exact \in {{}, {"t"}}, ai \in {{}, {"u"}, {"t", "u"}}}

\* the selection: three clauses of any size for any of two dimensions
Sizes == {Clause({Api}, {}, {}, dims, tokens) : dims \in SUBSET {1, 2}, tokens \in 1..3}
Selecting ==
  {LET clauses == <<x, y, z>> IN
   Call(clauses, Signals(clauses, {Api}, {}, {}, {}, {1, 2}), room[1], Policy(room[2], 50)) :
     x \in Sizes, y \in Sizes, z \in {c \in Sizes : c.tokens = 1}, room \in {<<3, 1>>, <<2, 2>>, <<3, 2>>}}

\* the ties: two clauses of one score, by three tags or by two facts, with
\* similar texts or not
Ties ==
  {LET clauses == <<[Clause({Api, Button}, {}, {}, {}, 1) EXCEPT !.authority = a, !.tags = more],
                    Clause({}, {"t", "u", "v"}, {}, {}, 1)>>
       near == [which \in {"control", "shadow"} |-> <<sim, 60>>]
   IN [Call(clauses, [Signals(clauses, {Api, Button}, {"t", "u", "v"}, {}, ai, {}) EXCEPT !.near = near],
            2, Policy(2, most)) EXCEPT !.vectors = TRUE] :
     a \in {60, 70, 80}, more \in {{}, {"ai"}}, sim \in {20, 50, 60, 70},
     ai \in {{}, {"t"}, {"ai"}, {"t", "ai"}}, most \in {1, 50}}

\* several units: blocked or not, with and without vectors, evidence, a
\* provider and enough tokens; platforms known or not, aliases of one or two
\* symbols, a clause asked for by name
Several ==
  {LET clauses == <<[Clause({Api}, {}, {}, {1}, 1) EXCEPT !.needs = [api_level |-> 9..12]],
                    [Clause({Button}, {"t"}, {}, {2}, 1) EXCEPT !.needs = [permission |-> {"p"}]],
                    Clause({<<"api", "g">>}, {}, {}, {1}, 2)>>
       near == [which \in {"control", "shadow"} |-> <<70, 40, 20>>]
       first == [Signals(clauses, {<<"api", "alias">>}, {}, {}, {}, {1, 2})
                   EXCEPT !.near = near, !.requested = wanted]
       second == [Signals(clauses, {}, {}, {}, {"t"}, {2})
                    EXCEPT !.near = near, !.text = text, !.weak = TRUE]
   IN [Call(clauses, first, total, Policy(2, 50))
         EXCEPT !.units = <<first, second>>, !.vectors = vectors, !.provider = provider,
                !.target = target, !.proven = proven, !.symbols = symbols,
                !.bindings = {<<1, q1>>, <<2, q1>>, <<2, q2>>},
                !.bundles = {[group |-> {1, 2}, question |-> q1, dispatch_allowed |-> go[1]],
                             [group |-> {1, 2}, question |-> q2, dispatch_allowed |-> go[2]]}] :
     total \in {1, 3}, vectors \in {TRUE}, provider \in BOOLEAN, text \in BOOLEAN,
     wanted \in {{}, {2}}, proven \in {{1, 2}},
     target \in {<<>>, [api_level |-> 8, permission |-> {"p"}], [api_level |-> 12, permission |-> {}]},
     symbols \in {{[name |-> "f", aliases |-> {"alias"}]},
                  {[name |-> "f", aliases |-> {"alias"}], [name |-> "g", aliases |-> {"alias"}]}},
     go \in {<<TRUE, FALSE>>, <<FALSE, TRUE>>, <<FALSE, FALSE>>}}
Uncovered == {[q EXCEPT !.proven = {1}] : q \in {x \in Several : x.provider /\ x.total = 3}}

\* files: a struct whose methods may begin elsewhere in the older list, one
\* with facts in its parts, one that was not parsed, one without structs
Whole == Parsed(7, Methods \cup {Decl("struct", 1, 7)}, Parts, {Fact(Api, 4, 32), Fact(State, 3, 24)})
LateIn(source, which) ==
  [source EXCEPT !.declarations = {IF d \in which THEN [d EXCEPT !.begin = d.first + 1] ELSE d : d \in @}]
Shifted == {LateIn(Whole, which) : which \in SUBSET {d \in Whole.declarations : d.kind # "ui_block"}}
Unparsed ==
  [Source(7, {}, {}) EXCEPT !.loose = {[d EXCEPT !.begin = d.first] : d \in Whole.declarations},
                            !.hints = {Api}]
Flat == Parsed(7, {Piece("function", 2, 4, 12, 33)}, {}, {Fact(Use, 3, 22)})
Hunks == {{}, {<<5, 5>>}, {<<3, 4>>, <<5, 7>>}, {<<1, 4>>, <<3, 6>>}, {<<7, 8>>}, {<<1, 1>>}}
Files(sources) == {[source |-> s, hunks |-> h] : s \in sources, h \in Hunks}
MCCalls ==
  {[mode |-> mode, files |-> <<file>>] : mode \in {"full", "diff"},
     file \in Files(Shifted \cup Strewn(Api) \cup {Unparsed, Flat, Nowhere})}
  \cup {[mode |-> mode, files |-> <<file, other>>] : mode \in {"full", "diff"},
           file \in Files({Whole, Flat}), other \in Files({Unparsed, Nowhere, LateIn(Whole, {Hosted(Decl("struct", 1, 7), {})})})}

MCQueries == Ranking \cup Selecting \cup Ties \cup Several \cup Uncovered

\* for the plans of a small diff: three units with one clause for all of them
AskedAbout ==
  {changes \in Planned : \A atom \in changes[1].atoms : atom.kind = "replacement" \/ atom = Added({2})}
MCSurroundings(changes) ==
  LET clauses == <<Clause({Api}, {}, {}, {1}, 1), Clause({Button}, {"u"}, {}, {2}, 1)>>
      unit == Signals(clauses, {}, {}, {}, {}, {})
  IN IF changes \notin AskedAbout THEN {}
     ELSE {[Call(clauses, unit, 4, Policy(2, 50))
              EXCEPT !.units = [p \in MCPrimary |-> unit], !.proven = MCPrimary]}
=============================================================================
