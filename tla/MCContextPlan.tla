---------------------------- MODULE MCContextPlan ----------------------------
(***************************************************************************)
(* Instances of ContextPlan: three changed units, two questions, and three *)
(* families of arguments, each rich where one of the planner's steps is.   *)
(***************************************************************************)
EXTENDS ContextPlan

CONSTANTS q1, q2, a1, a2

MCPrimary == 1..3
MCCandidate == 1..5

Tokens == <<1, 1, 2>>
Weight == [g \in SUBSET MCPrimary |-> MapThenSumSet(LAMBDA p : Tokens[p], g)]
Bound == {<<1, q1>>, <<2, q1>>, <<3, q1>>, <<3, q2>>}

Argument(limit, side, atoms, blocked, links, candidates) ==
  [limit |-> limit, weight |-> Weight, side |-> side, atoms |-> atoms, blocked |-> blocked,
   edges |-> links, bindings |-> Bound, candidates |-> candidates]

AllHead == <<"head", "head", "head">>
Apart == <<{}, {}, {}>>
Link(p, q, kind) ==
  [from |-> p, to |-> q, strong |-> kind # "weak", exact |-> kind # "inexact",
   evidence |-> kind # "same_file"]

Wish(p, q, necessity, kind, tokens) ==
  [primary |-> p, question |-> q, necessity |-> necessity, exact |-> kind # "inexact",
   evidence |-> kind # "same_file", tokens |-> tokens]

\* the grouping: any chain or cycle of three links, atoms shared across sides
Grouping ==
  LET kinds == {"none", "strong", "weak", "inexact", "same_file"}
      links(f) == {Link(l, (l % 3) + 1, f[l]) : l \in {k \in 1..3 : f[k] # "none"}}
  IN {Argument(5, shape[1], shape[2], FALSE, links(f),
               <<Wish(1, q1, "required", "strong", 1), Wish(3, q2, "helpful", "strong", 1)>>) :
        f \in [1..3 -> kinds],
        shape \in {<<AllHead, Apart>>, <<AllHead, <<{a1}, {a1}, {a2}>> >>,
                   << <<"head", "base", "head">>, <<{a1}, {a1, a2}, {a2}>> >>,
                   << <<"base", "head", "base">>, <<{a1}, {a2}, {a2}>> >>} }

\* the choice: every mix of two candidates beside a third of the same group or another
Kinds ==
  {<<"distractor", "strong", 1>>}
    \cup {<<n, k, t>> : n \in {"required", "helpful"}, k \in {"strong"}, t \in {1, 3}}
    \cup {<<n, k, t>> : n \in {"required", "helpful"}, k \in {"inexact", "same_file"}, t \in {1}}
Third == {<<n, "strong", t>> : n \in {"required", "helpful"}, t \in {1, 3}}
Choice ==
  {Argument(limit, AllHead, Apart, blocked, links,
            <<Wish(1, q1, x[1], x[2], x[3]), Wish(1, q1, y[1], y[2], y[3]), Wish(3, q1, z[1], z[2], z[3])>>) :
     limit \in {3, 6}, blocked \in {FALSE}, links \in {{}, {Link(3, 1, "strong")}},
     x \in Kinds, y \in Kinds, z \in Third}
    \cup
  {Argument(6, AllHead, Apart, TRUE, {},
            <<Wish(1, q1, x[1], x[2], x[3]), Wish(1, q1, y[1], y[2], y[3])>>) :
     x \in Kinds, y \in Kinds}

\* the packing: four helpful candidates of any size beside a required one
Packing ==
  {Argument(6, AllHead, Apart, FALSE, {},
            <<Wish(1, q1, "helpful", "strong", w[1]), Wish(1, q1, "helpful", "strong", w[2]),
              Wish(1, q1, "helpful", "strong", w[3]), Wish(1, q1, "helpful", "strong", w[4]),
              Wish(1, q1, "required", "strong", t)>>) :
     w \in [1..4 -> 1..3], t \in {1, 2}}

MCInputs == Grouping \cup Choice \cup Packing
=============================================================================
