--------------------------- MODULE MCChangeAnalysis ---------------------------
(***************************************************************************)
(* Instances of ChangeAnalysis: files of four lines with a struct or none, *)
(* with every mix of four members and three sets of fields, a struct of    *)
(* seven lines with facts in any of its parts, and small diffs of three    *)
(* units that are planned as well.  The planner is also given the          *)
(* arguments of MCContextPlan.                                             *)
(***************************************************************************)
EXTENDS ChangeAnalysis, MCContextPlan

\* the offsets of line n are 10(n-1) .. 10n-1
Piece(kind, first, last, from, to) ==
  [kind |-> kind, first |-> first, last |-> last, begin |-> first, from |-> from, to |-> to, host |-> <<>>]
Decl(kind, first, last) == Piece(kind, first, last, 10 * (first - 1), 10 * last - 1)
Region(first, last, from, to) ==
  [first |-> first, last |-> last, from |-> from, to |-> to, host |-> <<>>]
Fact(fact, line, from) == [fact |-> fact, first |-> line, last |-> line, from |-> from, to |-> from + 1]

Api == <<"api", "f">>
Use == <<"import", "f">>
Button == <<"component", "b">>
State == <<"decorator", "s">>

\* declarations are held by the narrowest declaration around them, regions by
\* the narrowest struct or class
Hosted(x, declarations) ==
  LET around == {d \in declarations \ {x} : Around(d, x)} IN
  IF around = {} THEN x
  ELSE [x EXCEPT !.host = Place(CHOOSE d \in around : \A e \in around : Width(d) <= Width(e))]
Parsed(lines, ds, rs, facts) ==
  [lines |-> lines, declarations |-> {Hosted(d, ds) : d \in ds},
   regions |-> {Hosted(r, {d \in ds : d.kind \in Host}) : r \in rs},
   facts |-> facts, hints |-> {f.fact : f \in facts} \ {Use}, loose |-> {}]
Source(lines, ds, rs) == Parsed(lines, ds, rs, {})
Nowhere == Source(0, {}, {})

\* a span for the lines of an atom, and an atom
SpanOf(lines) == IF lines = {} THEN <<>> ELSE <<Min(lines), Max(lines)>>
ChangeAtom(kind, base, head) ==
  [kind |-> kind, lines |-> [base |-> base, head |-> head],
   span |-> [base |-> SpanOf(base), head |-> SpanOf(head)]]
Added(lines) == ChangeAtom("addition", {}, lines)
Deleted(lines) == ChangeAtom("deletion", lines, {})

File(status, base, head, atoms) ==
  [status |-> status, binary |-> FALSE, same |-> FALSE,
   source |-> [base |-> base, head |-> head], atoms |-> atoms]
Binary == [File("modified", Nowhere, Nowhere, {}) EXCEPT !.binary = TRUE]

Lines(n) == (SUBSET (1..n)) \ {{}}

\* the members of a struct: a method, another that begins on the line where
\* the first ends, and a long build method; a class that a method holds
Members ==
  {Piece("method", 1, 2, 1, 10), Piece("method", 2, 2, 16, 19), Piece("build_method", 3, 4, 26, 38),
   Piece("ui_block", 4, 4, 30, 37)}
Struct == Decl("struct", 1, 4)
Inner == Piece("class", 1, 1, 2, 9)
Fields ==
  {{}, {Region(2, 3, 13, 25), Region(3, 3, 20, 24)}, {Region(2, 2, 11, 12), Region(2, 3, 13, 25)}}

\* one atom, or one and another of a single line, on either side
TwoAtoms(n) ==
  {x \in (SUBSET (1..n)) \X (SUBSET (1..n)) :
     /\ x[1] # {} /\ x[1] \cap x[2] = {}
     /\ x[2] # {} => Cardinality(x[2]) = 1}

Layouts ==
  LET parts(x) == {x[1]} \cup ({x[2]} \ {{}}) IN
  {<<File("modified", Nowhere, source, {Added(part) : part \in parts(x)})>> :
     source \in {Source(4, ds \cup {Struct}, rs) : ds \in SUBSET Members, rs \in Fields},
     x \in TwoAtoms(4)}
  \cup
  {<<File("renamed", source, Nowhere, {Deleted(lines)})>> :
     source \in {Source(4, ds, {}) : ds \in SUBSET (Members \cup {Inner})}, lines \in Lines(4)}

\* tags t and u for facts, d a draft, and what depends on them
Tag(status, any, unit) == [status |-> status, any |-> any, unit |-> unit]
Dimension(status, always, policy, tags) ==
  [status |-> status, always |-> always, policy |-> policy, tags |-> tags]
Asks(status, always, tags) == [status |-> status, always |-> always, tags |-> tags]
MCConfig ==
  [tags |-> [t |-> Tag("Active", {Api}, {Use}), u |-> Tag("Active", {Button}, {}), d |-> Tag("Draft", {State}, {})],
   dimensions |-> <<Dimension("Active", FALSE, "signal_required", {"t"}), Dimension("Active", TRUE, "always", {}),
                    Dimension("Active", FALSE, "disabled", {"u"}), Dimension("Draft", FALSE, "always", {"d"})>>,
   questions |-> q1 :> Asks("Active", TRUE, {}) @@ q2 :> Asks("Active", FALSE, {"t"})
                   @@ "draft" :> Asks("Draft", FALSE, {"d"})]

\* a struct with facts in any of its parts: a field; a method that holds an
\* anonymous class with a field, which counts as one of the struct; a method
\* with a component; and a field that begins on the line where that one ends
Parts == {Region(2, 2, 10, 19), Region(4, 4, 31, 37), Region(6, 6, 56, 58)}
Methods ==
  {Piece("method", 3, 4, 20, 39), Piece("method", 5, 6, 40, 54), Piece("ui_block", 5, 5, 42, 48)}
Spots == {<<1, 1>>, <<2, 12>>, <<3, 22>>, <<4, 32>>, <<5, 41>>, <<5, 43>>, <<6, 57>>}
Strewn(fact) ==
  {Parsed(7, Methods \cup {Decl("struct", 1, 7)}, Parts,
          {Fact(fact, spot[1], spot[2]) : spot \in spots} \cup {Fact(State, 3, 24)}) :
     spots \in {s \in SUBSET Spots : Cardinality(s) <= 2}}
Facted ==
  {<<File("modified", Nowhere, source, {Added({line})})>> :
     source \in Strewn(Api) \cup Strewn(Use), line \in 1..7}

\* two functions, or one, on either side, of which the first uses f: a
\* replacement and a second atom
Short ==
  {Parsed(2, ds, {}, {Fact(Api, 1, 5), Fact(Button, 2, 15)}) :
     ds \in {{Decl("function", 1, 1), Decl("function", 2, 2)}, {Decl("function", 1, 1)}}}
Planned ==
  {<<File("modified", base, head, {ChangeAtom("replacement", x, y)} \cup z)>> \o tail :
     base \in Short, head \in Short,
     x \in {{1}, {1, 2}}, y \in {{1}, {2}, {1, 2}},
     z \in {{}, {Added({1})}, {Added({2})}, {Deleted({2})}},
     tail \in {<<>>, <<Binary>>}}

\* whole files, pure renames, and input that must be refused
Odd ==
  LET two == Source(2, {Decl("function", 1, 2)}, {}) IN
  {<<File("added", Nowhere, two, as)>> : as \in {{Added({1, 2})}, {Added({1})}, {Added({1}), Added({2})},
      {ChangeAtom("replacement", {1}, {1, 2})}}}
  \cup {<<File("deleted", two, Nowhere, as)>> : as \in {{Deleted({1, 2})}, {Deleted({2})}, {Deleted({1, 2, 3})}}}
  \cup {<<[File(status, two, two, as) EXCEPT !.same = TRUE]>> : status \in {"renamed", "modified"}, as \in {{}, {Added({1})}}}
  \cup {<<File("modified", Nowhere, two, {})>>, <<Binary>>, <<>>,
         <<File("added", Nowhere, Nowhere, {}), File("deleted", two, Nowhere, {Deleted({1, 2})})>>}

MCChangeSets == Layouts \cup Facted \cup Planned \cup Odd

\* all Primaries of a change fit together; of the larger files, those that
\* were renamed are planned
MCRequests(changes) ==
  {r \in {[limit |-> 4, weight |-> Weight, edges |-> {}, candidates |-> <<>>]} :
     changes \in Planned \/ \E f \in DOMAIN changes : changes[f].status = "renamed"}

MCAtom ==
  {a1, a2} \cup
    UNION {UNION {{f} \X changes[f].atoms : f \in DOMAIN changes} : changes \in MCChangeSets}
=============================================================================
