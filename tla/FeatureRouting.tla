---------------------------- MODULE FeatureRouting ----------------------------
(***************************************************************************)
(* From review units to questions: code_analysis/unit_facts.py gives each  *)
(* unit the facts that the parser found in its owner, and feature_routing  *)
(* matches these, and the facts of the whole file, with tags, and the tags *)
(* with dimensions and questions.                                          *)
(*                                                                         *)
(* A fact is its kind and name; what a tag's triggers match (names, parts, *)
(* prefixes, suffixes) is a set of facts.  Triggers that look at the roles *)
(* of owners need tag-config-v4, which route() refuses, and are left out.  *)
(***************************************************************************)
EXTENDS ChangeReview

CONSTANT Config  \* tags, dimensions and questions by their ids

\* The definitions the loader admits, with one question for every unit, as
\* the shipped configuration has it.  any, unit: the facts a tag matches in
\* both scopes and in that of a unit only (import uses)
ConfigFits(c) ==
  /\ \A t \in DOMAIN c.tags :
       /\ c.tags[t].status \in {"Active", "Draft", "Deprecated"}
       /\ c.tags[t].any \cup c.tags[t].unit # {}
  /\ \A d \in DOMAIN c.dimensions : c.dimensions[d].policy \in {"signal_required", "always", "disabled"}
  /\ \A q \in DOMAIN c.questions : c.questions[q].always <=> c.questions[q].tags = {}
  /\ \A def \in Range(c.dimensions) \cup Range(c.questions) :
       /\ def.tags \subseteq DOMAIN c.tags
       /\ def.status = "Active" => \A t \in def.tags : c.tags[t].status = "Active"
  /\ \E q \in DOMAIN c.questions : c.questions[q].status = "Active" /\ c.questions[q].always

Around(x, f) == x.from <= f.from /\ f.to <= x.to
Width(x) == x.to - x.from

\* host: where the declaration is that holds a declaration or a region
Place(d) == <<d.kind, d.from, d.to>>

\* DeclarationOccurrence, with begin: where it begins in the list of the older
\* parser
DeclarationKind == Precise \cup Host \cup {"ui_block"}
Declaration ==
  [kind : DeclarationKind, first : Nat, last : Nat, begin : Nat, from : Nat, to : Nat,
   host : {<<>>} \cup (DeclarationKind \X Nat \X Nat)]

\* its regions are those of fields and imports
ReviewRegion ==
  [first : Nat, last : Nat, from : Nat, to : Nat, host : {<<>>} \cup (DeclarationKind \X Nat \X Nat)]

\* What FileAnalysis.validate() admits.  facts: [fact, first, last, from, to],
\* but for those the parser is not sure of, which count for nothing; hints: the
\* facts of the file, without import uses; loose: the declarations of the older
\* list, if the file could not be read by the parser of occurrences
IsParsed(s) ==
  /\ s.declarations \subseteq Declaration /\ IsFiniteSet(s.declarations)
  /\ s.regions \subseteq ReviewRegion
  /\ \A d, e \in s.declarations : Place(d) = Place(e) => d = e
  /\ \A d \in s.declarations : d.first <= d.begin /\ d.begin <= d.last
  /\ \A x \in s.declarations \cup s.regions :
       x.host # <<>> =>
         \E d \in s.declarations :
           /\ Place(d) = x.host /\ Around(d, x)
           /\ x \in s.declarations => Width(x) < Width(d)
  /\ \A f \in s.facts :
       {f.from, f.to, f.first, f.last} \subseteq Nat /\ f.from < f.to /\ f.first <= f.last
  /\ \A d \in s.loose : IsDeclaration(d) /\ d.last <= s.lines
  /\ s.loose # {} => s.declarations \cup s.regions \cup s.facts = {}

\* What comes of walking a syntax tree, which no check asks for: of the
\* declarations around a fact no two are equally wide, nor are two regions; and
\* a struct or class around a fact has it in its lines and is around whatever
\* holds the narrower structures around the fact
IsTree(s) ==
  \A f \in s.facts :
    LET around == {d \in s.declarations : Around(d, f)}
        regions == {r \in s.regions : Around(r, f)}
    IN /\ \A d, e \in around : Width(d) = Width(e) => d = e
       /\ \A r, x \in regions : Width(r) = Width(x) => r = x
       /\ \A e \in {d \in around : d.kind \in Host} :
            /\ e.first <= f.first /\ f.last <= e.last
            /\ \A x \in (around \cup regions) \ {e} :
                 Width(x) <= Width(e) => \E h \in around : x.host = Place(h) /\ Width(h) <= Width(e)

ASSUME RoutingAssumption ==
  /\ ConfigFits(Config)
  /\ \A set \in ChangeSets : \A f \in DOMAIN set : \A r \in Role :
       IsParsed(set[f].source[r]) /\ IsTree(set[f].source[r])

VARIABLE profiles  \* the units routed so far: [file, role, unit] and what they got

-----------------------------------------------------------------------------
(* Projection. *)

\* the narrowest structure around a fact, a region before a declaration
IsOwner(source, x, f) ==
  /\ Around(x, f)
  /\ \A y \in (source.declarations \cup source.regions) \ {x} :
       Around(y, f) => \/ Width(x) < Width(y)
                       \/ Width(x) = Width(y) /\ x \in source.regions /\ y \notin source.regions

\* mutant: the regions of a declaration are those in its lines
EligibleOwners_Lines(source, x) ==
  {x} \cup {y \in source.declarations \cup source.regions : Within(x, y)}

\* the structures of a kind that some others hold
HeldBy(structures, hosts) == {x \in structures : \E h \in hosts : x.host = Place(h)}

\* a declaration with all declarations below it
Descendants(source, x) ==
  LET below[n \in 0 .. Cardinality(source.declarations)] ==
        IF n = 0 THEN {x} ELSE below[n - 1] \cup HeldBy(source.declarations, below[n - 1])
  IN below[Cardinality(source.declarations)]

\* _eligible_owner_keys(): a declaration with all below it, a region alone
EligibleOwners(source, x) ==
  IF x \in source.regions THEN {x}
  ELSE Descendants(source, x) \cup HeldBy(source.regions, Descendants(source, x))

\* fallback units and those of loose declarations have no owner
Owned(source, u) == u.what # "fallback" /\ u.owner \notin source.loose

\* _owner_matches_unit()
OwnerMatches(source, u) == Owned(source, u) => u.owner \in source.declarations \cup source.regions

\* project()
ExactFacts(source, u) ==
  IF ~Owned(source, u) THEN {}
  ELSE LET eligible == EligibleOwners(source, u.owner) IN
       {f.fact : f \in {g \in source.facts :
                          /\ \E x \in eligible : IsOwner(source, x, g)
                          /\ u.owner.first <= g.first /\ g.last <= u.owner.last}}

-----------------------------------------------------------------------------
(* Routing. *)

\* match_signals()
Signalled(tag, facts, scope) ==
  facts \cap (tag.any \cup (IF scope = "unit_exact" THEN tag.unit ELSE {})) # {}

Tagged(facts, scope, status) ==
  {t \in DOMAIN Config.tags : Config.tags[t].status = status /\ Signalled(Config.tags[t], facts, scope)}

\* the definitions that _dimension_route() and _questions() look at
OfStatus(defs, status) == {x \in DOMAIN defs : defs[x].status = status}

\* _profile(): a unit with its facts, and what these and the hints of its file
\* come to
Profile(file, role, unit, facts, hints) ==
  LET exact == Tagged(facts, "unit_exact", "Active")
      hinted == Tagged(hints, "file_hint", "Active")
      drafts == Tagged(facts, "unit_exact", "Draft")
      Reviewed(def) == def.always \/ def.tags \cap exact # {}
      Sought(def, tags) == def.policy = "always" \/ (def.policy = "signal_required" /\ def.tags \cap tags # {})
      Retrieved(def) == Sought(def, exact)
      Routed(def) == Sought(def, exact \cup hinted)
      Tried(def) == def.always \/ def.tags \cap (exact \cup drafts) # {}
  IN [file |-> file, role |-> role, unit |-> unit, facts |-> facts,
      exact |-> exact, hints |-> hinted,
      review |-> {x \in OfStatus(Config.dimensions, "Active") : Reviewed(Config.dimensions[x])},
      retrieval |-> {x \in OfStatus(Config.dimensions, "Active") : Retrieved(Config.dimensions[x])},
      routing |-> {x \in OfStatus(Config.dimensions, "Active") : Routed(Config.dimensions[x])},
      questions |-> {x \in OfStatus(Config.questions, "Active") : Reviewed(Config.questions[x])},
      shadow |-> {x \in OfStatus(Config.questions, "Draft") : Tried(Config.questions[x])}]

\* _route_scopes(), for one unit
Routing(file, role, source, u) == Profile(file, role, u, ExactFacts(source, u), source.hints)

-----------------------------------------------------------------------------
\* what a unit may count as its own: the facts that stand in its owner's text
FactsInside(source, u) ==
  IF Owned(source, u) THEN {f.fact : f \in {g \in source.facts : Around(u.owner, g)}} ELSE {}
Earned(source, u, defs) ==
  {x \in DOMAIN defs :
     /\ defs[x].status = "Active"
     /\ \/ defs[x].always
        \/ \E t \in defs[x].tags :
             FactsInside(source, u) \cap (Config.tags[t].any \cup Config.tags[t].unit) # {}}

\* a profile holds what the unit's own text earns it, and all of it if the unit
\* is a struct or a class
EarnedIn(source, p) ==
  LET questions == Earned(source, p.unit, Config.questions)
      dimensions == Earned(source, p.unit, Config.dimensions)
      whole == Owned(source, p.unit) /\ p.unit.what = "declaration" /\ p.unit.owner.kind \in Host
  IN /\ p.questions \subseteq questions /\ p.review \subseteq dimensions
     /\ whole => p.questions = questions /\ p.review = dimensions
=============================================================================
